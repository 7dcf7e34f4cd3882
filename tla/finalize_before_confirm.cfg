\* No crash; a single deposit.
CONSTANTS
  d1 = d1  d2 = d2  n1 = n1  n2 = n2
  Deposit <- MC_Single
  Net <- MC_Net
  Src <- MC_SrcSingle
  Dst <- MC_DstSingle
  Block <- MC_BlockSingle
  Key <- MC_KeySingle
  ChanCap = 1
  MaxReleases = 1
  MaxCrashes = 0
  MaxReconnects = 0
  MaxLostReplies = 0
  Unconvertible <- MC_NoDeposit
  DbErrors = FALSE
  LateToken <- MC_NoDeposit
  MaxClockSteps = 0
  ConnectorErrors = FALSE
SPECIFICATION Spec
PROPERTY ConfirmingFinished
CHECK_DEADLOCK FALSE
