\* Two restarts, one lost bridge_out answer and one step back of the clock; connector calls succeed; a single deposit from n1 to n2.
CONSTANTS
  d1 = d1  d2 = d2  n1 = n1  n2 = n2
  Deposit <- MC_Single
  Net <- MC_Net
  Src <- MC_SrcSingle
  Dst <- MC_DstSingle
  Block <- MC_BlockSingle
  Key <- MC_KeySingle
  ChanCap = 1
  MaxReleases = 4
  MaxCrashes = 2
  MaxReconnects = 0
  MaxLostReplies = 1
  Unconvertible <- MC_NoDeposit
  DbErrors = FALSE
  LateToken <- MC_NoDeposit
  MaxClockSteps = 1
  ConnectorErrors = FALSE
SPECIFICATION Spec
PROPERTY WaitingResolved
CHECK_DEADLOCK FALSE
