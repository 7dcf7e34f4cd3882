\* One crash; connector errors; two deposits in opposite directions.
CONSTANTS
  d1 = d1  d2 = d2  n1 = n1  n2 = n2
  Deposit <- MC_Deposit
  Net <- MC_Net
  Src <- MC_SrcCross
  Dst <- MC_DstCross
  Block <- MC_BlockOne
  Key <- MC_KeyDistinct
  ChanCap = 1
  MaxReleases = 3
  MaxCrashes = 1
  MaxReconnects = 0
  MaxLostReplies = 0
  Unconvertible <- MC_NoDeposit
  DbErrors = FALSE
  LateToken <- MC_NoDeposit
  MaxClockSteps = 0
  ConnectorErrors = TRUE
SPECIFICATION Spec
INVARIANT NoDoubleSpend
CHECK_DEADLOCK FALSE
