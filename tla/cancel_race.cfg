\* No crash; connector errors on; two same-key deposits on one route.
CONSTANTS
  d1 = d1  d2 = d2  n1 = n1  n2 = n2
  Deposit <- MC_Deposit
  Net <- MC_Net
  Src <- MC_Src
  Dst <- MC_Dst
  Block <- MC_Block
  Key <- MC_Key
  ChanCap = 1
  MaxReleases = 2
  MaxCrashes = 0
  MaxReconnects = 1
  MaxLostReplies = 0
  Unconvertible <- MC_NoDeposit
  DbErrors = TRUE
  LateToken <- MC_LateSecond
  MaxClockSteps = 0
  ConnectorErrors = TRUE
SPECIFICATION Spec
INVARIANT TypeOK
PROPERTY LifecycleRefinement
CHECK_DEADLOCK FALSE
