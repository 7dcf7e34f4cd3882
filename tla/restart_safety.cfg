\* One crash; connector errors; two same-key deposits on one route.
CONSTANTS
  d1 = d1  d2 = d2  n1 = n1  n2 = n2
  Deposit <- MC_Deposit
  Net <- MC_Net
  Src <- MC_Src
  Dst <- MC_Dst
  Block <- MC_Block
  Key <- MC_Key
  ChanCap = 1
  MaxReleases = 2
  MaxCrashes = 1
  MaxReconnects = 0
  MaxLostReplies = 0
  Unconvertible <- MC_NoDeposit
  DbErrors = FALSE
  LateToken <- MC_NoDeposit
  MaxClockSteps = 0
  ConnectorErrors = TRUE
SPECIFICATION Spec
INVARIANT OutboundUnique
CHECK_DEADLOCK FALSE
