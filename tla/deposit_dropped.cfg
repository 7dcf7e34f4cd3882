\* No crash; two deposits on n1 in blocks 1 and 2; the amount of d1 does
\* not convert to n2's decimals; the destination connector may register late;
\* d1 is of a token that setup-tokens adds while the bridge runs.
CONSTANTS
  d1 = d1  d2 = d2  n1 = n1  n2 = n2
  Deposit <- MC_Deposit
  Net <- MC_Net
  Src <- MC_Src
  Dst <- MC_Dst
  Block <- MC_Block
  Key <- MC_Key
  ChanCap = 1
  MaxReleases = 2
  MaxCrashes = 0
  MaxReconnects = 0
  MaxLostReplies = 0
  Unconvertible <- MC_FirstDeposit
  DbErrors = TRUE
  LateToken <- MC_FirstDeposit
  MaxClockSteps = 0
  ConnectorErrors = FALSE
SPECIFICATION Spec
INVARIANT NoDepositLost
CHECK_DEADLOCK FALSE
