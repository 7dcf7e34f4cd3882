\* 10-bit amounts, scale 2, release build (no overflow checks).
CONSTANTS
  Width = 10
  Scale = 2
  Decimals <- MC_Decimals
  OverflowChecks = FALSE
SPECIFICATION Spec
INVARIANT TypeOK NoOverpay
CHECK_DEADLOCK FALSE
