SPECIFICATION Spec
CONSTANTS
  cr = cr
  lf = lf
  other = other
  Byte = {cr, lf, other}
  CL = cr
  RF = lf
  BUF_DATA_MAXSIZE = 7
  MaxBytes = 9
INVARIANTS TypeOK StatusIsLongestMatch StopsAtTerminator ParseAgrees RefusesOnlyDoubledCr NoByteLost
CHECK_DEADLOCK FALSE
