CONSTANTS
  Vals <- MCValsInf
  Tol <- MCTol
  MaxK <- MCMaxK
  NaN = NaN
  Inf = Inf
  NegInf = NegInf
  NoErr = NoErr
SPECIFICATION Spec

INVARIANT ExactlySymmetricAccepted
CHECK_DEADLOCK FALSE
