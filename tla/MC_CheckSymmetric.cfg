CONSTANTS
  Vals <- MCVals
  Tol <- MCTol
  MaxK <- MCMaxK
  NaN = NaN
  Inf = Inf
  NegInf = NegInf
  NoErr = NoErr
SPECIFICATION Spec
INVARIANT TypeOK
INVARIANT ThrowsOnFirstAsymmetricPair
CHECK_DEADLOCK FALSE
