CONSTANTS
  MaxC <- MCMaxC
  MaxN <- MCMaxN
  MaxDepth <- MCMaxDepth
  MaxGrads <- MCMaxGrads
  MaxNestedGrads <- MCMaxNestedGrads
  NoSeed = NoSeed
SPECIFICATION Spec
INVARIANT TypeOK
PROPERTY SweepRefinesAtomicGrad
CHECK_DEADLOCK FALSE
