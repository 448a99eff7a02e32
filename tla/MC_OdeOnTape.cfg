CONSTANTS
  MaxC <- MCMaxC
  MaxN <- MCMaxN
  MaxDepth <- MCMaxDepth
  MaxGrads <- MCMaxGrads
  MaxNestedGrads <- MCMaxNestedGrads
  NTs <- MCNTs
  NStates <- MCNStates
  DoubleOdeCalls <- MCDoubleOdeCalls
  NoSeed = NoSeed
SPECIFICATION Spec
CONSTRAINT MCUserLeaves
CONSTRAINT MCOneOperand
INVARIANT TypeOK
INVARIANT OdeGradientCorrect
PROPERTY GradLeavesTapeAsFound
CHECK_DEADLOCK FALSE
VIEW MCView
