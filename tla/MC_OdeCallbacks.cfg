CONSTANTS
  N <- MCN
  P <- MCP
  MuVals <- MCMuVals
  MaxCalls <- MCMaxCalls
  SharedOutputs = FALSE
SPECIFICATION Spec
INVARIANT TypeOK
INVARIANT RhsAdjSensCorrect
INVARIANT QuadRhsAdjCorrect
INVARIANT JacobianCorrect
CHECK_DEADLOCK FALSE
