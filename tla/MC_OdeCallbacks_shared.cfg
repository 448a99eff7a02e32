CONSTANTS
  N <- MCN
  P <- MCP
  MuVals <- MCMuVals
  MaxCalls <- MCMaxCalls
  SharedOutputs = TRUE
SPECIFICATION Spec
INVARIANT RhsAdjSensCorrect
CHECK_DEADLOCK FALSE
