CONSTANTS
  YVals <- MCYVals
  MuVals <- MCMuVals
  SigmaVals <- MCSigmaVals
  MaxLen <- MCMaxLen
SPECIFICATION Spec
INVARIANT TypeOK
INVARIANT LccdfMonotone
\* The function returns or throws: its last state has no successor.
CHECK_DEADLOCK FALSE
