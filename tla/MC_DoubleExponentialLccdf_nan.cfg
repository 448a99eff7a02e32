CONSTANTS
  YVals <- MCAcceptedYVals
  MuVals <- MCAcceptedMuVals
  SigmaVals <- MCAcceptedSigmaVals
  MaxLen <- MCScalarLen
SPECIFICATION Spec
INVARIANT NoNaN
\* The function returns or throws: its last state has no successor.
CHECK_DEADLOCK FALSE
