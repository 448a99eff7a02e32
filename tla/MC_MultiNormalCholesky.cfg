CONSTANTS
  YVals <- MCYVals
  MuVals <- MCMuVals
  LVals <- MCLVals
  MaxArr <- MCMaxArr
  MaxDim <- MCMaxDim
SPECIFICATION Spec
INVARIANT TypeOK
INVARIANT LpdfCorrect
\* The function returns or throws: its last state has no successor.
CHECK_DEADLOCK FALSE
