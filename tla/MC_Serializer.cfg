CONSTANTS
  IntVals <- MCIntVals
  RealVals <- MCRealVals
  MaxLen <- MCMaxLen
  MaxArgs <- MCMaxArgs
  NoVal = NoVal
SPECIFICATION Spec
INVARIANT TypeOK
INVARIANT RoundTrip
CHECK_DEADLOCK FALSE
