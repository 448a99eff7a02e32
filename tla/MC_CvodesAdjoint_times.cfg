CONSTANTS
  Times <- MCTimes
  MaxTs <- MCMaxTs
  MaxSweeps <- MCMaxSweeps

SPECIFICATION Spec

INVARIANT DocumentedTimesAccepted

CHECK_DEADLOCK FALSE
