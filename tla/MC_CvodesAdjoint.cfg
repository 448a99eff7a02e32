CONSTANTS
  Times <- MCTimes
  MaxTs <- MCMaxTs
  MaxSweeps <- MCMaxSweeps

SPECIFICATION Spec

INVARIANT TypeOK
INVARIANT GradientCorrect
INVARIANT BackwardWithinCheckpoints
INVARIANT SingleBackwardProblem

CHECK_DEADLOCK FALSE
