-------------------------- MODULE MC_CvodesAdjoint --------------------------
(* Model-checking instance of CvodesAdjoint: three time values, so that a   *)
(* ts of up to three entries can hold an equal pair (a zero-length segment) *)
(* next to a non-zero one, and two sweeps, so that a second chain() meets   *)
(* the backward problem and the vectors the first one left behind.          *)
EXTENDS CvodesAdjoint

MCTimes == 0..2
MCMaxTs == 3
MCMaxSweeps == 2
=============================================================================
