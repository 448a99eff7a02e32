-------------------------- MODULE MC_CheckSymmetric --------------------------
EXTENDS CheckSymmetric

(* With the tolerance as one unit, 0 and 1 are within it and 0 and 3 are *)
(* not; NaN is the entry IEEE comparison treats specially.  The loop run   *)
(* leaves out Inf, where code and doc disagree; the infinities run has it. *)
MCVals == {0, 1, 3, NaN}
MCValsInf == {0, 1, 3, NaN, Inf}
MCTol == 1
MCMaxK == 3
=============================================================================
