---------------------- MODULE MC_DoubleExponentialLccdf ----------------------
EXTENDS DoubleExponentialLccdf

(* y: NaN (rejected), either infinity or finite; mu: finite or infinite   *)
(* (rejected); sigma: zero (rejected) or positive of each magnitude, a    *)
(* tiny one overflowing 1 / sigma.  Scalars and vectors of up to two, so  *)
(* a scalar partial collects two elements.                                *)
MCYVals == {NaN, Inf(-1), Fin, Inf(1)}
MCMuVals == {Fin, Inf(1)}
MCSigmaVals == {Zero, F(1, "lt1"), F(1, "eq1"), F(1, "gt1")}
MCMaxLen == 2

(* Arguments the checks accept: y finite or infinite, mu finite, sigma 1. *)
MCAcceptedYVals == {Fin, Inf(-1), Inf(1)}
MCAcceptedMuVals == {Fin}
MCAcceptedSigmaVals == {F(1, "eq1")}
MCScalarLen == 1
=============================================================================
