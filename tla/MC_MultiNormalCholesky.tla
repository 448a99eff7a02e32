------------------------ MODULE MC_MultiNormalCholesky ------------------------
EXTENDS MultiNormalCholesky

(* Vectors of up to two entries, up to two of them, and L up to 2x2 with *)
(* -1 or 1 below the diagonal: ragged and mis-sized arguments, a lone y   *)
(* or mu broadcast over two elements of the other, and both signs of      *)
(* every term.                                                            *)
MCYVals == {0, 1}
MCMuVals == {0, 1}
MCLVals == {-1, 1}
MCMaxArr == 2
MCMaxDim == 2
=============================================================================
