---------------------------- MODULE MC_Serializer ----------------------------
EXTENDS Serializer

(* 0 and 1 as ints collide with the sizes 0 and 1 of short vectors, so a  *)
(* size read as a value or a value read as a size is not masked.          *)
MCIntVals == {0, 1}
MCRealVals == {0, 1}
MCMaxLen == 2
MCMaxArgs == 2
=============================================================================
