--------------------------- MODULE MC_OdeCallbacks ---------------------------
EXTENDS OdeCallbacks

(* Two states and one parameter give outputs that mix both states and the *)
(* parameter, reuse an earlier output, or copy an input; mu entries 0 and *)
(* 1 tell a lost or doubled contribution from a correct one.  Three calls *)
(* let a callback follow another of the same or a different kind.         *)
MCN == 2
MCP == 1
MCMuVals == {0, 1}
MCMaxCalls == 3
=============================================================================
