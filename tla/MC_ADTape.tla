------------------------------ MODULE MC_ADTape ------------------------------
EXTENDS ADTape

(* Three chaining nodes and one leaf give a region with an external node   *)
(* whose chain() runs a nested region holding a node of its own; two       *)
(* levels of nesting let that region open inside an outer one.             *)
MCMaxC == 3
MCMaxN == 1
MCMaxDepth == 2
MCMaxGrads == 1
MCMaxNestedGrads == 1
=============================================================================
