----------------------------- MODULE MC_OdeOnTape -----------------------------
EXTENDS OdeOnTape

(* An ODE node with one var input (a chaining node), its deep copy and its *)
(* two output leaves (two output times of one state), a consumer of an    *)
(* output, and the node a callback pushes in its nested region over the   *)
(* deep copy while the consumer's adjoint is on the output still to be    *)
(* harvested.  A second ODE call, whose call throws, fits in the same     *)
(* chaining bound in place of the consumer.                               *)
MCMaxC == 4
MCMaxN == 3
MCMaxDepth == 1
MCMaxGrads == 1
MCMaxNestedGrads == 1
MCNTs == 2
MCNStates == 1
(* An all-double call makes no outputs and its chain() returns at once, *)
(* the same tape shape as the call that throws, which the run keeps.    *)
MCDoubleOdeCalls == FALSE
(* One leaf that is neither a deep copy nor an ODE output: the input the *)
(* ODE node is called on.  More user leaves only repeat the tape shapes.  *)
MCUserLeaves ==
  LET odeLeaves == OdeCopies \cup UNION {OutLeaves(k) : k \in {k2 \in 1..Len(cstack) : cstack[k2].ext}}
  IN  Cardinality({l \in 1..nlen : T!NId(l) \notin odeLeaves}) <= 1

(* At most one ODE call on the tape at a time. *)
MCOneOdeCall == Cardinality({k \in 1..Len(cstack) : cstack[k].ext}) <= 1
(* Every node has at most one operand: a node with two operands adds its   *)
(* adjoint into both, which tape_sweep_refinement checks; here fan-out,    *)
(* one node feeding several, is what meets the ODE node.                   *)
MCOneOperand == \A k \in 1..Len(cstack) : Cardinality(cstack[k].ops) <= 1
MCView == <<cstack, nlen, adj, marks, grads, frames, ngrads, snap,
            [k \in 1..Len(cstack) |-> IF cstack[k].ext THEN outs[k] ELSE 0],
            hi, acc, gseed>>
=============================================================================
