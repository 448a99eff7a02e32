--------------------------- MODULE CvodesAdjoint ---------------------------
(***************************************************************************)
(* The adjoint ODE node cvodes_integrator_adjoint_vari of                  *)
(* src/stan/math/rev/functor/cvodes_integrator_adjoint.hpp: its            *)
(* constructor (allocation, input validation, CVODES set-up), operator()   *)
(* (the forward solve through the output times) and chain() (the backward *)
(* solve, segment by segment from the last output time to t0).             *)
(*                                                                         *)
(* Numbers are abstracted symbolically.  The adjoint of output time k in   *)
(* reverse sweep s is the symbol <<s, k>>; since the backward solve is     *)
(* linear in the adjoints, every vector the code accumulates is a bag of   *)
(* such symbols, each tagged with what was done to it:                     *)
(*   stateSens  (memory->state_sens_)  bag of <<s, k, t>>: contribution of *)
(*              output k, propagated backward to time t;                   *)
(*   quad       (memory->quad_)        bag of <<s, k, j>>: contribution of *)
(*              output k integrated over segment j (ts[j-1] or t0 .. ts[j]);*)
(*   adjTs[j]   (ts_varis_[j]->adj_)   bag of <<s, k, t>>: a_k . f(t, y_j); *)
(*   adjT0      (t0_varis_[0]->adj_)   bag of <<s, k, t, t'>>: stateSens   *)
(*              element <<s,k,t>> dotted with f(t', y0);                   *)
(*   adjY0, adjArgs                    the bags added to y0_varis_ and     *)
(*              args_varis_.                                               *)
(* The solver itself (steps, tolerances, checkpoints) is abstracted to the *)
(* times it reaches and its CV_TOO_MUCH_WORK outcome.                      *)
(***************************************************************************)
EXTENDS Naturals, SequencesExt, BagsExt

CONSTANTS
  Times,      \* the time values t0 and ts may take (a finite set of naturals)
  MaxTs,      \* the longest ts the model tries
  MaxSweeps   \* the number of reverse sweeps that reach the node

ASSUME Times \subseteq Nat /\ Times # {}
ASSUME MaxTs \in Nat \ {0}
ASSUME MaxSweeps \in Nat \ {0}

VARIABLES
  phase,      \* "none", "ctorFailed", "constructed", "fwdFailed", "returned"
  memory,     \* "null" (memory == NULL), "noCvodes" (cvodes_mem_ == NULL), "ok"
  in,         \* the arguments of the call
  adjInit,    \* CVodeAdjInit has been called
  tReached,   \* the last output time the forward solve reached
  returned,   \* returned_
  bwdInit,    \* memory->backward_is_initialized_
  nCreateB,   \* number of CVodeCreateB calls made on cvodes_mem_
  sweep,      \* number of reverse sweeps that have reached the node
  pc,         \* where chain() is
  i,          \* the loop index of chain() (code's i + 1)
  tInit,      \* t_init of chain()
  stateSens, quad,
  adjT0, adjTs, adjY0, adjArgs

vars == <<phase, memory, in, adjInit, tReached, returned, bwdInit, nCreateB,
          sweep, pc, i, tInit, stateSens, quad, adjT0, adjTs, adjY0, adjArgs>>

VarKinds == {"t0", "ts", "y0", "args"}

(* The arguments the model tries: t0, ts, the size of y0 (0 or more), which *)
(* of t0, ts, y0, args are vars, whether the remaining checks (finiteness,  *)
(* tolerances, max_num_steps, checkpoint interval, interpolation and solver *)
(* choices) pass, and whether CVodeCreate succeeds.                         *)
Args == [t0 : Times, ts : SeqOf(Times, MaxTs), ny : {0, 1},
         vars : SUBSET VarKinds, otherOk : BOOLEAN, createOk : BOOLEAN]

NoArgs == [t0 |-> 0, ts |-> <<>>, ny |-> 0, vars |-> {},
           otherOk |-> FALSE, createOk |-> FALSE]

(* t0_vars_ + ts_vars_ + y0_vars_ + args_vars_ > 0 *)
AnyVars == in.vars # {}

(* Start of segment k: ts[k-1], or t0 for the first one. *)
Start(k) == IF k > 1 THEN in.ts[k - 1] ELSE in.t0

----------------------------------------------------------------------------
(* Constructor of cvodes_integrator_adjoint_memory: with N_ == 0 nothing is *)
(* allocated and cvodes_mem_ stays NULL; CVodeCreate failing throws out of  *)
(* the new-expression, so the vari's memory pointer stays NULL.             *)
MemoryOutcome(a) ==
  IF a.ny = 0 THEN "noCvodes" ELSE IF a.createOk THEN "ok" ELSE "null"

(* The checks of the vari's constructor, all made after memory exists. *)
Validated(a) ==
  /\ a.otherOk
  /\ Len(a.ts) > 0
  /\ a.ny > 0
  /\ IsSorted(a.ts, <=)
  /\ a.t0 < a.ts[1]

(* The backward machinery is set up (CVodeAdjInit) only when some input  *)
(* is a var.                                                              *)
NeedsAdjInit(a) == a.vars # {}

(* The constructor: the vari is on the stack from its first line on (the   *)
(* vari base constructor); memory is allocated, the inputs checked, and    *)
(* CVODES initialised, with CVodeAdjInit only when something is a var.     *)
Construct ==
  /\ phase = "none"
  /\ \E a \in Args :
       LET mem == MemoryOutcome(a)
           ok  == mem = "ok" /\ Validated(a)
       IN  /\ in' = a
           /\ memory' = mem
           /\ phase' = IF ok THEN "constructed" ELSE "ctorFailed"
           /\ adjInit' = (ok /\ NeedsAdjInit(a))
  /\ UNCHANGED <<tReached, returned, bwdInit, nCreateB, sweep, pc, i, tInit,
                 stateSens, quad, adjT0, adjTs, adjY0, adjArgs>>

(* CVodeF is called for segment k only when ts[k] differs from its start; *)
(* there CVODES calls cv_rhs, whose rhs throws when the user's dy_dt has   *)
(* the wrong size, and may stop with CV_TOO_MUCH_WORK.  Either throws.    *)
SegmentMayThrow(k) == Start(k) # in.ts[k]

(* Mutant: returned_ is set before the loop, so it holds when a step throws. *)
ForwardReturnedEarly ==
  /\ phase = "constructed"
  /\ returned' = TRUE
  /\ \/ /\ phase' = "returned"
        /\ tReached' = Last(in.ts)
     \/ \E k \in 1..Len(in.ts) :
          /\ Start(k) # in.ts[k]
          /\ phase' = "fwdFailed"
          /\ tReached' = Start(k)
  /\ UNCHANGED <<memory, in, adjInit, bwdInit, nCreateB, sweep, pc, i, tInit,
                 stateSens, quad, adjT0, adjTs, adjY0, adjArgs>>

(* operator(): CVodeF (or CVode when nothing is a var) to each output time *)
(* that differs from the previous one; a throw on segment k leaves          *)
(* returned_ false and the outputs unbuilt.                                *)
Forward ==
  /\ phase = "constructed"
  /\ \/ /\ phase' = "returned"
        /\ returned' = TRUE
        /\ tReached' = Last(in.ts)
     \/ \E k \in 1..Len(in.ts) :
          /\ SegmentMayThrow(k)
          /\ phase' = "fwdFailed"
          /\ tReached' = Start(k)
          /\ UNCHANGED returned
  /\ UNCHANGED <<memory, in, adjInit, bwdInit, nCreateB, sweep, pc, i, tInit,
                 stateSens, quad, adjT0, adjTs, adjY0, adjArgs>>

----------------------------------------------------------------------------
(* A reverse sweep reaches the node: set_zero_all_adjoints() has zeroed    *)
(* the adjoints of the inputs (as jacobian() does between sweeps) and the  *)
(* consumers of the outputs have chained, so output k of this sweep holds  *)
(* the symbol <<sweep, k>>.  The node exists from Construct on, whatever   *)
(* the constructor or operator() did afterwards.                           *)
NewSweep ==
  /\ phase # "none"
  /\ phase # "constructed"
  /\ pc \in {"idle", "skipped", "done", "failed"}
  /\ sweep < MaxSweeps
  /\ sweep' = sweep + 1
  /\ pc' = "begin"
  /\ adjT0' = EmptyBag
  /\ adjTs' = [k \in 1..Len(in.ts) |-> EmptyBag]
  /\ adjY0' = EmptyBag
  /\ adjArgs' = EmptyBag
  /\ UNCHANGED <<phase, memory, in, adjInit, tReached, returned, bwdInit,
                 nCreateB, i, tInit, stateSens, quad>>

(* The early returns of chain(). *)
ChainGuard ==
  /\ memory # "null"
  /\ memory # "noCvodes"
  /\ returned
  /\ AnyVars

(* Mutant: quad is not zeroed when chain() starts again. *)
ChainBeginKeepsQuad ==
  /\ pc = "begin"
  /\ \/ /\ ~ChainGuard
        /\ pc' = "skipped"
        /\ UNCHANGED <<i, tInit, stateSens, quad>>
     \/ /\ ChainGuard
        /\ stateSens' = EmptyBag
        /\ tInit' = Last(in.ts)
        /\ i' = Len(in.ts)
        /\ pc' = "harvest"
        /\ UNCHANGED quad
  /\ UNCHANGED <<phase, memory, in, adjInit, tReached, returned, bwdInit,
                 nCreateB, sweep, adjT0, adjTs, adjY0, adjArgs>>

(* chain() up to its loop: the early returns, state_sens and quad zeroed,  *)
(* t_init = ts.back().                                                      *)
ChainBegin ==
  /\ pc = "begin"
  /\ \/ /\ ~ChainGuard
        /\ pc' = "skipped"
        /\ UNCHANGED <<i, tInit, stateSens, quad>>
     \/ /\ ChainGuard
        /\ stateSens' = EmptyBag
        /\ quad' = EmptyBag
        /\ tInit' = Last(in.ts)
        /\ i' = Len(in.ts)
        /\ pc' = "harvest"
  /\ UNCHANGED <<phase, memory, in, adjInit, tReached, returned, bwdInit,
                 nCreateB, sweep, adjT0, adjTs, adjY0, adjArgs>>

(* Mutant: the loop runs on past the first output time (i >= -1). *)
NextOutputPastFirst ==
  /\ i' = i - 1
  /\ pc' = IF i = 0 THEN "final" ELSE "harvest"

(* The loop's --i: on to the previous output time, or out of the loop. *)
NextOutput ==
  /\ i' = i - 1
  /\ pc' = IF i = 1 THEN "final" ELSE "harvest"

(* One iteration of the loop up to the integration: the adjoints of the    *)
(* outputs at ts[i] are added to state_sens and, when ts are vars, to      *)
(* ts_varis_[i] as step_sens . f(t_init, y_[i]); a zero-length segment is  *)
(* not integrated.                                                         *)
Harvest ==
  /\ pc = "harvest"
  /\ stateSens' = BagAdd(stateSens, <<sweep, i, tInit>>)
  /\ adjTs' = IF "ts" \in in.vars
                THEN [adjTs EXCEPT ![i] = BagAdd(@, <<sweep, i, tInit>>)]
                ELSE adjTs
  /\ IF Start(i) # tInit
       THEN pc' = "integrate" /\ UNCHANGED i
       ELSE NextOutput
  /\ UNCHANGED <<phase, memory, in, adjInit, tReached, returned, bwdInit,
                 nCreateB, sweep, tInit, quad, adjT0, adjY0, adjArgs>>

(* Mutant: backward_is_initialized_ is never set. *)
IntegrateNoInitFlag ==
  /\ pc = "integrate"
  /\ nCreateB' = IF bwdInit THEN nCreateB ELSE nCreateB + 1
  /\ \/ /\ pc' = "failed"
        /\ UNCHANGED <<i, tInit, stateSens, quad>>
     \/ /\ stateSens' = BagOfAll(LAMBDA e : <<e[1], e[2], Start(i)>>, stateSens)
        /\ quad' = IF "args" \in in.vars
                     THEN quad (+) BagOfAll(LAMBDA e : <<e[1], e[2], i>>, stateSens)
                     ELSE quad
        /\ tInit' = Start(i)
        /\ NextOutput
  /\ UNCHANGED <<phase, memory, in, adjInit, tReached, returned, sweep, bwdInit,
                 adjT0, adjTs, adjY0, adjArgs>>

(* The backward solve of segment i: CVodeCreateB/CVodeInitB (and the      *)
(* quadrature set-up when args are vars) the first time, CVodeReInitB     *)
(* afterwards, from state_sens; then CVodeB to t_final.  CV_TOO_MUCH_WORK  *)
(* throws out of chain().  On success CVodeGetB moves state_sens (and      *)
(* t_init) to t_final and CVodeGetQuadB adds the segment's quadrature.     *)
Integrate ==
  /\ pc = "integrate"
  /\ nCreateB' = IF bwdInit THEN nCreateB ELSE nCreateB + 1
  /\ bwdInit' = TRUE
  /\ \/ /\ pc' = "failed"
        /\ UNCHANGED <<i, tInit, stateSens, quad>>
     \/ /\ stateSens' = BagOfAll(LAMBDA e : <<e[1], e[2], Start(i)>>, stateSens)
        /\ quad' = IF "args" \in in.vars
                     THEN quad (+) BagOfAll(LAMBDA e : <<e[1], e[2], i>>, stateSens)
                     ELSE quad
        /\ tInit' = Start(i)
        /\ NextOutput
  /\ UNCHANGED <<phase, memory, in, adjInit, tReached, returned, sweep,
                 adjT0, adjTs, adjY0, adjArgs>>

(* After the loop: -state_sens . f(t_init, y0) into t0's adjoint, state_sens *)
(* into y0's, quad into the parameters'.                                    *)
Finalize ==
  /\ pc = "final"
  /\ adjT0' = IF "t0" \in in.vars
                THEN adjT0 (+) BagOfAll(LAMBDA e : <<e[1], e[2], e[3], tInit>>, stateSens)
                ELSE adjT0
  /\ adjY0' = IF "y0" \in in.vars THEN adjY0 (+) stateSens ELSE adjY0
  /\ adjArgs' = IF "args" \in in.vars THEN adjArgs (+) quad ELSE adjArgs
  /\ pc' = "done"
  /\ UNCHANGED <<phase, memory, in, adjInit, tReached, returned, bwdInit,
                 nCreateB, sweep, i, tInit, stateSens, quad, adjTs>>

----------------------------------------------------------------------------
Init ==
  /\ phase = "none"
  /\ memory = "null"
  /\ in = NoArgs
  /\ adjInit = FALSE
  /\ tReached = 0
  /\ returned = FALSE
  /\ bwdInit = FALSE
  /\ nCreateB = 0
  /\ sweep = 0
  /\ pc = "idle"
  /\ i = 0
  /\ tInit = 0
  /\ stateSens = EmptyBag
  /\ quad = EmptyBag
  /\ adjT0 = EmptyBag
  /\ adjTs = <<>>
  /\ adjY0 = EmptyBag
  /\ adjArgs = EmptyBag

Next ==
  \/ Construct
  \/ Forward
  \/ NewSweep
  \/ ChainBegin
  \/ Harvest
  \/ Integrate
  \/ Finalize

Spec == Init /\ [][Next]_vars

----------------------------------------------------------------------------
(***************************************************************************)
(* Properties.                                                             *)
(***************************************************************************)

TypeOK ==
  /\ phase \in {"none", "ctorFailed", "constructed", "fwdFailed", "returned"}
  /\ memory \in {"null", "noCvodes", "ok"}
  /\ in \in Args \cup {NoArgs}
  /\ adjInit \in BOOLEAN /\ returned \in BOOLEAN /\ bwdInit \in BOOLEAN
  /\ tReached \in Times \cup {0}
  /\ nCreateB \in Nat
  /\ sweep \in 0..MaxSweeps
  /\ pc \in {"idle", "begin", "skipped", "harvest", "integrate", "final",
             "done", "failed"}
  /\ pc \in {"harvest", "integrate"} => i \in 1..Len(in.ts)
  /\ tInit \in Times \cup {0}
  /\ IsABag(stateSens) /\ IsABag(quad) /\ IsABag(adjT0) /\ IsABag(adjY0)
  /\ IsABag(adjArgs)

(* The gradient chain() leaves behind is the adjoint formula: after a      *)
(* sweep s in which chain() ran to the end, y0's adjoint is the sum over   *)
(* all outputs k of a_k propagated back to t0, each exactly once; t0's is  *)
(* that sum dotted with f(t0, y0); ts[k]'s is a_k . f(ts[k], y_k) and      *)
(* nothing else; the parameters' is, for every output k and every segment  *)
(* j <= k of non-zero length, the quadrature of a_k over segment j, once.  *)
(* This is what the accumulation of harvested adjoints across segments,    *)
(* the skipping of zero-length segments, the update of t_init from         *)
(* CVodeGetB and the zeroing of state_sens and quad at each chain() must   *)
(* together achieve.                                                       *)
GradientCorrect ==
  pc = "done" =>
    LET n == Len(in.ts)
        s == sweep
    IN  /\ adjY0 = IF "y0" \in in.vars
                     THEN SetToBag({<<s, k, in.t0>> : k \in 1..n}) ELSE EmptyBag
        /\ adjT0 = IF "t0" \in in.vars
                     THEN SetToBag({<<s, k, in.t0, in.t0>> : k \in 1..n})
                     ELSE EmptyBag
        /\ \A k \in 1..n :
             adjTs[k] = IF "ts" \in in.vars
                          THEN SetToBag({<<s, k, in.ts[k]>>}) ELSE EmptyBag
        /\ adjArgs = IF "args" \in in.vars
                       THEN SetToBag({e \in {<<s, k, j>> : k, j \in 1..n} :
                                        e[3] <= e[2] /\ Start(e[3]) # in.ts[e[3]]})
                       ELSE EmptyBag

(* Every backward solve CVodeB is asked for integrates strictly backward   *)
(* over an interval the forward CVodeF recorded checkpoints for: adjoint   *)
(* memory exists, operator() returned, and t0 <= t_final < t_init <= the   *)
(* time the forward solve reached.  Constructor failures, a forward solve  *)
(* that threw, and a call with nothing to differentiate must all stop      *)
(* chain() before it.                                                      *)
BackwardWithinCheckpoints ==
  pc = "integrate" =>
    /\ adjInit
    /\ returned
    /\ in.t0 <= Start(i)
    /\ Start(i) < tInit
    /\ tInit <= tReached

(* One backward problem per integrator: CVodeCreateB is called at most     *)
(* once on cvodes_mem_, however many segments and sweeps there are, and    *)
(* backward_is_initialized_ says exactly whether it has been.              *)
SingleBackwardProblem ==
  /\ nCreateB <= 1
  /\ bwdInit = (nCreateB = 1)

(* The documented contract of the constructor ("All values must be sorted *)
(* and not less than t0", and spec section 4.5: output times all >= the    *)
(* initial time) accepts every sorted, non-empty ts none of whose entries  *)
(* is below t0: when every other check passes, such a call is not          *)
(* rejected by the check_less(t0, ts[0]) of the constructor.               *)
DocumentedTimesAccepted ==
  ( /\ phase = "ctorFailed"
    /\ memory = "ok"
    /\ in.otherOk
    /\ Len(in.ts) > 0
    /\ IsSorted(in.ts, <=) )
  => \E k \in 1..Len(in.ts) : in.ts[k] < in.t0

=============================================================================
