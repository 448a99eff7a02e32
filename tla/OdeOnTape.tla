------------------------------ MODULE OdeOnTape ------------------------------
(***************************************************************************)
(* The adjoint ODE node on the tape: ADTape with its external nodes being  *)
(* cvodes_integrator_adjoint_vari (cvodes_integrator_adjoint.hpp).         *)
(*                                                                         *)
(* A call pushes the node (the chaining vari(NOT_A_NUMBER) base); its    *)
(* memory object makes local_args_tuple_, one non-chaining deep copy per   *)
(* var of args, which only the callbacks use; when operator() returns,     *)
(* build_varis pushes one non-chaining output vari per state and output    *)
(* time, at non_chaining_varis_[i * N_ + j].  Consumers of the outputs are *)
(* pushed later, so the sweep chains them first.  When the                 *)
(* sweep reaches the node, chain() returns at once unless the forward      *)
(* solve returned and some input is a var; otherwise it walks the output   *)
(* times from the last to the first, harvesting the outputs' adjoints from *)
(* outside any nested region, and between harvests runs the backward       *)
(* segment, whose callbacks open nested regions, sweep and close them.     *)
(* At the end it adds into its inputs.  Local derivatives are 1: the       *)
(* contribution to every input is the sum of the harvested adjoints.       *)
(***************************************************************************)
EXTENDS Naturals, SequencesExt

CONSTANTS MaxC, MaxN, MaxDepth, MaxGrads, MaxNestedGrads, NoSeed,
          NTs,      \* output times (ts_.size())
          NStates,  \* states (N_)
          DoubleOdeCalls  \* whether the program makes ODE calls with no var input

VARIABLES cstack, nlen, adj, marks, grads, frames, ngrads, snap,
          outs,   \* per chaining index: returned_, its deep copies, where its outputs start
          hi,     \* chain()'s loop index i, plus 1; 0 when the loop is done
          acc,    \* what chain() will add into its inputs
          gseed   \* the seed of the outermost grad(), for the properties

tapeVars == <<cstack, nlen, adj, marks, grads, frames, ngrads, snap>>
odeVars == <<outs, hi, acc, gseed>>
vars == <<cstack, nlen, adj, marks, grads, frames, ngrads, snap, outs, hi, acc, gseed>>

A == INSTANCE ADTape
T == INSTANCE TapeAtomic

Top == A!Top

(* The nodes of ODE calls: no user code holds the ODE vari itself. *)
OdeIds == {T!CId(k) : k \in {k2 \in 1..Len(cstack) : cstack[k2].ext}}

(* The deep copies of its inputs a node holds: no user code sees them. *)
OdeCopies == UNION {outs[k].copies : k \in {k2 \in 1..Len(cstack) : cstack[k2].ext}}

(* local_args_tuple_(deep_copy_vars(args)...): one new non-chaining vari  *)
(* per var of args, pushed after the node's own vari.                      *)
DeepCopies(base, d) == {T!NId(base + l) : l \in 1..d}

(* Mutant: quad_rhs_adj passes the node's own var inputs to rhs().  *)
CallbackArgsOriginal(k) == cstack[k].ops

(* memory->local_args_tuple_, the arguments quad_rhs_adj passes to rhs(). *)
CallbackArgs(k) == outs[k].copies

(* The outputs build_varis makes: build_varis<var> one non-chaining vari  *)
(* per output time and state; build_varis<double>, when no input is a var, *)
(* returns y_ itself and makes none.                                       *)
NOutputs(ops) == IF ops # {} THEN NTs * NStates ELSE 0

(* The output varis of the node at chaining index k. *)
OutLeaves(k) ==
  IF outs[k].returned
    THEN {T!NId(outs[k].base + l) : l \in 1..NOutputs(cstack[k].ops)} ELSE {}

(* Mutant: the harvest reads non_chaining_varis_[j], forgetting the time. *)
HarvestLeafNoTime(base, i, j) == T!NId(base + j + 1)

(* non_chaining_varis_[i * N_ + j]: state j at output time i, from 0. *)
HarvestLeaf(base, i, j) == T!NId(base + i * NStates + j + 1)

(* A call of the integrator: the vari is pushed, the constructor makes    *)
(* the deep copies of the var inputs among args (the others are y0, t0 and *)
(* ts), operator() runs and build_varis pushes the outputs.  A throw from   *)
(* the constructor's checks or the forward solve leaves the vari and the  *)
(* deep copies on the stacks with returned_ false and no outputs.          *)
OdeCall(ops) ==
  /\ A!Idle
  /\ Len(cstack) < MaxC
  /\ \E args \in SUBSET ops, ok \in BOOLEAN :
       LET k == Len(cstack) + 1
           d == Cardinality(args)
           n == IF ok THEN NOutputs(ops) ELSE 0
       IN  /\ nlen + d + n <= MaxN
           /\ cstack' = Append(cstack, [ops |-> ops, ext |-> TRUE])
           /\ nlen' = nlen + d + n
           /\ adj' = adj @@ (T!CId(k) :> 0)
                     @@ [x \in {T!NId(l) : l \in nlen + 1..nlen + d + n} |-> 0]
           /\ outs' = [outs EXCEPT ![k] = [returned |-> ok,
                                            copies |-> DeepCopies(nlen, d),
                                            base |-> nlen + d]]
  /\ UNCHANGED <<marks, grads, frames, ngrads, snap, hi, acc, gseed>>

(* grad(vi) or grad(): gseed records the seed of an outermost sweep. *)
Grad(seed) ==
  /\ A!Grad(seed)
  /\ gseed' = IF A!Idle THEN seed ELSE gseed
  /\ UNCHANGED <<outs, hi, acc>>

(* Mutant: the loop starts at i = ts_.size(), one past the last time. *)
SweepStepFromSize ==
  /\ A!SweepStep
  /\ IF cstack[Top.cur].ext
       THEN /\ hi' = IF outs[Top.cur].returned /\ cstack[Top.cur].ops # {} THEN NTs + 1 ELSE 0
            /\ acc' = 0
       ELSE UNCHANGED <<hi, acc>>
  /\ UNCHANGED <<outs, gseed>>

(* The sweep reaches a node.  For the ODE node, chain()'s early returns:  *)
(* returned_ false, or no input a var; otherwise i = ts_.size() - 1.      *)
SweepStep ==
  /\ A!SweepStep
  /\ IF cstack[Top.cur].ext
       THEN /\ hi' = IF outs[Top.cur].returned /\ cstack[Top.cur].ops # {} THEN NTs ELSE 0
            /\ acc' = 0
       ELSE UNCHANGED <<hi, acc>>
  /\ UNCHANGED <<outs, gseed>>

(* One pass of chain()'s loop: step_sens(j) += the adjoint of output (i, j) *)
(* for every state j, taken outside the callbacks' nested regions.         *)
Harvest ==
  /\ A!InChain
  /\ Len(marks) = Top.depth
  /\ hi > 0
  /\ acc' = acc + MapThenSumSet(LAMBDA j : adj[HarvestLeaf(outs[Top.cur].base, hi - 1, j)],
                                0..NStates - 1)
  /\ hi' = hi - 1
  /\ UNCHANGED <<tapeVars, outs, gseed>>

(* After the loop, chain() adds into its inputs and returns; the sweep    *)
(* goes on below the node.                                                *)
ChainEnd ==
  /\ A!InChain
  /\ Len(marks) = Top.depth
  /\ hi = 0
  /\ adj' = [x \in DOMAIN adj |-> IF x \in cstack[Top.cur].ops THEN adj[x] + acc ELSE adj[x]]
  /\ frames' = A!WithTop([Top EXCEPT !.cur = @ - 1, !.inChain = FALSE])
  /\ UNCHANGED <<cstack, nlen, marks, grads, ngrads, snap, odeVars>>

(* Mutant: the callbacks open and close their regions by hand             *)
(* (start_nested() ... recover_memory_nested()), which a throw skips.      *)
UnwindToKeepRegions(d) == UNCHANGED <<cstack, nlen, adj, marks>>

(* An exception leaves the callbacks through the CVODES trampolines       *)
(* (cv_rhs_adj_sens and the others catch nothing) and CVODES itself; the  *)
(* destructors of the callbacks' nested_rev_autodiff objects close every  *)
(* region opened above depth d, innermost first, so the stacks go back to *)
(* the marker of the first of them.                                       *)
UnwindTo(d) ==
  IF Len(marks) > d
    THEN LET m == marks[d + 1]
         IN  /\ cstack' = SubSeq(cstack, 1, m.c)
             /\ nlen' = m.n
             /\ adj' = Restrict(adj, {T!CId(k) : k \in 1..m.c} \cup {T!NId(k) : k \in 1..m.n})
             /\ marks' = SubSeq(marks, 1, d)
    ELSE UNCHANGED <<cstack, nlen, adj, marks>>

(* chain() throws after its early returns and its first harvest: CVodeB   *)
(* stops with CV_TOO_MUCH_WORK (throw_domain_error) or another flag        *)
(* (check_flag_sundials), or the user's right-hand side throws in rhs()    *)
(* or in a callback, its region still open.  The exception leaves chain()  *)
(* with the inputs not yet added to, and every grad() on the way out.      *)
ChainThrows ==
  /\ A!InChain
  /\ cstack[Top.cur].ext
  /\ outs[Top.cur].returned /\ cstack[Top.cur].ops # {}
  /\ hi < NTs
  /\ UnwindTo(frames[1].depth)
  /\ frames' = <<>>
  /\ snap' = A!NoSnap
  /\ hi' = 0
  /\ acc' = 0
  /\ UNCHANGED <<grads, ngrads, outs, gseed>>

(* What user code may use: no ODE vari and no deep copy.  Inside chain() *)
(* the callbacks use their region's nodes and, in quad_rhs_adj, the node's *)
(* deep copies, which live below the region.                               *)
UserOperands ==
  (A!Operands \ (OdeIds \cup OdeCopies))
    \cup (IF A!Inner THEN CallbackArgs(Top.cur) ELSE {})

(* quad_rhs_adj (370-372): zero_adjoints(local_args_tuple_) inside its     *)
(* region, since set_zero_all_adjoints_nested() does not reach them.       *)
ZeroArgs ==
  /\ A!Inner
  /\ adj' = [x \in DOMAIN adj |-> IF x \in CallbackArgs(Top.cur) THEN 0 ELSE adj[x]]
  /\ UNCHANGED <<cstack, nlen, marks, grads, frames, ngrads, snap>>

Init ==
  /\ A!Init
  /\ outs = [k \in 1..MaxC |-> [returned |-> FALSE, copies |-> {}, base |-> 0]]
  /\ hi = 0
  /\ acc = 0
  /\ gseed = NoSeed

(* The program: it builds the tape and runs MaxGrads outermost sweeps, and *)
(* ends after the last; inside a chain() the callbacks act as clients.    *)
Client(act) == (~A!Idle \/ grads < MaxGrads) /\ act /\ UNCHANGED odeVars

Next ==
  \/ \E ops \in T!OperandSets(UserOperands) : Client(A!Push(ops, FALSE))
  \/ \E ops \in T!OperandSets(UserOperands) :
        (ops # {} \/ DoubleOdeCalls) /\ grads < MaxGrads /\ OdeCall(ops)
  \/ Client(A!PushLeaf)
  \/ A!InChain /\ Client(A!StartNested)
  \/ Client(A!RecoverNested)
  \/ Client(A!ZeroAll)
  \/ Client(A!ZeroNested)
  \/ Client(ZeroArgs)
  \/ \E x \in T!RegionIds : Client(A!SetAdj(x))
  \/ \E seed \in (T!ChainSeeds \ OdeIds) \cup {NoSeed} : Grad(seed)
  \/ SweepStep
  \/ Harvest
  \/ ChainEnd
  \/ ChainThrows
  \/ A!SweepEnd /\ UNCHANGED odeVars
  \/ Client(A!RecoverMemory)

Spec == Init /\ [][Next]_vars

-----------------------------------------------------------------------------
TypeOK ==
  /\ A!TypeOK
  /\ outs \in [1..MaxC -> [returned : BOOLEAN, copies : SUBSET {T!NId(l) : l \in 1..MaxN},
                           base : 0..MaxN]]
  /\ hi \in 0..NTs /\ acc \in Nat
  /\ gseed \in T!ChainSeeds \cup {T!CId(k) : k \in 1..MaxC} \cup {NoSeed}

(* The path-sum derivative through ODE nodes: a node's chain() passes its  *)
(* inputs the final adjoints of its outputs, and nothing of its own.       *)
RECURSIVE FinalOde(_, _)
FinalOde(a, x) ==
  a[x] + MapThenSumSet(
           LAMBDA k : IF cstack[k].ext
                        THEN MapThenSumSet(LAMBDA l : FinalOde(a, l), OutLeaves(k))
                        ELSE FinalOde(a, T!CId(k)),
           {k \in T!BaseC + 1..Len(cstack) : x \in cstack[k].ops})

OuterSweepDone ==
  Len(frames) = 1 /\ ~Top.inChain /\ Top.cur < Top.begin

(* Every outermost sweep ends with each node holding its path-sum         *)
(* derivative through the ODE nodes: each ODE node harvested every output *)
(* (i, j) from its own slot, after all of the output's consumers had      *)
(* chained and while the nested regions of its callbacks, which run       *)
(* between the harvests of two output times, were closed, and neither     *)
(* those callbacks' zeroing and seeding nor their nested sweeps touched   *)
(* an output adjoint it had still to harvest.  The deep copies are the   *)
(* callbacks' scratch, written by the nested sweeps of quad_rhs_adj; every *)
(* other node, the ODE node's own inputs included, is exact.               *)
OdeGradientCorrect ==
  OuterSweepDone =>
    \A x \in DOMAIN adj \ OdeCopies :
      adj[x] = FinalOde(T!Seeded(snap.adj, gseed), x)

(* Whatever way the outermost grad() ends, by returning or by an exception *)
(* out of an ODE node's chain(), it leaves the tape as it found it: every  *)
(* node the callbacks pushed in their nested regions is gone and every     *)
(* region they opened is closed, whatever harvests, callbacks and nested   *)
(* sweeps had run when the solver or the user's right-hand side threw.     *)
GradLeavesTapeAsFound ==
  [][(~A!Idle /\ A!Idle') =>
        /\ cstack' = snap.cstack
        /\ nlen' = snap.nlen
        /\ marks' = snap.marks
        /\ DOMAIN adj' = DOMAIN snap.adj]_vars

=============================================================================
