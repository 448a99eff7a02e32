------------------------------- MODULE ADTape -------------------------------
(***************************************************************************)
(* The reverse-mode tape with a step-wise sweep (spec sections 4.2-4.4 and *)
(* 4.6).  grad() walks the chaining nodes of the innermost region from the *)
(* top down, calling each node's chain().  An external node's chain() (the *)
(* ODE node) may itself open regions, push nodes, zero, sweep and close    *)
(* them before it adds into its operands; the outer sweep is suspended    *)
(* meanwhile.  So the sweeps in progress form a stack of frames.           *)
(*                                                                         *)
(* A frame records the first stack index of the region it sweeps (begin),  *)
(* the next node to chain (cur), the region depth it was started at and    *)
(* whether it is suspended inside an external chain().  snap is a history  *)
(* variable: the tape as it was when the outermost sweep started, for the  *)
(* refinement mapping onto TapeAtomic.                                     *)
(***************************************************************************)
EXTENDS Naturals, SequencesExt

CONSTANTS MaxC, MaxN, MaxDepth, MaxGrads, MaxNestedGrads, NoSeed

VARIABLES cstack, nlen, adj, marks, grads, frames, ngrads, snap

vars == <<cstack, nlen, adj, marks, grads, frames, ngrads, snap>>

T == INSTANCE TapeAtomic

NoSnap == [cstack |-> <<>>, nlen |-> 0, adj |-> <<>>, marks |-> <<>>]

Idle == frames = <<>>

(* Inside a suspended external chain(): client code may only touch the     *)
(* regions it opened itself, deeper than the suspended frame's depth.      *)
Top == Last(frames)
InChain == ~Idle /\ Top.inChain
Inner == InChain /\ Len(marks) > Top.depth
Client == Idle \/ Inner

(* The nodes of the regions opened inside the suspended chain(). *)
InnerIds ==
  LET m == marks[Top.depth + 1]
  IN {T!CId(k) : k \in m.c + 1..Len(cstack)} \cup {T!NId(k) : k \in m.n + 1..nlen}

Operands == IF Idle THEN T!Ids ELSE IF Inner THEN InnerIds ELSE {}

(* ChainableStack pushes: a vari constructor appends to var_stack_ or,    *)
(* for a non-chaining vari, to var_nochain_stack_.  External nodes (the    *)
(* ODE node) are built by user code; what a chain() builds in its nested   *)
(* regions are elementary operations.                                      *)
Push(ops, ext) ==
  /\ Client
  /\ ext => Idle
  /\ T!Push(ops, ext)
  /\ UNCHANGED <<frames, ngrads, snap>>

PushLeaf ==
  /\ Client
  /\ T!PushLeaf
  /\ UNCHANGED <<frames, ngrads, snap>>

(* start_nested(): may open the first region inside a chain(). *)
StartNested ==
  /\ Idle \/ InChain
  /\ T!StartNested
  /\ UNCHANGED <<frames, ngrads, snap>>

(* Mutant: only the chaining stack is truncated. *)
RecoverNestedKeepsLeaves ==
  /\ Client
  /\ marks # <<>>
  /\ cstack' = SubSeq(cstack, 1, T!BaseC)
  /\ adj' = Restrict(adj, T!Ids \ T!RegionIds)
  /\ marks' = Front(marks)
  /\ UNCHANGED <<nlen, grads, frames, ngrads, snap>>

(* recover_memory_nested(): truncates both stacks to the region's marker. *)
RecoverNested ==
  /\ Client
  /\ T!RecoverNested
  /\ UNCHANGED <<frames, ngrads, snap>>

(* set_zero_all_adjoints() over the whole tape: only outside any sweep. *)
ZeroAll ==
  /\ Idle
  /\ T!ZeroAll
  /\ UNCHANGED <<frames, ngrads, snap>>

(* set_zero_all_adjoints_nested(): the innermost region only. *)
ZeroNested ==
  /\ Client
  /\ T!ZeroNested
  /\ UNCHANGED <<frames, ngrads, snap>>

(* Inside a chain(), client code seeds the adjoints of its nested nodes   *)
(* (rhs_adj_sens: f_y_t_vars.adj() = -mu); outside, grad(vi) seeds.       *)
SetAdj(x) ==
  /\ Inner
  /\ T!SetAdj(x)
  /\ UNCHANGED <<frames, ngrads, snap>>

(* grad(vi) / grad(): seed, then start a sweep frame over the innermost    *)
(* region, from the top of the chaining stack down to the region's start. *)
(* Mutant: the sweep ignores the region and runs down to the tape's bottom. *)
NewFrameWholeTape == [begin |-> 1, cur |-> Len(cstack),
                      depth |-> Len(marks), inChain |-> FALSE]

NewFrame == [begin |-> T!BaseC + 1, cur |-> Len(cstack),
             depth |-> Len(marks), inChain |-> FALSE]

Grad(seed) ==
  /\ Client
  /\ IF Idle THEN /\ grads < MaxGrads
                  /\ grads' = grads + 1
                  /\ snap' = [cstack |-> cstack, nlen |-> nlen,
                              adj |-> adj, marks |-> marks]
                  /\ UNCHANGED ngrads
             ELSE /\ ngrads < MaxNestedGrads
                  /\ ngrads' = ngrads + 1
                  /\ UNCHANGED <<grads, snap>>
  /\ adj' = T!Seeded(adj, seed)
  /\ frames' = Append(frames, NewFrame)
  /\ UNCHANGED <<cstack, nlen, marks>>

(* chain() of node cur adds its adjoint into each operand's adjoint. *)
ChainInto(k) ==
  [x \in DOMAIN adj |-> IF x \in cstack[k].ops THEN adj[x] + adj[T!CId(k)]
                                              ELSE adj[x]]

WithTop(f) == [frames EXCEPT ![Len(frames)] = f]

(* One step of the sweep loop of the top frame: an ordinary node chains at *)
(* once; an external node's chain() starts and the frame is suspended.     *)
SweepStep ==
  /\ ~Idle /\ ~Top.inChain
  /\ Top.cur >= Top.begin
  /\ IF cstack[Top.cur].ext
       THEN /\ frames' = WithTop([Top EXCEPT !.inChain = TRUE])
            /\ UNCHANGED adj
       ELSE /\ adj' = ChainInto(Top.cur)
            /\ frames' = WithTop([Top EXCEPT !.cur = @ - 1])
  /\ UNCHANGED <<cstack, nlen, marks, grads, ngrads, snap>>

(* The external chain() returns and adds into its operands.  The callbacks*)
(* it runs hold their regions in nested_rev_autodiff objects, whose       *)
(* destructors close them on scope exit: by the time chain() returns, the *)
(* region depth is the one it was called at, which the guard states.      *)
ChainEnd ==
  /\ InChain
  /\ Len(marks) = Top.depth
  /\ adj' = ChainInto(Top.cur)
  /\ frames' = WithTop([Top EXCEPT !.cur = @ - 1, !.inChain = FALSE])
  /\ UNCHANGED <<cstack, nlen, marks, grads, ngrads, snap>>

SweepEnd ==
  /\ ~Idle /\ ~Top.inChain
  /\ Top.cur < Top.begin
  /\ frames' = Front(frames)
  /\ snap' = IF Len(frames) = 1 THEN NoSnap ELSE snap
  /\ UNCHANGED <<cstack, nlen, adj, marks, grads, ngrads>>

(* recover_memory(): the whole tape, outside any region or sweep. *)
RecoverMemory ==
  /\ Idle
  /\ T!RecoverMemory
  /\ UNCHANGED <<frames, ngrads, snap>>

Init ==
  /\ T!Init
  /\ frames = <<>>
  /\ ngrads = 0
  /\ snap = NoSnap

Next ==
  \/ \E ops \in T!OperandSets(Operands), ext \in BOOLEAN : Push(ops, ext)
  \/ PushLeaf
  \/ StartNested
  \/ RecoverNested
  \/ ZeroAll
  \/ ZeroNested
  \/ \E x \in T!RegionIds : SetAdj(x)
  \/ \E seed \in T!ChainSeeds \cup {NoSeed} : Grad(seed)
  \/ SweepStep
  \/ ChainEnd
  \/ SweepEnd
  \/ RecoverMemory

Spec == Init /\ [][Next]_vars

-----------------------------------------------------------------------------
Frame == [begin : Nat, cur : Nat, depth : Nat, inChain : BOOLEAN]

TypeOK ==
  /\ cstack \in Seq([ops : SUBSET (({"c"} \X (1..MaxC)) \cup ({"n"} \X (1..MaxN))),
                     ext : BOOLEAN])
  /\ Len(cstack) <= MaxC /\ nlen \in 0..MaxN
  /\ DOMAIN adj = T!Ids /\ \A x \in T!Ids : adj[x] \in Nat
  /\ marks \in Seq([c : Nat, n : Nat]) /\ Len(marks) <= MaxDepth
  /\ frames \in Seq(Frame)
  /\ grads \in 0..MaxGrads /\ ngrads \in 0..MaxNestedGrads

(* The tape seen from outside a sweep: while one runs, the tape as it was *)
(* when the outermost sweep started; the sweep's effect shows at its end. *)
Abs == INSTANCE TapeAtomic WITH
         cstack <- IF Idle THEN cstack ELSE snap.cstack,
         nlen <- IF Idle THEN nlen ELSE snap.nlen,
         adj <- IF Idle THEN adj ELSE snap.adj,
         marks <- IF Idle THEN marks ELSE snap.marks,
         grads <- IF Idle THEN grads ELSE grads - 1

(* Every sweep, with external chain() calls that run nested regions and   *)
(* nested sweeps of their own, leaves the tape exactly as one atomic       *)
(* grad() would: every node's adjoint is the path-sum derivative over the *)
(* region, and nothing outside the region changes.                        *)
SweepRefinesAtomicGrad == Abs!Spec

=============================================================================
