----------------------------- MODULE TapeAtomic -----------------------------
(***************************************************************************)
(* What the reverse-mode tape promises (spec sections 4.2-4.4), with a     *)
(* reverse sweep as one atomic step.  The tape is two stacks: chaining     *)
(* nodes (var_stack_) with their operands, and non-chaining leaves         *)
(* (var_nochain_stack_).  Nested regions are a stack of marks, each the    *)
(* two stack lengths when the region opened.  grad() over the innermost   *)
(* region leaves every node holding its adjoint plus, for each chaining    *)
(* node of the region that uses it, that node's final adjoint: the         *)
(* path-sum derivative, with every local derivative taken as 1.            *)
(***************************************************************************)
EXTENDS Naturals, SequencesExt

CONSTANTS
  MaxC,      \* bound on the chaining stack
  MaxN,      \* bound on the non-chaining stack
  MaxDepth,  \* bound on the nesting of regions
  MaxGrads,  \* bound on the sweeps started outside any sweep
  NoSeed     \* grad() without a seed node

VARIABLES cstack, nlen, adj, marks, grads

tvars == <<cstack, nlen, adj, marks, grads>>

CId(k) == <<"c", k>>
NId(k) == <<"n", k>>

(* The nodes on the tape. *)
Ids == {CId(k) : k \in 1..Len(cstack)} \cup {NId(k) : k \in 1..nlen}

(* The stack lengths below the innermost region. *)
BaseC == IF marks = <<>> THEN 0 ELSE Last(marks).c
BaseN == IF marks = <<>> THEN 0 ELSE Last(marks).n

(* The nodes of the innermost region. *)
RegionIds ==
  {CId(k) : k \in BaseC + 1..Len(cstack)} \cup {NId(k) : k \in BaseN + 1..nlen}

(* Final(a, x): x's adjoint after sweeping the region from adjoints a: its *)
(* own, plus the final adjoint of every chaining node of the region that   *)
(* has x as an operand.  Operands are older than their users, so the       *)
(* recursion climbs the stack and ends.                                    *)
RECURSIVE Final(_, _)
Final(a, x) ==
  a[x] + MapThenSumSet(LAMBDA k : Final(a, CId(k)),
                       {k \in BaseC + 1..Len(cstack) : x \in cstack[k].ops})

GradResult(a) == [x \in DOMAIN a |-> Final(a, x)]

(* grad(vi) sets vi's adjoint to 1 first; grad() seeds nothing. *)
Seeded(a, seed) == IF seed = NoSeed THEN a ELSE [a EXCEPT ![seed] = 1]

ChainSeeds == {CId(k) : k \in BaseC + 1..Len(cstack)}

Push(ops, ext) ==
  /\ Len(cstack) < MaxC
  /\ cstack' = Append(cstack, [ops |-> ops, ext |-> ext])
  /\ adj' = adj @@ (CId(Len(cstack) + 1) :> 0)
  /\ UNCHANGED <<nlen, marks, grads>>

PushLeaf ==
  /\ nlen < MaxN
  /\ nlen' = nlen + 1
  /\ adj' = adj @@ (NId(nlen + 1) :> 0)
  /\ UNCHANGED <<cstack, marks, grads>>

StartNested ==
  /\ Len(marks) < MaxDepth
  /\ marks' = Append(marks, [c |-> Len(cstack), n |-> nlen])
  /\ UNCHANGED <<cstack, nlen, adj, grads>>

RecoverNested ==
  /\ marks # <<>>
  /\ cstack' = SubSeq(cstack, 1, BaseC)
  /\ nlen' = BaseN
  /\ adj' = Restrict(adj, Ids \ RegionIds)
  /\ marks' = Front(marks)
  /\ UNCHANGED grads

ZeroAll ==
  /\ adj' = [x \in DOMAIN adj |-> 0]
  /\ UNCHANGED <<cstack, nlen, marks, grads>>

ZeroNested ==
  /\ marks # <<>>
  /\ adj' = [x \in DOMAIN adj |-> IF x \in RegionIds THEN 0 ELSE adj[x]]
  /\ UNCHANGED <<cstack, nlen, marks, grads>>

SetAdj(x) ==
  /\ adj' = [adj EXCEPT ![x] = 1]
  /\ UNCHANGED <<cstack, nlen, marks, grads>>

Grad(seed) ==
  /\ grads < MaxGrads
  /\ grads' = grads + 1
  /\ adj' = GradResult(Seeded(adj, seed))
  /\ UNCHANGED <<cstack, nlen, marks>>

RecoverMemory ==
  /\ marks = <<>>
  /\ cstack' = <<>>
  /\ nlen' = 0
  /\ adj' = <<>>
  /\ UNCHANGED <<marks, grads>>

(* Operand sets a new node may take: at most two nodes already on the tape. *)
OperandSets(S) == {ops \in SUBSET S : Cardinality(ops) <= 2}

Init ==
  /\ cstack = <<>>
  /\ nlen = 0
  /\ adj = <<>>
  /\ marks = <<>>
  /\ grads = 0

Next ==
  \/ \E ops \in OperandSets(Ids), ext \in BOOLEAN : Push(ops, ext)
  \/ PushLeaf
  \/ StartNested
  \/ RecoverNested
  \/ ZeroAll
  \/ ZeroNested
  \/ \E x \in RegionIds : SetAdj(x)
  \/ \E seed \in ChainSeeds \cup {NoSeed} : Grad(seed)
  \/ RecoverMemory

Spec == Init /\ [][Next]_tvars

=============================================================================
