---------------------------- MODULE OdeCallbacks ----------------------------
(***************************************************************************)
(* The nested-AD callbacks of cvodes_integrator_adjoint_vari               *)
(* (src/stan/math/rev/functor/cvodes_integrator_adjoint.hpp, 324-430),     *)
(* which CVODES calls in any order and any number of times while chain()  *)
(* integrates backward.  Each opens a nested region, builds the user's     *)
(* right-hand side with vars, seeds, sweeps the region, reads adjoints and *)
(* closes the region.                                                      *)
(*                                                                         *)
(* The user's right-hand side is an expression graph: output i is either   *)
(* an operation node F(i) over states y, parameters th and earlier         *)
(* operation outputs, or a copy of a state, a parameter or an earlier      *)
(* output (a var copy shares its vari).  Local derivatives are 1, so a     *)
(* derivative is a path count.  rhs_adj_sens and jacobian_states pass the  *)
(* parameters as doubles (value_of_args_tuple_); quad_rhs_adj passes the   *)
(* deep copies local_args_tuple_, vars made by the constructor on the      *)
(* outer tape, outside every callback's region.                          *)
(***************************************************************************)
EXTENDS Integers, SequencesExt

CONSTANTS
  N,             \* states (N_)
  P,             \* parameter vars (args_vars_)
  MuVals,        \* entries of the adjoint vector mu CVODES passes in
  MaxCalls,      \* callbacks in one run
  SharedOutputs  \* whether two outputs may share one vari

VARIABLES rhs, thAdj, last, calls

vars == <<rhs, thAdj, last, calls>>

Y(j) == <<"y", j>>
Th(p) == <<"th", p>>
F(i) == <<"f", i>>
Out(i) == <<"out", i>>

YNodes == {Y(j) : j \in 1..N}
ThNodes == {Th(p) : p \in 1..P}
Nodes == YNodes \cup ThNodes \cup {F(i) : i \in 1..N}

(* Output i: an operation over operands, or a copy of a source. Operands  *)
(* and sources are states, parameters or earlier outputs; an operation    *)
(* uses an earlier output only when that output is an operation itself.    *)
OutSpec(i) ==
  [op : {TRUE}, ops : SUBSET (YNodes \cup ThNodes \cup {Out(k) : k \in 1..i - 1}),
   to : {Out(i)}]
  \cup [op : {FALSE}, ops : {{}}, to : YNodes \cup ThNodes \cup {Out(k) : k \in 1..i - 1}]

WellFormed(r) ==
  \A i \in 1..N : \A o \in r[i].ops : o[1] = "out" => r[o[2]].op

(* The vari output i holds when the parameters are vars (w) or doubles:  *)
(* a double parameter copied into a var output is a fresh constant vari.  *)
RECURSIVE OutNode(_, _)
OutNode(i, w) ==
  CASE rhs[i].op -> F(i)
    [] rhs[i].to[1] = "out" -> OutNode(rhs[i].to[2], w)
    [] rhs[i].to[1] = "th" /\ ~w -> F(i)
    [] OTHER -> rhs[i].to

(* The operand varis of operation node F(i); a double operand is none. *)
Ops(i, w) ==
  {IF o[1] = "out" THEN OutNode(o[2], w) ELSE o :
     o \in {o2 \in rhs[i].ops : w \/ o2[1] # "th"}}

Shared == \E i, k \in 1..N : i # k /\ OutNode(i, TRUE) = OutNode(k, TRUE)

(* The reverse sweep of the nested region (grad()): each operation node,  *)
(* newest first, adds its adjoint into its operands'.                     *)
RECURSIVE Final(_, _, _)
Final(a, x, w) ==
  a[x] + MapThenSumSet(LAMBDA i : Final(a, F(i), w),
                       {i \in 1..N : rhs[i].op /\ x \in Ops(i, w)})
Sweep(a, w) == [x \in Nodes |-> Final(a, x, w)]

ZeroRegion(a) == [x \in Nodes |-> IF x \in YNodes \cup {F(i) : i \in 1..N} THEN 0 ELSE a[x]]

(* Mutant: the seed without its sign. *)
SeedPos(a, mu, w) ==
  FoldLeft(LAMBDA acc, i : [acc EXCEPT ![OutNode(i, w)] = mu[i]], a, [i \in 1..N |-> i])

(* f_y_t_vars.adj() = -mu: one assignment per output, in order. *)
SeedNeg(a, mu, w) ==
  FoldLeft(LAMBDA acc, i : [acc EXCEPT ![OutNode(i, w)] = -mu[i]], a, [i \in 1..N |-> i])

Outer == [x \in Nodes |-> IF x \in ThNodes THEN thAdj[x[2]] ELSE 0]

(* The outer adjoints after the region is closed. *)
Keep(a) == thAdj' = [p \in 1..P |-> a[Th(p)]]

Called(kind, mu, res) ==
  /\ last' = [kind |-> kind, mu |-> mu, res |-> res]
  /\ calls' = calls + 1

Mu == [1..N -> MuVals]

Init ==
  /\ rhs \in {r \in [1..N -> UNION {OutSpec(i) : i \in 1..N}] :
                 (\A i \in 1..N : r[i] \in OutSpec(i)) /\ WellFormed(r)}
  /\ SharedOutputs \/ ~Shared
  /\ thAdj = [p \in 1..P |-> 0]
  /\ last = [kind |-> "none", mu |-> [j \in 1..N |-> 0], res |-> <<>>]
  /\ calls = 0

(* rhs_adj_sens (324-345): y_vars and the right-hand side in a nested     *)
(* region with double parameters; mu_dot = y_vars.adj().                  *)
RhsAdjSens(mu) ==
  /\ calls < MaxCalls
  /\ LET a == Sweep(SeedNeg(Outer, mu, FALSE), FALSE)
     IN /\ Called("rhsAdjSens", mu, [j \in 1..N |-> a[Y(j)]])
        /\ Keep(a)
  /\ UNCHANGED rhs

(* Mutant: the deep copies are not zeroed first. *)
QuadRhsAdjNoZero(mu) ==
  /\ calls < MaxCalls
  /\ LET a == Sweep(SeedNeg(Outer, mu, TRUE), TRUE)
     IN /\ Called("quadRhsAdj", mu, [p \in 1..P |-> a[Th(p)]])
        /\ Keep(a)
  /\ UNCHANGED rhs

(* Mutant: mu_dot mapped with N_ entries instead of args_vars_. *)
QuadRhsAdjSizedN(mu) ==
  /\ calls < MaxCalls
  /\ LET a0 == [x \in Nodes |-> IF x \in ThNodes THEN 0 ELSE Outer[x]]
         a == Sweep(SeedNeg(a0, mu, TRUE), TRUE)
     IN /\ Called("quadRhsAdj", mu, [p \in 1..N |-> IF p <= P THEN a[Th(p)] ELSE 0])
        /\ Keep(a)
  /\ UNCHANGED rhs

(* quad_rhs_adj (360-385): the deep copies are zeroed (they live outside  *)
(* the region), the right-hand side is built over them, seeded and swept; *)
(* their adjoints are accumulated into a zeroed mu_dot.                   *)
QuadRhsAdj(mu) ==
  /\ calls < MaxCalls
  /\ LET a0 == [x \in Nodes |-> IF x \in ThNodes THEN 0 ELSE Outer[x]]
         a == Sweep(SeedNeg(a0, mu, TRUE), TRUE)
     IN /\ Called("quadRhsAdj", mu, [p \in 1..P |-> a[Th(p)]])
        /\ Keep(a)
  /\ UNCHANGED rhs

(* Mutant: no zeroing between columns. *)
RECURSIVE ColumnsNoZero(_, _)
ColumnsNoZero(i, a) ==
  IF i > N THEN <<<<>>, a>>
  ELSE LET s == Sweep([a EXCEPT ![OutNode(i, FALSE)] = 1], FALSE)
           rest == ColumnsNoZero(i + 1, s)
       IN <<<<[j \in 1..N |-> s[Y(j)]]>> \o rest[1], rest[2]>>

(* jacobian_states (391-412): per output i, grad(fy_var(i)) sets its       *)
(* adjoint to 1 and sweeps; column i is y_var.adj(); between columns       *)
(* nested.set_zero_all_adjoints() clears the region.  The matrix is then   *)
(* transposed, so row i holds d f_i / d y.                                 *)
RECURSIVE Columns(_, _)
Columns(i, a) ==
  IF i > N THEN <<<<>>, a>>
  ELSE LET s == Sweep([IF i = 1 THEN a ELSE ZeroRegion(a) EXCEPT ![OutNode(i, FALSE)] = 1], FALSE)
           rest == Columns(i + 1, s)
       IN <<<<[j \in 1..N |-> s[Y(j)]]>> \o rest[1], rest[2]>>

JacobianStates ==
  /\ calls < MaxCalls
  /\ LET c == Columns(1, Outer)
     IN /\ Called("jacobianStates", [j \in 1..N |-> 0], c[1])
        /\ Keep(c[2])
  /\ UNCHANGED rhs

(* jacobian_adj (422-430): -transpose of jacobian_states' matrix. *)
JacobianAdj ==
  /\ calls < MaxCalls
  /\ LET c == Columns(1, Outer)
     IN /\ Called("jacobianAdj", [j \in 1..N |-> 0],
                  [i \in 1..N |-> [j \in 1..N |-> -c[1][j][i]]])
        /\ Keep(c[2])
  /\ UNCHANGED rhs

Next ==
  \/ \E mu \in Mu : RhsAdjSens(mu) \/ QuadRhsAdj(mu)
  \/ JacobianStates
  \/ JacobianAdj

Spec == Init /\ [][Next]_vars

-----------------------------------------------------------------------------
Kinds == {"none", "rhsAdjSens", "quadRhsAdj", "jacobianStates", "jacobianAdj"}

TypeOK ==
  /\ \A i \in 1..N : rhs[i] \in OutSpec(i)
  /\ thAdj \in [1..P -> Int]
  /\ last.kind \in Kinds /\ last.mu \in [1..N -> MuVals]
  /\ last.kind = "rhsAdjSens" => last.res \in [1..N -> Int]
  /\ last.kind = "quadRhsAdj" => last.res \in [1..P -> Int]
  /\ last.kind \in {"jacobianStates", "jacobianAdj"} => last.res \in [1..N -> [1..N -> Int]]
  /\ calls \in 0..MaxCalls

(* The derivative of output i with respect to input x, taken from the     *)
(* user's expression, with the parameters as vars (w) or as doubles.      *)
RECURSIVE D(_, _, _), DIn(_, _, _)
D(i, x, w) ==
  IF rhs[i].op THEN MapThenSumSet(LAMBDA o : DIn(o, x, w), rhs[i].ops)
               ELSE DIn(rhs[i].to, x, w)
DIn(o, x, w) ==
  CASE o[1] = "out" -> D(o[2], x, w)
    [] o[1] = "th" /\ ~w -> 0
    [] OTHER -> IF o = x THEN 1 ELSE 0

MinusJT(mu, x, w) == -MapThenSumSet(LAMBDA i : mu[i] * D(i, x, w), 1..N)

(* rhs_adj_sens returns the adjoint right-hand side -J_y^T mu of the      *)
(* user's function, whatever graph it builds (eq. 2.23 of the CVODES      *)
(* guide).                                                                *)
RhsAdjSensCorrect ==
  last.kind = "rhsAdjSens" => last.res = [j \in 1..N |-> MinusJT(last.mu, Y(j), FALSE)]

(* quad_rhs_adj returns -J_theta^T mu for this call alone, whatever       *)
(* earlier calls left in the deep copies' adjoints.                      *)
QuadRhsAdjCorrect ==
  last.kind = "quadRhsAdj" => last.res = [p \in 1..P |-> MinusJT(last.mu, Th(p), TRUE)]

(* jacobian_states returns d f / d y, every column free of the earlier    *)
(* columns' sweeps; jacobian_adj returns its negated transpose.           *)
JacobianCorrect ==
  /\ last.kind = "jacobianStates" =>
       last.res = [i \in 1..N |-> [j \in 1..N |-> D(i, Y(j), FALSE)]]
  /\ last.kind = "jacobianAdj" =>
       last.res = [i \in 1..N |-> [j \in 1..N |-> -D(j, Y(i), FALSE)]]

=============================================================================
