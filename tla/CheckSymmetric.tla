--------------------------- MODULE CheckSymmetric ---------------------------
(***************************************************************************)
(* check_symmetric (src/stan/math/prim/err/check_symmetric.hpp): after    *)
(* check_square, a k x k matrix is accepted at once when k = 1; otherwise  *)
(* the upper triangle is walked row by row and the first pair (m, n) with  *)
(* !(fabs(y(m,n) - y(n,m)) <= CONSTRAINT_TOLERANCE) throws domain_error.   *)
(*                                                                         *)
(* Doubles are integers in units of the tolerance, plus NaN and the two    *)
(* infinities as model values, with IEEE subtraction and comparison.       *)
(* Indices are 0-based, as in the code.                                    *)
(***************************************************************************)
EXTENDS Integers

CONSTANTS
  Vals,     \* entries a matrix may hold: integers and some of NaN, Inf
  Tol,      \* CONSTRAINT_TOLERANCE
  MaxK,     \* largest matrix
  NaN, Inf, NegInf,
  NoErr

VARIABLES k, y, pc, m, n, err

vars == <<k, y, pc, m, n, err>>

NonFinite == {NaN, Inf, NegInf}

(* IEEE a - b. *)
Sub(a, b) ==
  CASE a = NaN \/ b = NaN -> NaN
    [] a = b /\ a \in {Inf, NegInf} -> NaN
    [] a \in {Inf, NegInf} -> a
    [] b = Inf -> NegInf
    [] b = NegInf -> Inf
    [] OTHER -> a - b

Fabs(x) ==
  CASE x = NaN -> NaN
    [] x \in {Inf, NegInf} -> Inf
    [] OTHER -> IF x < 0 THEN -x ELSE x

(* Mutant: the test written as fabs(..) > CONSTRAINT_TOLERANCE, negated. *)
LeqTolByGreater(x) == ~(x \notin {NaN} /\ (x = Inf \/ (x \notin NonFinite /\ x > Tol)))

(* x <= CONSTRAINT_TOLERANCE: false for NaN and for infinity. *)
LeqTol(x) == x \notin NonFinite /\ x <= Tol

Idx == 0..MaxK - 1

Init ==
  /\ k \in 0..MaxK
  /\ y \in [(0..k - 1) \X (0..k - 1) -> Vals]
  /\ pc = "start" /\ m = 0 /\ n = 0 /\ err = NoErr

(* if (k == 1) return; then the outer loop starts at m = 0, n = m + 1. *)
Start ==
  /\ pc = "start"
  /\ IF k = 1 THEN pc' = "returned" ELSE pc' = "loop"
  /\ m' = 0 /\ n' = 1
  /\ UNCHANGED <<k, y, err>>

(* Mutant: the error names the pair in lower-triangle order. *)
CompareSwapped ==
  /\ pc = "loop" /\ m < k /\ n < k
  /\ IF LeqTol(Fabs(Sub(y[m, n], y[n, m])))
       THEN n' = n + 1 /\ UNCHANGED <<pc, err>>
       ELSE pc' = "domainError" /\ err' = <<n, m>> /\ UNCHANGED n
  /\ UNCHANGED <<k, y, m>>

(* One pass of the inner loop body: compare y(m,n) with y(n,m). *)
Compare ==
  /\ pc = "loop" /\ m < k /\ n < k
  /\ IF LeqTol(Fabs(Sub(y[m, n], y[n, m])))
       THEN n' = n + 1 /\ UNCHANGED <<pc, err>>
       ELSE pc' = "domainError" /\ err' = <<m, n>> /\ UNCHANGED n
  /\ UNCHANGED <<k, y, m>>

(* The inner loop ends: ++m, and n restarts at m + 1. *)
NextRow ==
  /\ pc = "loop" /\ m < k /\ n >= k
  /\ m' = m + 1 /\ n' = m + 2
  /\ UNCHANGED <<k, y, pc, err>>

(* The outer loop ends: the check returns. *)
LoopEnd ==
  /\ pc = "loop" /\ m >= k
  /\ pc' = "returned"
  /\ UNCHANGED <<k, y, m, n, err>>

Next == Start \/ Compare \/ NextRow \/ LoopEnd

Spec == Init /\ [][Next]_vars

-----------------------------------------------------------------------------
TypeOK ==
  /\ k \in 0..MaxK
  /\ y \in [(0..k - 1) \X (0..k - 1) -> Vals]
  /\ pc \in {"start", "loop", "returned", "domainError"}
  /\ m \in 0..MaxK /\ n \in 0..MaxK + 1
  /\ err \in {<<i, j>> : i, j \in Idx} \cup {NoErr}
  /\ err # NoErr => err[1] < err[2]

(* The documented meaning (lines 28-43: "symmetric", and a NaN entry     *)
(* throws): an off-diagonal pair is symmetric when neither entry is NaN    *)
(* and the two are equal or, both finite, differ by at most the tolerance. *)
Close(a, b) ==
  /\ a # NaN /\ b # NaN
  /\ \/ a = b
     \/ /\ a \notin NonFinite /\ b \notin NonFinite
        /\ a - b <= Tol /\ b - a <= Tol

AsymmetricPairs == {p \in (0..k - 1) \X (0..k - 1) :
                      p[1] < p[2] /\ ~Close(y[p[1], p[2]], y[p[2], p[1]])}

RowMajorFirst(p, S) == \A q \in S : p[1] < q[1] \/ (p[1] = q[1] /\ p[2] <= q[2])

(* When check_symmetric finishes, it has thrown exactly when some pair of *)
(* the upper triangle is not symmetric (a NaN entry or a difference over  *)
(* the tolerance), and the pair it reports is the first such pair in row  *)
(* order.  Checked over finite entries and NaN: with equal infinities the *)
(* code throws where the doc accepts (ExactlySymmetricAccepted).          *)
ThrowsOnFirstAsymmetricPair ==
  pc \in {"returned", "domainError"} =>
    /\ (pc = "domainError") = (AsymmetricPairs # {})
    /\ pc = "domainError" => err \in AsymmetricPairs /\ RowMajorFirst(err, AsymmetricPairs)

(* The doc comment: "Check if the specified matrix is symmetric."  A      *)
(* matrix equal to its transpose, with no NaN entry, is accepted.         *)
ExactlySymmetricAccepted ==
  (/\ pc \in {"returned", "domainError"}
   /\ \A i, j \in 0..k - 1 : y[i, j] = y[j, i] /\ y[i, j] # NaN)
    => pc = "returned"

=============================================================================
