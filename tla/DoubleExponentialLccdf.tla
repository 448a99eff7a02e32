------------------------ MODULE DoubleExponentialLccdf ------------------------
(***************************************************************************)
(* double_exponential_lccdf(y, mu, sigma)                                  *)
(* (src/stan/math/prim/prob/double_exponential_lccdf.hpp).                *)
(*                                                                         *)
(* Each argument is a scalar or a vector, and a var or data.  Doubles are  *)
(* IEEE classes: NaN, the infinities, zero, and finite non-zero values by  *)
(* sign and by magnitude below, at or above 1.  Every operation the code   *)
(* applies maps classes to the set of classes its result can have, with    *)
(* overflow to infinity and underflow to zero; the step takes any of them. *)
(* An input y is NaN, an infinity or finite, mu finite or not; a finite y  *)
(* is below, at or above its mu.                                           *)
(***************************************************************************)
EXTENDS Integers, SequencesExt

CONSTANTS
  YVals,      \* classes of y's entries
  MuVals,     \* classes of mu's entries
  SigmaVals,  \* classes of sigma's entries
  MaxLen      \* longest vector argument

VARIABLES
  y, mu, sigma,          \* [vec |-> is a vector, v |-> the entries]
  rel,                   \* a finite y entry against a mu entry
  yVar, muVar, sVar,
  pc,
  invS,                  \* inv_sigma
  n,                     \* the loop index, from 1
  ccdf,                  \* ccdf_log
  pY, pMu, pS            \* the edges' partials

inputs == <<y, mu, sigma, rel, yVar, muVar, sVar>>
vars == <<y, mu, sigma, rel, yVar, muVar, sVar, pc, invS, n, ccdf, pY, pMu, pS>>

Mags == {"lt1", "eq1", "gt1"}
F(s, m) == [s |-> s, m |-> m]
NaN == F(0, "nan")
Zero == F(0, "zero")
Inf(s) == F(s, "inf")
Fin == F(0, "fin")       \* an input: some finite value
Cls == {NaN, Zero, Inf(1), Inf(-1)} \cup {F(s, m) : s \in {-1, 1}, m \in Mags}

(* A result of magnitude m: rounded to zero, or overflowed. *)
Mk(s, m) == CASE m = "zero" -> Zero [] m = "inf" -> Inf(s) [] OTHER -> F(s, m)

IsNaN(x) == x.m = "nan"
IsInf(x) == x.m = "inf"

Neg(x) == [x EXCEPT !.s = -@]

(* |a * b| for finite non-zero a and b *)
MagMul(a, b) ==
  CASE a = "eq1" -> {b}
    [] b = "eq1" -> {a}
    [] a = "lt1" /\ b = "lt1" -> {"lt1", "zero"}
    [] a = "gt1" /\ b = "gt1" -> {"gt1", "inf"}
    [] OTHER -> Mags

Mul(a, b) ==
  CASE IsNaN(a) \/ IsNaN(b) -> {NaN}
    [] (a = Zero /\ IsInf(b)) \/ (IsInf(a) /\ b = Zero) -> {NaN}
    [] a = Zero \/ b = Zero -> {Zero}
    [] IsInf(a) \/ IsInf(b) -> {Inf(a.s * b.s)}
    [] OTHER -> {Mk(a.s * b.s, m) : m \in MagMul(a.m, b.m)}

Rank(m) == CASE m = "lt1" -> 1 [] m = "eq1" -> 2 [] OTHER -> 3

(* a + b for finite non-zero a and b *)
AddFinite(a, b) ==
  CASE a.s = b.s /\ a.m = "lt1" /\ b.m = "lt1" -> {F(a.s, m) : m \in Mags}
    [] a.s = b.s /\ {a.m, b.m} = {"lt1", "eq1"} -> {F(a.s, "eq1"), F(a.s, "gt1")}
    [] a.s = b.s -> {F(a.s, "gt1"), Inf(a.s)}
    [] Rank(a.m) > Rank(b.m) -> {F(a.s, m) : m \in {m2 \in Mags : Rank(m2) <= Rank(a.m)}}
    [] Rank(b.m) > Rank(a.m) -> {F(b.s, m) : m \in {m2 \in Mags : Rank(m2) <= Rank(b.m)}}
    [] a.m = "eq1" -> {Zero}
    [] OTHER -> {Zero} \cup {F(s, m) : s \in {-1, 1}, m \in {m2 \in Mags : Rank(m2) <= Rank(a.m)}}

Add(a, b) ==
  CASE IsNaN(a) \/ IsNaN(b) -> {NaN}
    [] IsInf(a) /\ IsInf(b) /\ a.s # b.s -> {NaN}
    [] IsInf(a) -> {a}
    [] IsInf(b) -> {b}
    [] a = Zero -> {b}
    [] b = Zero -> {a}
    [] OTHER -> AddFinite(a, b)

(* inv(x) = 1 / x; 1 / x of a tiny x overflows. *)
Inv(x) ==
  CASE IsNaN(x) -> {NaN}
    [] x = Zero -> {Inf(1)}
    [] IsInf(x) -> {Zero}
    [] x.m = "lt1" -> {F(x.s, "gt1"), Inf(x.s)}
    [] x.m = "eq1" -> {x}
    [] OTHER -> {F(x.s, "lt1")}

(* exp(x) *)
Exp(x) ==
  CASE IsNaN(x) -> {NaN}
    [] x = Inf(-1) -> {Zero}
    [] x = Inf(1) -> {Inf(1)}
    [] x = Zero -> {F(1, "eq1")}
    [] x.s = -1 /\ x.m = "gt1" -> {Zero, F(1, "lt1")}
    [] x.s = -1 /\ x.m = "eq1" -> {F(1, "lt1")}
    [] x.s = -1 -> {F(1, "lt1"), F(1, "eq1")}
    [] x.m = "lt1" -> {F(1, "eq1"), F(1, "gt1")}
    [] x.m = "eq1" -> {F(1, "gt1")}
    [] OTHER -> {F(1, "gt1"), Inf(1)}

(* log1m(x) = log(1 - x), for the x = 0.5 * exp(..) in [0, 0.5] it gets. *)
Log1m(x) ==
  CASE IsNaN(x) -> {NaN}
    [] x = Zero -> {Zero}
    [] x.s = 1 /\ x.m = "lt1" -> {Zero} \cup {F(-1, m) : m \in Mags}
    [] x.s = 1 /\ x.m = "eq1" -> {Inf(-1)}
    [] x.s = 1 -> {NaN}
    [] OTHER -> {F(1, m) : m \in Mags} \cup {Inf(1)}

Two == F(1, "gt1")
One == F(1, "eq1")
Half == F(1, "lt1")
LogHalf == F(-1, "lt1")

Vals(S) == [vec : {FALSE}, v : {<<x>> : x \in S}]
             \cup [vec : {TRUE}, v : UNION {[1..k -> S] : k \in 0..MaxLen}]

Size(x) == Len(x.v)

(* scalar_seq_view, and the partials_ slot of a scalar edge *)
At(x, k) == IF x.vec THEN x.v[k] ELSE x.v[1]
Slot(x, k) == IF x.vec THEN k ELSE 1

Rels == {"lt", "eq", "gt"}

(* The y and mu entries the loop pairs. *)
Paired(yx, mux) ==
  {<<Slot(yx, k), Slot(mux, k)>> : k \in 1..Max({Size(yx), Size(mux)})}

Init ==
  /\ y \in Vals(YVals) /\ mu \in Vals(MuVals) /\ sigma \in Vals(SigmaVals)
  /\ rel \in [Paired(y, mu) -> Rels]
  /\ yVar \in BOOLEAN /\ muVar \in BOOLEAN /\ sVar \in BOOLEAN
  /\ pc = "start"
  /\ invS = <<>> /\ n = 0 /\ ccdf = Zero
  /\ pY = <<>> /\ pMu = <<>> /\ pS = <<>>

Vectors == {x \in {y, mu, sigma} : x.vec}

NNN == Max({Size(y), Size(mu), Size(sigma)})

(* check_consistent_sizes, check_not_nan(y), check_finite(mu),         *)
(* check_positive_finite(sigma), then size_zero returns 0.              *)
Checks ==
  /\ pc = "start"
  /\ pc' = CASE \E a, b \in Vectors : Size(a) # Size(b) -> "invalidArgument"
             [] \E k \in 1..Size(y) : IsNaN(y.v[k]) -> "domainError"
             [] \E k \in 1..Size(mu) : mu.v[k] # Fin -> "domainError"
             [] \E k \in 1..Size(sigma) : sigma.v[k].s # 1 \/ ~(sigma.v[k].m \in Mags) -> "domainError"
             [] Size(y) = 0 \/ Size(mu) = 0 \/ Size(sigma) = 0 -> "returned"
             [] OTHER -> "invSigma"
  /\ UNCHANGED <<inputs, invS, n, ccdf, pY, pMu, pS>>

(* Mutant: partials sized by max_size, not by the operand. *)
ZerosPerTerm(x) == [k \in 1..NNN |-> Zero]

(* operands_and_partials: one partial per entry of the operand. *)
Zeros(x) == [k \in 1..Size(x) |-> Zero]

(* ops_partials, and inv_sigma[i] = inv(sigma[i]) for every i. *)
InvSigma ==
  /\ pc = "invSigma"
  /\ \E r \in [1..Size(sigma) -> Cls] :
       /\ \A k \in 1..Size(sigma) : r[k] \in Inv(sigma.v[k])
       /\ invS' = r
  /\ pY' = Zeros(y) /\ pMu' = Zeros(mu) /\ pS' = Zeros(sigma)
  /\ pc' = "loop" /\ n' = 1
  /\ UNCHANGED <<inputs, ccdf>>

(* y_dbl < mu_dbl *)
Below(k) == At(y, k) = Inf(-1) \/ (At(y, k) = Fin /\ rel[Slot(y, k), Slot(mu, k)] = "lt")

(* y_dbl - mu_dbl, mu finite: a finite difference may overflow. *)
Diff(k) ==
  CASE At(y, k) # Fin -> {At(y, k)}
    [] rel[Slot(y, k), Slot(mu, k)] = "eq" -> {Zero}
    [] rel[Slot(y, k), Slot(mu, k)] = "lt" -> {F(-1, m) : m \in Mags} \cup {Inf(-1)}
    [] OTHER -> {F(1, m) : m \in Mags} \cup {Inf(1)}

(* Mutant: exp(scaled_diff) for exp(-scaled_diff). *)
RepBelowExpPlus(is, sd) ==
  UNION {UNION {UNION {UNION {Mul(is, w) : w \in Inv(u)} : u \in Add(t, Neg(One))}
                 : t \in Mul(Two, e)} : e \in Exp(sd)}

(* inv_sigma[n] * inv(2 * exp(-scaled_diff) - 1) *)
RepBelow(is, sd) ==
  UNION {UNION {UNION {UNION {Mul(is, w) : w \in Inv(u)} : u \in Add(t, Neg(One))}
                 : t \in Mul(Two, e)} : e \in Exp(Neg(sd))}

(* log1m(0.5 * exp(scaled_diff)) *)
TermBelow(sd) == UNION {UNION {Log1m(h) : h \in Mul(Half, e)} : e \in Exp(sd)}

(* LOG_HALF - scaled_diff *)
TermAbove(sd) == Add(LogHalf, Neg(sd))

(* One pass of the loop over n: scaled_diff, rep_deriv, the ccdf_log    *)
(* term, and the three edges' partials.                                 *)
Step ==
  /\ pc = "loop" /\ n <= NNN
  /\ LET is == invS[Slot(sigma, n)]
     IN  \E d \in Diff(n) : \E sd \in Mul(d, is) :
         \E rep \in (IF Below(n) THEN RepBelow(is, sd) ELSE {is}) :
         \E term \in (IF Below(n) THEN TermBelow(sd) ELSE TermAbove(sd)) :
         \E c \in Add(ccdf, term), gy \in Add(pY[Slot(y, n)], Neg(rep)),
            gm \in Add(pMu[Slot(mu, n)], rep) :
         \E rs \in Mul(rep, sd) : \E gs \in Add(pS[Slot(sigma, n)], rs) :
           /\ ccdf' = c
           /\ pY' = IF yVar THEN [pY EXCEPT ![Slot(y, n)] = gy] ELSE pY
           /\ pMu' = IF muVar THEN [pMu EXCEPT ![Slot(mu, n)] = gm] ELSE pMu
           /\ pS' = IF sVar THEN [pS EXCEPT ![Slot(sigma, n)] = gs] ELSE pS
  /\ n' = n + 1
  /\ UNCHANGED <<inputs, pc, invS>>

(* build(ccdf_log) *)
Return ==
  /\ pc = "loop" /\ n > NNN
  /\ pc' = "returned"
  /\ UNCHANGED <<inputs, invS, n, ccdf, pY, pMu, pS>>

Next == Checks \/ InvSigma \/ Step \/ Return

Spec == Init /\ [][Next]_vars

-----------------------------------------------------------------------------
TypeOK ==
  /\ y \in Vals(YVals) /\ mu \in Vals(MuVals) /\ sigma \in Vals(SigmaVals)
  /\ pc \in {"start", "invSigma", "loop", "returned", "invalidArgument", "domainError"}
  /\ invS \in Seq(Cls) /\ ccdf \in Cls /\ n \in 0..MaxLen + 1
  /\ pY \in {<<>>} \cup [1..Size(y) -> Cls]
  /\ pMu \in {<<>>} \cup [1..Size(mu) -> Cls]
  /\ pS \in {<<>>} \cup [1..Size(sigma) -> Cls]

Partials == {pY[k] : k \in DOMAIN pY} \cup {pMu[k] : k \in DOMAIN pMu} \cup {pS[k] : k \in DOMAIN pS}

(* The log of a probability is never positive, and the complementary     *)
(* CDF falls as y rises and as mu falls: whatever the rounding, overflow  *)
(* and underflow of each step, ccdf_log is not above 0, no y partial is   *)
(* above 0 and no mu partial below 0, summed over broadcast elements too. *)
LccdfMonotone ==
  pc = "returned" =>
    /\ ccdf.s <= 0
    /\ \A k \in DOMAIN pY : pY[k].s <= 0
    /\ \A k \in DOMAIN pMu : pMu[k].s >= 0

(* The doc comment names NaN y, infinite mu and non-positive sigma as the *)
(* errors; for every other argument the log CCDF and its partials are     *)
(* numbers, never NaN.                                                    *)
NoNaN ==
  pc = "returned" => ~IsNaN(ccdf) /\ \A x \in Partials : ~IsNaN(x)

=============================================================================
