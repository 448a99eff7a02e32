------------------------- MODULE MultiNormalCholesky -------------------------
(***************************************************************************)
(* multi_normal_cholesky_lpdf<propto>(y, mu, L)                           *)
(* (src/stan/math/prim/prob/multi_normal_cholesky_lpdf.hpp).              *)
(*                                                                         *)
(* y and mu are each one vector or a std::vector of vectors; a lone one    *)
(* is broadcast over the other's elements (vector_seq_view), and its       *)
(* partials_vec_[i] is one shared vector for every i.  Each of y, mu and L *)
(* is a var or data, which selects the partials the code keeps and, for L, *)
(* which of the two branches runs.                                         *)
(*                                                                         *)
(* Numbers are exact integers: L has a unit diagonal, so forward and back  *)
(* substitution divide by 1 and log(L_kk) = 0.  logp is kept as lc, its    *)
(* multiple of NEG_LOG_SQRT_TWO_PI, and lq, minus twice the rest.  Indices *)
(* are from 1.                                                             *)
(***************************************************************************)
EXTENDS Integers, SequencesExt

CONSTANTS
  YVals,    \* entries of y
  MuVals,   \* entries of mu
  LVals,    \* entries below L's diagonal
  MaxArr,   \* longest std::vector of vectors
  MaxDim    \* longest vector, most rows or columns of L

VARIABLES
  y, mu, L,              \* the arguments
  yVar, muVar, lVar,     \* which are vars (!is_constant)
  propto,
  pc,
  half, sd,              \* half and scaled_diff, per element i
  i,                     \* the loop over size_vec
  lc, lq,                \* logp
  pY, pMu, pL            \* the edges' partials

inputs == <<y, mu, L, yVar, muVar, lVar, propto>>
vars == <<y, mu, L, yVar, muVar, lVar, propto, pc, half, sd, i, lc, lq, pY, pMu, pL>>

Vectors(S) == UNION {[1..n -> S] : n \in 0..MaxDim}

(* A std::vector of vectors, or one vector held as a sequence of one. *)
Mvt(S) ==
  [arr : {TRUE}, v : UNION {[1..n -> Vectors(S)] : n \in 0..MaxArr}]
    \cup [arr : {FALSE}, v : {<<x>> : x \in Vectors(S)}]

Pairs(r, c) == (1..r) \X (1..c)
Below(r, c) == {p \in Pairs(r, c) : p[1] > p[2]}

(* L: any rows and columns, a unit diagonal, LVals below it, 0 above. *)
Mats ==
  UNION {{[r |-> r, c |-> c,
           e |-> low @@ [p \in Pairs(r, c) |-> IF p[1] = p[2] THEN 1 ELSE 0]]
          : low \in [Below(r, c) -> LVals]} : r, c \in 0..MaxDim}

SizeMvt(x) == Len(x.v)

(* vector_seq_view: element s, the lone vector for every s. *)
View(x, s) == IF x.arr THEN x.v[s] ELSE x.v[1]

(* The partials_vec_ entry element s writes: a lone vector has one. *)
Slot(x, s) == IF x.arr THEN s ELSE 1

SizeVec == Max({SizeMvt(y), SizeMvt(mu)})

(* size_y = y_vec[0].size() *)
N == IF SizeMvt(y) = 0 THEN 0 ELSE Len(View(y, 1))

Dot(a, b) == MapThenSumSet(LAMBDA k : a[k] * b[k], DOMAIN a)

(* y_val - mu_val of element s *)
Diff(s) == [k \in 1..N |-> View(y, s)[k] - View(mu, s)[k]]

(* mdivide_left_tri<Eigen::Lower>(L, b): forward substitution reading    *)
(* only L's lower triangle; the first k entries of x with L x = b.        *)
RECURSIVE FwdSub(_, _)
FwdSub(b, k) ==
  IF k = 0 THEN <<>>
  ELSE LET x == FwdSub(b, k - 1)
       IN  Append(x, (b[k] - MapThenSumSet(LAMBDA j : L.e[<<k, j>>] * x[j], 1..k - 1))
                       \div L.e[<<k, k>>])

(* mdivide_right_tri<Eigen::Lower>(h, L), transposed: x with x L = h, by *)
(* back substitution from the last entry; entries k..N.                 *)
RECURSIVE BackSub(_, _)
BackSub(h, k) ==
  IF k > N THEN <<>>
  ELSE LET x == BackSub(h, k + 1)
       IN  (k :> (h[k] - MapThenSumSet(LAMBDA j : L.e[<<j, k>>] * x[j], k + 1..N))
                  \div L.e[<<k, k>>]) @@ x

RightSolve(h) == [k \in 1..N |-> BackSub(h, 1)[k]]

(* mdivide_left_tri<Eigen::Lower>(L): L's inverse, column by column. *)
InvLower == [p \in Pairs(N, N) |-> FwdSub([k \in 1..N |-> IF k = p[2] THEN 1 ELSE 0], N)[p[1]]]

(* triangularView<Eigen::Lower>() *)
Lower(M) == [p \in DOMAIN M |-> IF p[1] >= p[2] THEN M[p] ELSE 0]

MatVec(M, v) == [r \in 1..N |-> MapThenSumSet(LAMBDA c : M[<<r, c>>] * v[c], 1..N)]
VecMat(v, M) == [c \in 1..N |-> MapThenSumSet(LAMBDA r : v[r] * M[<<r, c>>], 1..N)]

Init ==
  /\ y \in Mvt(YVals) /\ mu \in Mvt(MuVals) /\ L \in Mats
  /\ yVar \in BOOLEAN /\ muVar \in BOOLEAN /\ lVar \in BOOLEAN
  /\ propto \in BOOLEAN
  /\ pc = "start"
  /\ half = <<>> /\ sd = <<>> /\ i = 0
  /\ lc = 0 /\ lq = 0
  /\ pY = <<>> /\ pMu = <<>> /\ pL = <<>>

(* check_consistent_sizes_mvt (two std::vectors of different sizes       *)
(* throw), then an empty one returns 0.                                  *)
Start ==
  /\ pc = "start"
  /\ pc' = CASE y.arr /\ mu.arr /\ SizeMvt(y) # SizeMvt(mu) -> "error"
             [] SizeMvt(y) = 0 \/ SizeMvt(mu) = 0 -> "returned"
             [] OTHER -> "sizes"
  /\ UNCHANGED <<inputs, half, sd, i, lc, lq, pY, pMu, pL>>

SizesMatch ==
  /\ \A s \in 2..SizeMvt(y) : Len(View(y, s)) = N
  /\ \A s \in 2..SizeMvt(mu) : Len(View(mu, s)) = Len(View(mu, 1))
  /\ N = Len(View(mu, 1)) /\ N = L.r /\ N = L.c

(* Mutant: one partials vector per element of size_vec, not per operand. *)
ZerosPerTerm(x) == [s \in 1..SizeVec |-> [k \in 1..N |-> 0]]

(* operands_and_partials: zero partials shaped like the operand. *)
Zeros(x) == [s \in 1..SizeMvt(x) |-> [k \in 1..N |-> 0]]

(* The size checks, size_y == 0 returning 0, then ops_partials and the  *)
(* NEG_LOG_SQRT_TWO_PI term.                                            *)
CheckSizes ==
  /\ pc = "sizes"
  /\ \/ ~SizesMatch /\ pc' = "error" /\ UNCHANGED <<lc, pY, pMu, pL>>
     \/ SizesMatch /\ N = 0 /\ pc' = "returned" /\ UNCHANGED <<lc, pY, pMu, pL>>
     \/ /\ SizesMatch /\ N > 0 /\ pc' = "solve"
        /\ lc' = IF propto THEN 0 ELSE N * SizeVec
        /\ pY' = Zeros(y) /\ pMu' = Zeros(mu)
        /\ pL' = [p \in Pairs(N, N) |-> 0]
  /\ UNCHANGED <<inputs, half, sd, i, lq>>

(* include_summand<propto, T_y, T_loc, T_covar_elem> *)
Included == ~propto \/ yVar \/ muVar \/ lVar

(* half and scaled_diff of every element, and the quadratic term: by    *)
(* substitution when L is data, through inv(L) when it is a var.        *)
Solve ==
  /\ pc = "solve"
  /\ \/ ~Included /\ pc' = "returned" /\ UNCHANGED <<half, sd, i, lq>>
     \/ /\ Included /\ ~lVar
        /\ LET h == [s \in 1..SizeVec |-> FwdSub(Diff(s), N)]
           IN  /\ half' = h
               /\ sd' = [s \in 1..SizeVec |-> RightSolve(h[s])]
               /\ lq' = MapThenSumSet(LAMBDA s : Dot(h[s], h[s]), 1..SizeVec)
        /\ pc' = "loop" /\ i' = 1
     \/ /\ Included /\ lVar
        /\ LET h == [s \in 1..SizeVec |-> MatVec(Lower(InvLower), Diff(s))]
           IN  /\ half' = h
               /\ sd' = [s \in 1..SizeVec |-> VecMat(h[s], Lower(InvLower))]
               /\ lq' = MapThenSumSet(LAMBDA s : Dot(h[s], h[s]), 1..SizeVec)
        /\ pc' = "loop" /\ i' = 1
  /\ UNCHANGED <<inputs, lc, pY, pMu, pL>>

(* Mutant: the partials are assigned, not accumulated. *)
AccumulateAssign ==
  /\ pc = "loop" /\ i <= SizeVec
  /\ pY' = IF yVar THEN [pY EXCEPT ![Slot(y, i)] = [k \in 1..N |-> -sd[i][k]]] ELSE pY
  /\ pMu' = IF muVar THEN [pMu EXCEPT ![Slot(mu, i)] = sd[i]] ELSE pMu
  /\ pL' = IF lVar THEN [p \in DOMAIN pL |-> pL[p] + sd[i][p[1]] * half[i][p[2]]] ELSE pL
  /\ i' = i + 1
  /\ UNCHANGED <<inputs, pc, half, sd, lc, lq>>

(* One pass of the loop over size_vec: partials_vec_[i] -= or +=        *)
(* scaled_diff.col(i), and L's partials += scaled_diff.col(i) *         *)
(* half.row(i).                                                          *)
Accumulate ==
  /\ pc = "loop" /\ i <= SizeVec
  /\ pY' = IF yVar THEN [pY EXCEPT ![Slot(y, i)] = [k \in 1..N |-> @[k] - sd[i][k]]] ELSE pY
  /\ pMu' = IF muVar THEN [pMu EXCEPT ![Slot(mu, i)] = [k \in 1..N |-> @[k] + sd[i][k]]] ELSE pMu
  /\ pL' = IF lVar THEN [p \in DOMAIN pL |-> pL[p] + sd[i][p[1]] * half[i][p[2]]] ELSE pL
  /\ i' = i + 1
  /\ UNCHANGED <<inputs, pc, half, sd, lc, lq>>

(* The log-diagonal terms (0 here), L's partials -= size_vec *          *)
(* inv(L)^T, and build(logp).                                           *)
Finish ==
  /\ pc = "loop" /\ i > SizeVec
  /\ pL' = IF lVar THEN [p \in DOMAIN pL |-> pL[p] - SizeVec * InvLower[<<p[2], p[1]>>]] ELSE pL
  /\ pc' = "returned"
  /\ UNCHANGED <<inputs, half, sd, i, lc, lq, pY, pMu>>

Next == Start \/ CheckSizes \/ Solve \/ Accumulate \/ Finish

Spec == Init /\ [][Next]_vars

-----------------------------------------------------------------------------
TypeOK ==
  /\ y \in Mvt(YVals) /\ mu \in Mvt(MuVals) /\ L \in Mats
  /\ {yVar, muVar, lVar, propto} \subseteq BOOLEAN
  /\ pc \in {"start", "sizes", "solve", "loop", "returned", "error"}
  /\ i \in 0..MaxArr + 1 /\ lc \in Nat /\ lq \in Nat
  /\ pY \in {<<>>} \cup [1..SizeMvt(y) -> [1..N -> Int]]
  /\ pMu \in {<<>>} \cup [1..SizeMvt(mu) -> [1..N -> Int]]
  /\ pL \in {<<>>} \cup [Pairs(N, N) -> Int]

(* The reference: the quadratic form of Sigma^-1 for Sigma = L L' (L's    *)
(* lower triangle), Sigma^-1 taken as the adjugate of Sigma, by cofactor *)
(* expansion: det(Sigma) = det(L)^2 = 1.                                 *)
Minor(M, n, r, c) ==
  [p \in Pairs(n - 1, n - 1) |->
     M[<<IF p[1] >= r THEN p[1] + 1 ELSE p[1], IF p[2] >= c THEN p[2] + 1 ELSE p[2]>>]]

RECURSIVE Det(_, _)
Det(M, n) ==
  IF n = 0 THEN 1
  ELSE MapThenSumSet(LAMBDA c : (-1)^(c + 1) * M[<<1, c>>] * Det(Minor(M, n, 1, c), n - 1), 1..n)

Adjugate(M, n) == [p \in Pairs(n, n) |-> (-1)^(p[1] + p[2]) * Det(Minor(M, n, p[2], p[1]), n - 1)]

Sigma(E) ==
  [p \in Pairs(N, N) |-> MapThenSumSet(LAMBDA k : Lower(E)[<<p[1], k>>] * Lower(E)[<<p[2], k>>], 1..N)]

(* How many vectors the density is over: none when y or mu is empty. *)
Terms == IF SizeMvt(y) = 0 \/ SizeMvt(mu) = 0 THEN 0 ELSE SizeVec

(* Sum over the terms of (y_s - mu_s)' Sigma^-1 (y_s - mu_s). *)
Q(yx, mux, E) ==
  LET A == Adjugate(Sigma(E), N)
      d(s) == [k \in 1..N |-> View(yx, s)[k] - View(mux, s)[k]]
  IN  MapThenSumSet(LAMBDA s : Dot(d(s), MatVec(A, d(s))), 1..Terms)

Bump(x, s, k, delta) == [x EXCEPT !.v[s][k] = @ + delta]

Partial(p, s, k) == IF p = <<>> THEN 0 ELSE p[s][k]

(* What multi_normal_cholesky_lpdf returns agrees with the density of the *)
(* documented Sigma = L L': the value (without the NEG_LOG_SQRT_TWO_PI    *)
(* and log-diagonal terms, or only the terms that depend on a var when    *)
(* propto), and the partials of y, mu and L's entries below the diagonal. *)
(* logp is quadratic in each of these, so the central difference of the   *)
(* reference is its exact derivative.  The partials of a broadcast y or   *)
(* mu sum every element's contribution into its one shared slot, and the  *)
(* L-data branch (substitution) and the L-var branch (inv(L)) agree.      *)
LpdfCorrect ==
  pc = "returned" =>
    /\ lc = IF propto THEN 0 ELSE N * Terms
    /\ lq = IF Included THEN Q(y, mu, L.e) ELSE 0
    /\ yVar =>
         \A s \in 1..SizeMvt(y), k \in 1..N :
           4 * Partial(pY, s, k) = Q(Bump(y, s, k, -1), mu, L.e) - Q(Bump(y, s, k, 1), mu, L.e)
    /\ muVar =>
         \A s \in 1..SizeMvt(mu), k \in 1..N :
           4 * Partial(pMu, s, k) = Q(y, Bump(mu, s, k, -1), L.e) - Q(y, Bump(mu, s, k, 1), L.e)
    /\ lVar /\ Terms > 0 =>
         \A p \in Below(N, N) :
           4 * pL[p] = Q(y, mu, [L.e EXCEPT ![p] = @ - 1]) - Q(y, mu, [L.e EXCEPT ![p] = @ + 1])

=============================================================================
