------------------------------ MODULE SumCheck ------------------------------
(***************************************************************************)
(* The sum-check provers of sumcheck.rs and the inner rounds the provers   *)
(* run by hand, against the claim the verifier keeps.  A job is one        *)
(* instance of a protocol, over tables whose first coordinate is bound     *)
(* first:                                                                  *)
(*   "cubic"     eq(taus, x) (A(x) B(x) - C(x)), three tables, the zero    *)
(*               check of the single-circuit prover and the relaxed one    *)
(*   "zk_cubic"  the same with the first round of a known zero check       *)
(*   "power"     pow(t, x) (A(x) B(x) - C(x)), the outer sum of a batch    *)
(*   "inner"     A(x) B(x), halves with known zero tails                   *)
(*   "compact"   A(x) B(x), upper halves cut to num_extra entries          *)
(***************************************************************************)
EXTENDS Polynomials

CONSTANTS
  Jobs,         \* [kind, taus, t, A, B, C, num_extra] and the zero tails
  Challenges    \* the challenges a round may answer

ASSUME Challenges \subseteq Field

VARIABLES
  job,      \* what is proved
  A, B, C,  \* the tables, bound to the challenges so far
  scale,    \* the bound part of eq(taus, .) or pow(t, .)
  claim,    \* the prover's claim for the rounds to come
  e,        \* the verifier's
  r         \* the challenges

vars == <<job, A, B, C, scale, claim, e, r>>

l == Log2(job.size)
round == Len(r)             \* the rounds done
half == HalfLen(A)

Unknown == 2 ^ 30           \* usize::MAX: nothing is known about the zeros

HasEq == job.kind \in {"cubic", "zk_cubic"}
IsCubic == HasEq \/ job.kind = "power"
Interactive == job.kind \in {"cubic", "compact"}   \* compressed polynomials are sent

-----------------------------------------------------------------------------
(* The reference: what is summed, as a function of the point.               *)

Weight(point) ==
  CASE HasEq -> EqEvaluate(job.taus, point)
    [] job.kind = "power" -> PowEvaluate(job.t, point)
    [] OTHER -> 1

Summand(point) ==
  LET a == Extension(job.A, point)
      b == Extension(job.B, point)
  IN  IF IsCubic THEN Times(Weight(point), Minus(Times(a, b), Extension(job.C, point)))
      ELSE Times(a, b)

Corner(i, n) == [k \in 1 .. n |-> Bit(i, n, k)]

SumFrom(prefix) ==
  LET n == l - Len(prefix)
  IN  SumOf([i \in 0 .. 2 ^ n - 1 |-> Summand(prefix \o Corner(i, n))])

-----------------------------------------------------------------------------
(* EqSumCheckInstance *)

first_half == l \div 2
second_half == l - first_half

(* The tables of the two halves of taus; the first tau is in no table, the  *)
(* factor of a bound coordinate is in scale.                                *)
poly_eq_left == EqTables(Reversed(SubSeq(job.taus, 2, first_half)))
poly_eq_right == EqTables(Reversed(SubSeq(job.taus, first_half + 1, l)))

(* The weight of the pair id among the coordinates after the current one;   *)
(* the code's round counter starts at 1.                                    *)
EqWeight(id) ==
  IF round + 1 < first_half
    THEN Times(poly_eq_left[first_half - round - 1][id \div 2 ^ second_half],
               poly_eq_right[second_half][id % 2 ^ second_half])
    ELSE poly_eq_right[l - round - 1][id]

tau == job.taus[round + 1]
EqAt0 == Minus(1, tau)
EqSlope == Minus(tau, EqAt0)
EqAtMinus1 == Minus(EqAt0, EqSlope)

TAt0 == SumOf([i \in 0 .. half - 1 |->
          Times(EqWeight(i), Minus(Times(A.Z[i], B.Z[i]), C.Z[i]))])
TLeading == SumOf([i \in 0 .. half - 1 |->
              Times(EqWeight(i), Times(Minus(A.Z[half + i], A.Z[i]),
                                       Minus(B.Z[half + i], B.Z[i])))])
TAtMinus1 ==
  LET back(T, i) == Minus(Double(T.Z[i]), T.Z[half + i])
  IN  SumOf([i \in 0 .. half - 1 |->
        Times(EqWeight(i), Minus(Times(back(A, i), back(B, i)), back(C, i)))])

(* The evaluations at 0, 1, 2 and 3 of l(X) t(X), with l the linear factor  *)
(* of this coordinate: from t(0), the leading coefficient and t(-1).        *)
FromMinus1(t_0, t_inf, t_m1) ==
  LET s_0 == Times(Times(EqAt0, scale), t_0)
      s_1 == Minus(claim, s_0)
      lead == Times(Times(EqSlope, scale), t_inf)
      s_m1 == Times(Times(EqAtMinus1, scale), t_m1)
      c1 == Minus(Times(Minus(s_1, s_m1), Half), lead)
      c2 == Minus(Times(Plus(s_1, s_m1), Half), s_0)
      at(x) == Plus(s_0, Times(x, Plus(c1, Times(x, Plus(c2, Times(x, lead))))))
  IN  <<s_0, s_1, at(2), at(3)>>

(* t(-1) is derived from the claim, unless l(1) = 0.                        *)
Derivable == Times(tau, scale) # 0
DerivedMinus1(t_0, t_inf) ==
  LET t_1 == Times(Minus(claim, Times(Times(EqAt0, scale), t_0)), Invert(Times(tau, scale)))
  IN  Minus(Plus(Double(t_inf), Double(t_0)), t_1)

(* Fault: a factor that is zero is inverted as if it were one. *)
FaultyCubicEvals ==
  LET t_1 == IF Derivable THEN Invert(Times(tau, scale)) ELSE 1
  IN  FromMinus1(TAt0, TLeading,
        Minus(Plus(Double(TLeading), Double(TAt0)),
              Times(Minus(claim, Times(Times(EqAt0, scale), TAt0)), t_1)))

(* evaluation_points_cubic_with_three_inputs *)
CubicEvals ==
  FromMinus1(TAt0, TLeading,
             IF Derivable THEN DerivedMinus1(TAt0, TLeading) ELSE TAtMinus1)

(* evaluation_points_zero_check_round0: C is not read. *)
ZeroCheckEvals ==
  FromMinus1(0, TLeading,
             IF Derivable THEN DerivedMinus1(0, TLeading) ELSE Double(TLeading))

-----------------------------------------------------------------------------
(* prove_cubic_with_additive_term_batched_zk: the powers are the outer      *)
(* product of two vectors that are never bound.                             *)

PowLeft == TensorLeft(job.size)
PowRight == TensorRight(job.size)
PowAt(i) ==
  LET v == SplitEvals(job.t, PowLeft, PowRight)
  IN  Times(v[1][i % PowLeft], v[2][i \div PowLeft])

PowerEvals ==
  LET at(x) == SumOf([i \in 0 .. half - 1 |->
        LET line(low, high) == Plus(low, Times(x, Minus(high, low)))
            w == line(IF half < PowLeft
                        THEN SplitEvals(job.t, PowLeft, PowRight)[1][i] ELSE PowAt(i),
                      IF half < PowLeft
                        THEN SplitEvals(job.t, PowLeft, PowRight)[1][half + i]
                        ELSE PowAt(half + i))
            of(T) == line(T.Z[i], T.Z[half + i])
        IN  Times(w, Minus(Times(of(A), of(B)), of(C)))])
      scaled(x) == Times(scale, at(x))
  IN  <<scaled(0), Minus(claim, scaled(0)), scaled(2), scaled(3)>>

-----------------------------------------------------------------------------
(* The inner rounds *)

(* eval_2 = 2 claim - 3 eval_0 + 2 t_inf *)
QuadFrom(eval_0, t_inf) ==
  <<eval_0, Minus(claim, eval_0),
    Plus(Minus(Double(claim), Plus(Double(eval_0), eval_0)), Double(t_inf))>>

(* compute_eval_points_quad: pairs that are zero in one table are skipped.  *)
QuadEvals ==
  LET len == LeastOf(LeastOf(EffPairs(A), EffPairs(B)), half)
  IN  QuadFrom(SumOf([i \in 0 .. len - 1 |-> Times(A.Z[i], B.Z[i])]),
               SumOf([i \in 0 .. len - 1 |->
                       Times(Minus(A.Z[half + i], A.Z[i]), Minus(B.Z[half + i], B.Z[i]))]))

(* The round by hand: the upper halves hold num_extra entries, and the rest *)
(* of the leading coefficient is what eval_0 has beyond them.               *)
num_vars == 2 ^ (l - 1)
CompactEvals ==
  LET eval_0 == SumOf([i \in 0 .. num_vars - 1 |-> Times(A.Z[i], B.Z[i])])
      low == SumOf([i \in 0 .. job.num_extra - 1 |-> Times(A.Z[i], B.Z[i])])
      cross == SumOf([i \in 0 .. job.num_extra - 1 |->
                 Times(Minus(A.Z[num_vars + i], A.Z[i]), Minus(B.Z[num_vars + i], B.Z[i]))])
  IN  QuadFrom(eval_0, Plus(Minus(eval_0, low), cross))

ByHand == job.kind = "compact" /\ round = 0

(* Fault: the entries past num_extra are left as they are. *)
FaultyFusedBind(T, r_i) ==
  Multilinear([i \in 0 .. num_vars - 1 |->
                 IF i < job.num_extra
                   THEN Plus(T.Z[i], Times(r_i, Minus(T.Z[num_vars + i], T.Z[i])))
                   ELSE T.Z[i]],
              Unknown, Unknown)

FusedBind(T, r_i) ==
  Multilinear([i \in 0 .. num_vars - 1 |->
                 IF i < job.num_extra
                   THEN Plus(T.Z[i], Times(r_i, Minus(T.Z[num_vars + i], T.Z[i])))
                   ELSE Times(T.Z[i], Minus(1, r_i))],
              Unknown, Unknown)

-----------------------------------------------------------------------------
(* What the prover sends in the next round. *)
RoundPoly ==
  FromEvals(CASE job.kind = "zk_cubic" /\ round = 0 -> ZeroCheckEvals
              [] HasEq /\ ~(job.kind = "zk_cubic" /\ round = 0) -> CubicEvals
              [] job.kind = "power" -> PowerEvals
              [] ByHand -> CompactEvals
              [] OTHER -> QuadEvals)

(* What the verifier computes with: the polynomial it decompresses with its *)
(* own claim, or the coefficients given to the verifier circuit.            *)
Received(poly) == IF Interactive THEN Decompress(Compress(poly), e) ELSE poly

BindTable(T, r_i) == IF ByHand THEN FusedBind(T, r_i) ELSE BindPolyVarTop(T, r_i)

(* bound, and the update of base_tau. *)
FactorAt(r_i) ==
  CASE HasEq -> Plus(Minus(Minus(1, tau), r_i), Double(Times(r_i, tau)))
    [] job.kind = "power" -> Plus(Times(Minus(PowAt(half), 1), r_i), 1)
    [] OTHER -> 1

(* The tables as a prover builds them. *)
Table(Z, j) ==
  IF j.kind = "compact"
    THEN [i \in 0 .. j.size \div 2 + j.num_extra - 1 |-> Z[i]] ELSE Z

InitClaim == SumFrom(<<>>)

Init ==
  /\ job \in Jobs
  /\ A = Multilinear(Table(job.A, job), job.A_lo, job.A_hi)
  /\ B = Multilinear(Table(job.B, job), job.B_lo, job.B_hi)
  /\ C = Multilinear(job.C, Unknown, Unknown)
  /\ scale = 1
  /\ r = <<>>
  /\ claim = InitClaim /\ e = InitClaim

Round ==
  /\ round < l
  /\ \E r_i \in Challenges :
       LET poly == RoundPoly
       IN  /\ claim' = Evaluate(poly, r_i)
           /\ e' = Evaluate(Received(poly), r_i)
           /\ A' = BindTable(A, r_i)
           /\ B' = BindTable(B, r_i)
           /\ C' = IF IsCubic THEN BindPolyVarTop(C, r_i) ELSE C
           /\ scale' = Times(scale, FactorAt(r_i))
           /\ r' = Append(r, r_i)
           /\ UNCHANGED job

Next == Round

Spec == Init /\ [][Next]_vars

-----------------------------------------------------------------------------
(* RoundPolynomials: whatever shortcut a prover takes (a derived point, a   *)
(* skipped zero check, a zero tail, powers that are never bound, a first    *)
(* round by hand), the polynomial of a round takes at 0, 1, 2 and 3 the     *)
(* values of the sum it stands for, also when a tau or the bound factor is  *)
(* zero.                                                                    *)
RoundPolynomials ==
  round < l =>
    LET poly == RoundPoly
    IN  \A x \in 0 .. 3 : Evaluate(poly, x) = SumFrom(Append(r, x))

(* ZeroPrefixes: the entries a table claims to be zero are zero after every *)
(* binding, so nothing is skipped that counts.                              *)
ZeroPrefixes ==
  \A T \in IF ByHand THEN {} ELSE {A, B} :
    \A i \in 0 .. HalfLen(T) - 1 :
      /\ i >= T.lo_eff => T.Z[i] = 0
      /\ i >= T.hi_eff => T.Z[HalfLen(T) + i] = 0

(* eval_X is found from 1 and the public values alone, eval_W from it.      *)
EvalX == SparseEvaluate(l - 1, [i \in 0 .. job.num_extra - 1 |-> job.B[num_vars + i]], Tail(r))
EvalW == Times(Minus(B.Z[0], Times(r[1], EvalX)), Invert(Minus(1, r[1])))
WitnessHalf == [i \in 0 .. num_vars - 1 |-> job.B[i]]

(* FinalClaims: after the last round the verifier's claim is the summand at *)
(* the point of the challenges, computed from the bound tables and factor;  *)
(* those are the evaluations at that point, and in an inner sum the         *)
(* evaluation of the witness recovered from the assignment's and the public *)
(* values' is the witness polynomial's own.                                 *)
FinalClaims ==
  round = l =>
    /\ A.Z[0] = Extension(job.A, r) /\ B.Z[0] = Extension(job.B, r)
    /\ scale = Weight(r)
    /\ e = IF IsCubic THEN Times(scale, Minus(Times(A.Z[0], B.Z[0]), C.Z[0]))
           ELSE Times(A.Z[0], B.Z[0])
    /\ job.num_extra > 0 /\ r[1] # 1 => EvalW = Extension(WitnessHalf, Tail(r))

=============================================================================
