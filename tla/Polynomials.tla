---------------------------- MODULE Polynomials ----------------------------
(***************************************************************************)
(* The polynomials of polys/: equality and power polynomials, dense        *)
(* multilinear polynomials that know how far each half is not zero, sparse *)
(* ones, and univariate ones with their compressed form.  Field elements   *)
(* are the naturals below the prime P, vectors functions on 0 .. n - 1, a  *)
(* point a sequence, its first coordinate the top bit of an index.         *)
(***************************************************************************)
EXTENDS Dimensions, Sequences

CONSTANT P    \* the characteristic of the field

ASSUME PAssumption ==
  P \in Nat /\ P > 3 /\ \A d \in 2 .. P - 1 : P % d # 0

Field == 0 .. P - 1
Plus(a, b) == (a + b) % P
Minus(a, b) == (a + P - b) % P
Times(a, b) == (a * b) % P
Double(a) == Plus(a, a)
Invert(a) == CHOOSE b \in Field : Times(a, b) = 1
Half == Invert(2)
Vectors(n) == [0 .. n - 1 -> Field]

Size(v) == LET d == DOMAIN v IN IF d = {} THEN 0 ELSE 1 + CHOOSE m \in d : m + 1 \notin d

(* Sum and product of a vector. *)
SumOf(v) ==
  LET s[k \in 0 .. Size(v)] == IF k = 0 THEN 0 ELSE Plus(s[k - 1], v[k - 1]) IN s[Size(v)]
ProductOf(v) ==
  LET s[k \in 0 .. Size(v)] == IF k = 0 THEN 1 ELSE Times(s[k - 1], v[k - 1]) IN s[Size(v)]

(* One vector and a multiple of another. *)
Scaled(v, w, r) == [i \in DOMAIN v |-> Plus(v[i], Times(r, w[i]))]

(* Bit k of the l-bit index i, from the top; the definition of a            *)
(* multilinear extension.                                                   *)
Bit(i, l, k) == (i \div PowerOfTwo[l - k]) % 2
Extension(f, point) ==
  LET l == Len(point)
      chi(i) == ProductOf([k \in 0 .. l - 1 |->
                            IF Bit(i, l, k + 1) = 1 THEN point[k + 1] ELSE Minus(1, point[k + 1])])
  IN  SumOf([i \in 0 .. PowerOfTwo[l] - 1 |-> Times(f[i], chi(i))])

-----------------------------------------------------------------------------
(* eq.rs and power.rs *)

EqEvaluate(r, rx) ==
  ProductOf([i \in 0 .. Len(rx) - 1 |->
              Plus(Times(rx[i + 1], r[i + 1]), Times(Minus(1, rx[i + 1]), Minus(1, r[i + 1])))])

(* The table of a point doubles with every coordinate, and each coordinate  *)
(* takes the top bit; EqTables keeps the table after every one of them.     *)
Doubled(table, tau) ==
  LET n == Size(table)
      upper(i) == Times(table[i], tau)
  IN  [i \in 0 .. 2 * n - 1 |->
        IF i < n THEN Minus(table[i], upper(i)) ELSE upper(i - n)]

EqTables(taus) ==
  LET t[k \in 0 .. Len(taus)] ==
        IF k = 0 THEN [i \in {0} |-> 1] ELSE Doubled(t[k - 1], taus[k])
  IN  t

Reversed(s) == [i \in 1 .. Len(s) |-> s[Len(s) + 1 - i]]
EvalsFromPoints(r) == EqTables(Reversed(r))[Len(r)]

Power(t, n) == ProductOf([k \in 0 .. n - 1 |-> t])

PowEvaluate(t, r) ==
  LET l == Len(r)
  IN  ProductOf([i \in 0 .. l - 1 |-> Plus(1, Times(Minus(Power(t, PowerOfTwo[i]), 1), r[l - i]))])

(* split_evals: the left and the right vector. *)
SplitEvals(t, len_left, len_right) ==
  <<[i \in 0 .. len_left - 1 |-> Power(t, i)],
    [i \in 0 .. len_right - 1 |-> Power(Power(t, len_left), i)]>>

-----------------------------------------------------------------------------
(* multilinear.rs: [Z, lo_eff, hi_eff]; a length beyond the half means that *)
(* nothing is known.                                                        *)

Multilinear(Z, lo, hi) == [Z |-> Z, lo_eff |-> lo, hi_eff |-> hi]

HalfLen(p) == Size(p.Z) \div 2
Lo(p) == LeastOf(p.lo_eff, HalfLen(p))
Hi(p) == LeastOf(p.hi_eff, HalfLen(p))
EffPairs(p) == GreatestOf(Lo(p), Hi(p))

(* Fault: the next upper half is taken to be zero. *)
FaultyNextEff(eff, n) == <<LeastOf(eff, n \div 2), 0>>

(* The non-zero prefix of the bound polynomial, split at its own middle.    *)
NextEff(eff, n) ==
  <<LeastOf(eff, n \div 2), IF eff > n \div 2 THEN eff - n \div 2 ELSE 0>>

(* bind_poly_var_top: an index past the shorter prefix is only scaled, and  *)
(* one past both is kept as it is.                                          *)
BindPolyVarTop(p, r) ==
  LET n == HalfLen(p)
      lo == Lo(p)
      hi == Hi(p)
      low(i) == p.Z[i]
      high(i) == p.Z[n + i]
      next == NextEff(EffPairs(p), n)
  IN  Multilinear(
        [i \in 0 .. n - 1 |->
           IF i < lo /\ i < hi THEN Plus(low(i), Times(r, Minus(high(i), low(i))))
           ELSE IF i < lo THEN Times(low(i), Minus(1, r))
           ELSE IF i < hi THEN Times(r, high(i))
           ELSE low(i)],
        next[1], next[2])

(* SparsePolynomial::evaluate: the leading coordinates contribute 1 - r. *)
SparseDropped(num_vars, Z) == num_vars - 1 - Log2(NextPowerOfTwo(Size(Z)))
SparseEvaluate(num_vars, Z, r) ==
  LET dropped == SparseDropped(num_vars, Z)
      chis == EvalsFromPoints(SubSeq(r, dropped + 1, num_vars))
  IN  Times(ProductOf([i \in 0 .. dropped - 1 |-> Minus(1, r[i + 1])]),
            SumOf([i \in 0 .. Size(Z) - 1 |-> Times(Z[i], chis[i])]))

-----------------------------------------------------------------------------
(* univariate.rs: coefficients, constant term first *)

FromEvalsDeg2(e) ==
  LET c == e[1]
      a == Times(Plus(Minus(e[1], Double(e[2])), e[3]), Half)
  IN  <<c, Minus(Minus(e[2], c), a), a>>

FromEvalsDeg3(e) ==
  LET triple(x) == Plus(Double(x), x)
      d == e[1]
      delta3 == Minus(Plus(Minus(e[4], triple(e[3])), triple(e[2])), e[1])
      a == Times(delta3, Invert(6 % P))
      delta2 == Plus(Minus(e[3], Double(e[2])), e[1])
      b == Minus(Times(delta2, Half), triple(a))
  IN  <<d, Minus(Minus(Minus(e[2], d), b), a), b, a>>

FromEvals(e) == IF Len(e) = 3 THEN FromEvalsDeg2(e) ELSE FromEvalsDeg3(e)

Evaluate(coeffs, r) ==
  SumOf([k \in 0 .. Len(coeffs) - 1 |-> Times(coeffs[k + 1], Power(r, k))])

(* The linear term is left out and found again from the claim. *)
Compress(coeffs) == <<coeffs[1]>> \o SubSeq(coeffs, 3, Len(coeffs))
Decompress(compressed, hint) ==
  LET linear == Minus(Minus(hint, Double(compressed[1])),
                      SumOf([k \in 0 .. Len(compressed) - 2 |-> compressed[k + 2]]))
  IN  <<compressed[1], linear>> \o Tail(compressed)

=============================================================================
