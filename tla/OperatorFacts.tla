--------------------------- MODULE OperatorFacts ----------------------------
(***************************************************************************)
(* Facts about the operators the models are built from, for all arguments: *)
(* powers of two, their logarithms and a length cut into rows              *)
(* (Dimensions); what answers of the random oracle depend on, and that an  *)
(* exchange made again gives the same challenges (Transcript); what        *)
(* process_round appends and commits to and what the finalized public      *)
(* input consists of (MultiRound); arithmetic modulo P, sums of vectors,   *)
(* and vectors seen as multilinear polynomials (Polynomials); what a       *)
(* channel has seen and that a channel that knows more gives the same      *)
(* challenges (Channel).  The proofs about the modules that use these      *)
(* operators cite them.                                                    *)
(***************************************************************************)
EXTENDS MultiRound, Channel, R1CS, Integers, WellFoundedInduction, SequenceTheorems, TLAPS

(* Induction over the natural numbers for a set: the induction theorems of  *)
(* the library are for an operator.                                         *)
LEMMA NatSetInduction ==
  ASSUME NEW S, 0 \in S, \A n \in Nat : n \in S => n + 1 \in S
  PROVE  \A n \in Nat : n \in S
  <1> DEFINE T == {n \in Nat : n \notin S}
  <1>1. SUFFICES ASSUME T # {} PROVE FALSE
    OBVIOUS
  <1>2. PICK m \in T : \A k \in T : <<k, m>> \notin OpToRel(<, Nat)
    <2>1. T \subseteq Nat
      OBVIOUS
    <2> QED
      BY <1>1, <2>1, WFMin, NatLessThanWellFounded, Zenon
  <1>3. \A k \in T : ~ (k < m)
    BY <1>2, Zenon DEF OpToRel
  <1>4. m # 0 /\ m \in Nat
    OBVIOUS
  <1>5. m - 1 \in Nat /\ m - 1 < m /\ m = (m - 1) + 1
    BY <1>4
  <1>6. m - 1 \in S
    BY <1>3, <1>5
  <1> QED
    BY <1>4, <1>5, <1>6

-----------------------------------------------------------------------------
(* Powers of two *)

(* g is the table of the powers of two up to the n-th. *)
Doubles(g, n) == g = [k \in 0 .. n |-> IF k = 0 THEN 1 ELSE 2 * g[k - 1]]

(* Such a table exists for every length. *)
LEMMA TablesExist == \A n \in Nat : \E g : Doubles(g, n)
  <1> DEFINE S == {n \in Nat : \E g : Doubles(g, n)}
  <1>1. 0 \in S
    <2>1. Doubles([k \in 0 .. 0 |-> 1], 0)
      BY DEF Doubles
    <2> QED
      BY <2>1
  <1>2. ASSUME NEW n \in Nat, n \in S PROVE n + 1 \in S
    <2>1. PICK g : Doubles(g, n)
      BY <1>2
    <2> DEFINE h == [k \in 0 .. n + 1 |-> IF k = n + 1 THEN 2 * g[n] ELSE g[k]]
    <2>2. ASSUME NEW k \in 0 .. n + 1
          PROVE  h[k] = IF k = 0 THEN 1 ELSE 2 * h[k - 1]
      <3>1. CASE k = n + 1
        BY <3>1
      <3>2. CASE k # n + 1
        <4>1. k \in 0 .. n
          BY <3>2
        <4>2. g[k] = IF k = 0 THEN 1 ELSE 2 * g[k - 1]
          BY <2>1, <4>1 DEF Doubles
        <4>3. h[k] = g[k] /\ (k # 0 => h[k - 1] = g[k - 1])
          BY <4>1
        <4> QED
          BY <4>2, <4>3
      <3> QED
        BY <3>1, <3>2
    <2>3. Doubles(h, n + 1)
      BY <2>2 DEF Doubles
    <2> QED
      BY <2>3
  <1> HIDE DEF S
  <1>3. \A n \in Nat : n \in S
    BY <1>1, <1>2, NatSetInduction
  <1> QED
    BY <1>3 DEF S

(* Two tables agree as far as both go. *)
LEMMA TablesAgree ==
  ASSUME NEW n \in Nat, NEW m \in Nat, NEW g, NEW h, Doubles(g, n), Doubles(h, m)
  PROVE  \A k \in Nat : k <= n /\ k <= m => g[k] = h[k]
  <1> DEFINE S == {k \in Nat : k <= n /\ k <= m => g[k] = h[k]}
  <1>0. /\ \A k \in 0 .. n : g[k] = IF k = 0 THEN 1 ELSE 2 * g[k - 1]
        /\ \A k \in 0 .. m : h[k] = IF k = 0 THEN 1 ELSE 2 * h[k - 1]
    BY DEF Doubles
  <1>1. 0 \in S
    BY <1>0
  <1>2. ASSUME NEW k \in Nat, k \in S PROVE k + 1 \in S
    <2>1. SUFFICES ASSUME k + 1 <= n, k + 1 <= m PROVE g[k + 1] = h[k + 1]
      OBVIOUS
    <2>2. g[k] = h[k] /\ k + 1 \in 0 .. n /\ k + 1 \in 0 .. m /\ (k + 1) - 1 = k /\ k + 1 # 0
      BY <1>2, <2>1
    <2> QED
      BY <1>0, <2>2
  <1> HIDE DEF S
  <1>3. \A k \in Nat : k \in S
    BY <1>1, <1>2, NatSetInduction
  <1> QED
    BY <1>3 DEF S

(* The recursive definition of PowerOfTwo defines a function. *)
LEMMA PowerUnfolds ==
  PowerOfTwo = [k \in Nat |-> IF k = 0 THEN 1 ELSE 2 * PowerOfTwo[k - 1]]
  <1> DEFINE table == [n \in Nat |-> CHOOSE g : Doubles(g, n)]
             f == [n \in Nat |-> table[n][n]]
  <1>1. ASSUME NEW n \in Nat PROVE Doubles(table[n], n)
    BY TablesExist
  <1>2. ASSUME NEW k \in Nat PROVE f[k] = IF k = 0 THEN 1 ELSE 2 * f[k - 1]
    <2>1. table[k][k] = IF k = 0 THEN 1 ELSE 2 * table[k][k - 1]
      <3>1. Doubles(table[k], k)
        BY <1>1
      <3> HIDE DEF table
      <3> QED
        BY <3>1 DEF Doubles
    <2>2. CASE k = 0
      BY <2>1, <2>2
    <2>3. CASE k # 0
      <3>1. k - 1 \in Nat /\ k - 1 <= k
        BY <2>3
      <3>2. Doubles(table[k], k) /\ Doubles(table[k - 1], k - 1)
        BY <1>1, <3>1
      <3>3. table[k][k - 1] = table[k - 1][k - 1]
        <4> HIDE DEF table
        <4> QED
          BY <3>1, <3>2, TablesAgree
      <3> QED
        BY <2>1, <2>3, <3>1, <3>3
    <2> QED
      BY <2>2, <2>3
  <1>3. f = [k \in Nat |-> IF k = 0 THEN 1 ELSE 2 * f[k - 1]]
    <2>1. f = [k \in Nat |-> f[k]]
      OBVIOUS
    <2> HIDE DEF f
    <2> QED
      BY <1>2, <2>1
  <1>4. \E p : p = [k \in Nat |-> IF k = 0 THEN 1 ELSE 2 * p[k - 1]]
    BY <1>3
  <1> QED
    BY <1>4, Zenon DEF PowerOfTwo

(* The first power, the next one, and a bound. *)
LEMMA PowerFacts ==
  /\ PowerOfTwo[0] = 1
  /\ \A k \in Nat : PowerOfTwo[k + 1] = 2 * PowerOfTwo[k]
  /\ \A k \in Nat : PowerOfTwo[k] \in Nat /\ PowerOfTwo[k] > k
  <1> DEFINE S == {k \in Nat : PowerOfTwo[k] \in Nat /\ PowerOfTwo[k] > k}
  <1>1. PowerOfTwo[0] = 1
    BY PowerUnfolds
  <1>2. ASSUME NEW k \in Nat PROVE PowerOfTwo[k + 1] = 2 * PowerOfTwo[k]
    <2>1. k + 1 \in Nat /\ k + 1 # 0 /\ (k + 1) - 1 = k
      OBVIOUS
    <2> QED
      BY <2>1, PowerUnfolds
  <1>3. 0 \in S
    BY <1>1
  <1>4. ASSUME NEW k \in Nat, k \in S PROVE k + 1 \in S
    BY <1>2, <1>4
  <1> HIDE DEF S
  <1>5. \A k \in Nat : k \in S
    BY <1>3, <1>4, NatSetInduction
  <1> QED
    BY <1>1, <1>2, <1>5 DEF S

(* The powers of two increase. *)
LEMMA PowerIncreases ==
  ASSUME NEW j \in Nat, NEW k \in Nat, j < k
  PROVE  PowerOfTwo[j] < PowerOfTwo[k]
  <1> DEFINE S == {d \in Nat : PowerOfTwo[j] < PowerOfTwo[j + 1 + d]}
  <1>1. 0 \in S
    <2>1. PowerOfTwo[j + 1] = 2 * PowerOfTwo[j] /\ PowerOfTwo[j] \in Nat /\ PowerOfTwo[j] > j
      BY PowerFacts
    <2> QED
      BY <2>1
  <1>2. ASSUME NEW d \in Nat, d \in S PROVE d + 1 \in S
    <2>1. j + 1 + d \in Nat /\ (j + 1 + d) + 1 = j + 1 + (d + 1)
      OBVIOUS
    <2>2. /\ PowerOfTwo[(j + 1 + d) + 1] = 2 * PowerOfTwo[j + 1 + d]
          /\ PowerOfTwo[j] \in Nat /\ PowerOfTwo[j + 1 + d] \in Nat
      BY <2>1, PowerFacts
    <2> QED
      BY <1>2, <2>1, <2>2
  <1> HIDE DEF S
  <1>3. \A d \in Nat : d \in S
    BY <1>1, <1>2, NatSetInduction
  <1>4. k - j - 1 \in Nat /\ j + 1 + (k - j - 1) = k
    OBVIOUS
  <1> QED
    BY <1>3, <1>4 DEF S

(* There is a logarithm: Log2 rounds up. *)
LEMMA Logarithm ==
  ASSUME NEW n \in Nat
  PROVE  /\ Log2(n) \in 0 .. n
         /\ n <= PowerOfTwo[Log2(n)]
         /\ Log2(n) = 0 \/ PowerOfTwo[Log2(n) - 1] < n
  <1> DEFINE T == {k \in Nat : n <= PowerOfTwo[k]}
  <1>1. n \in T
    BY PowerFacts
  <1>2. PICK k \in T : \A j \in T : <<j, k>> \notin OpToRel(<, Nat)
    <2>1. T \subseteq Nat /\ T # {}
      BY <1>1
    <2> QED
      BY <2>1, WFMin, NatLessThanWellFounded, Zenon
  <1>3. \A j \in T : ~ (j < k)
    BY <1>2, Zenon DEF OpToRel
  <1>4. k \in 0 .. n
    BY <1>1, <1>3
  <1>5. k = 0 \/ PowerOfTwo[k - 1] < n
    <2>1. SUFFICES ASSUME k # 0 PROVE PowerOfTwo[k - 1] < n
      OBVIOUS
    <2>2. k - 1 \in Nat /\ k - 1 < k
      BY <2>1, <1>4
    <2>3. k - 1 \notin T /\ PowerOfTwo[k - 1] \in Nat
      BY <2>2, <1>3, PowerFacts
    <2> QED
      BY <2>2, <2>3
  <1>6. \E e \in 0 .. n : n <= PowerOfTwo[e] /\ (e = 0 \/ PowerOfTwo[e - 1] < n)
    BY <1>4, <1>5
  <1> QED
    BY <1>6, Zenon DEF Log2

(* The next power of two is at least its argument, and is its own next      *)
(* power of two.                                                            *)
THEOREM PowerOfTwoAbove ==
  ASSUME NEW n \in Nat
  PROVE  /\ NextPowerOfTwo(n) \in Nat \ {0}
         /\ NextPowerOfTwo(n) >= n
         /\ NextPowerOfTwo(NextPowerOfTwo(n)) = NextPowerOfTwo(n)
  <1> DEFINE k == Log2(n)
             m == PowerOfTwo[k]
             j == Log2(m)
  <1>1. k \in Nat /\ n <= m
    BY Logarithm
  <1>2. m \in Nat /\ m > k
    BY <1>1, PowerFacts
  <1>3. j \in Nat /\ m <= PowerOfTwo[j] /\ (j = 0 \/ PowerOfTwo[j - 1] < m)
    <2> HIDE DEF m
    <2> QED
      BY <1>2, Logarithm
  <1>4. j = k
    <2> HIDE DEF j, k
    <2>1. ~ (j < k)
      BY <1>1, <1>2, <1>3, PowerIncreases, PowerFacts
    <2>2. ~ (k < j)
      <3>1. SUFFICES ASSUME k < j PROVE FALSE
        OBVIOUS
      <3>2. j - 1 \in Nat /\ (k < j - 1 \/ k = j - 1)
        BY <1>1, <1>3, <3>1
      <3>3. PowerOfTwo[j - 1] >= m
        BY <1>1, <1>2, <3>2, PowerIncreases, PowerFacts
      <3> QED
        BY <1>2, <1>3, <3>1, <3>2, <3>3, PowerFacts
    <2> QED
      BY <2>1, <2>2, <1>1, <1>3
  <1> QED
    BY <1>1, <1>2, <1>4 DEF NextPowerOfTwo
-----------------------------------------------------------------------------
(* Rows *)

(* Division of natural numbers. *)
LEMMA Division ==
  ASSUME NEW a \in Nat, NEW b \in Nat \ {0}
  PROVE  a \div b \in Nat /\ b * (a \div b) <= a /\ a < b * (a \div b) + b
  OBVIOUS

(* Rows that cover a length: d rows of b entries do, and d - 1 do not.      *)
LEMMA CeilingIs ==
  ASSUME NEW n \in Nat, NEW b \in Nat \ {0}, NEW d \in Nat,
         n <= d * b, d * b < n + b
  PROVE  DivCeil(n, b) = d
  <1> DEFINE e == DivCeil(n, b)
  <1>1. e \in Nat /\ b * e <= n + b - 1 /\ n + b - 1 < b * e + b
    BY Division DEF DivCeil
  <1> HIDE DEF e
  <1>2. ~ (e < d)
    <2>1. SUFFICES ASSUME e < d PROVE FALSE
      OBVIOUS
    <2>2. PICK k \in Nat : d = e + 1 + k
      BY <1>1, <2>1
    <2>3. d * b = b * e + b + k * b /\ k * b \in Nat /\ b * e \in Nat
      BY <1>1, <2>2
    <2> QED
      BY <1>1, <2>3
  <1>3. ~ (d < e)
    <2>1. SUFFICES ASSUME d < e PROVE FALSE
      OBVIOUS
    <2>2. PICK k \in Nat : e = d + 1 + k
      BY <1>1, <2>1
    <2>3. b * e = d * b + b + k * b /\ k * b \in Nat /\ d * b \in Nat
      BY <2>2
    <2> QED
      BY <1>1, <2>3
  <1>4. e = d
    BY <1>1, <1>2, <1>3
  <1> QED
    BY <1>4 DEF e

(* The rows cover the length, and the last of them is not empty.            *)
LEMMA CeilingCovers ==
  ASSUME NEW n \in Nat, NEW b \in Nat \ {0}
  PROVE  /\ DivCeil(n, b) \in Nat
         /\ n <= DivCeil(n, b) * b
         /\ DivCeil(n, b) * b < n + b
  <1> DEFINE e == DivCeil(n, b)
  <1>1. e \in Nat /\ b * e <= n + b - 1 /\ n + b - 1 < b * e + b
    BY Division DEF DivCeil
  <1> HIDE DEF e
  <1>2. b * e = e * b
    BY <1>1
  <1>3. n <= e * b /\ e * b < n + b
    BY <1>1, <1>2
  <1> QED
    BY <1>1, <1>3 DEF e

(* Whole rows in front add to the number of rows. *)
LEMMA CeilingAdds ==
  ASSUME NEW q \in Nat, NEW n \in Nat, NEW b \in Nat \ {0}
  PROVE  DivCeil(q * b + n, b) = q + DivCeil(n, b)
  <1> DEFINE e == DivCeil(n, b)
  <1>1. e \in Nat /\ n <= e * b /\ e * b < n + b
    BY CeilingCovers
  <1> HIDE DEF e
  <1>2. (q + e) * b = q * b + e * b /\ q * b \in Nat /\ e * b \in Nat
    BY <1>1
  <1>3. q * b + n \in Nat /\ q + e \in Nat /\ q * b + n <= (q + e) * b /\ (q + e) * b < q * b + n + b
    BY <1>1, <1>2
  <1>4. DivCeil(q * b + n, b) = q + e
    BY <1>3, CeilingIs
  <1> QED
    BY <1>4 DEF e

-----------------------------------------------------------------------------
(* Sequences whose elements have no type *)

(* A sequence, whatever its elements are. *)
IsSequence(s) == s \in Seq(Range(s))

(* The elements and the length of a sequence. *)
LEMMA SequenceFacts ==
  ASSUME NEW s, IsSequence(s)
  PROVE  /\ Len(s) \in Nat /\ DOMAIN s = 1 .. Len(s)
         /\ Range(s) = {s[i] : i \in 1 .. Len(s)}
  <1> DEFINE A == Range(s)
  <1>1. s \in Seq(A)
    BY DEF IsSequence
  <1>2. Len(s) \in Nat /\ DOMAIN s = 1 .. Len(s)
    <2> HIDE DEF A
    <2> QED
      BY <1>1, LenProperties
  <1> QED
    BY <1>2, Zenon DEF Range

(* A function on 1 .. n is a sequence. *)
LEMMA FunctionIsSequence ==
  ASSUME NEW n \in Nat, NEW s, DOMAIN s = 1 .. n, s = [i \in 1 .. n |-> s[i]]
  PROVE  IsSequence(s) /\ Len(s) = n
  <1> DEFINE A == Range(s)
  <1>1. \A i \in 1 .. n : s[i] \in A
    BY DEF Range
  <1>2. s \in [1 .. n -> A]
    <2> HIDE DEF A
    <2> QED
      BY <1>1
  <1>3. s \in Seq(A)
    <2> HIDE DEF A
    <2> QED
      BY <1>2, SeqDef
  <1>4. Len(s) = n
    <2>1. Len(s) \in Nat /\ DOMAIN s = 1 .. Len(s)
      <3> HIDE DEF A
      <3> QED
        BY <1>3, LenProperties
    <2> QED
      BY <2>1
  <1> QED
    BY <1>3, <1>4 DEF IsSequence

(* The empty sequence. *)
LEMMA EmptyIsSequence == IsSequence(<<>>) /\ Len(<<>>) = 0 /\ Range(<<>>) = {}
  BY DEF IsSequence, Range

(* A sequence with one more element. *)
LEMMA Appended ==
  ASSUME NEW s, IsSequence(s), NEW e
  PROVE  /\ IsSequence(Append(s, e))
         /\ Len(Append(s, e)) = Len(s) + 1
         /\ \A i \in 1 .. Len(s) : Append(s, e)[i] = s[i]
         /\ Append(s, e)[Len(s) + 1] = e
         /\ Range(Append(s, e)) = Range(s) \cup {e}
  <1> DEFINE A == Range(s) \cup {e}
             t == Append(s, e)
  <1>1. s \in Seq(A)
    <2>1. Range(s) \subseteq A /\ s \in Seq(Range(s))
      BY DEF IsSequence
    <2> HIDE DEF A
    <2> QED
      BY <2>1, SeqMonotonic
  <1>2. e \in A
    OBVIOUS
  <1>3. /\ t \in Seq(A) /\ Len(t) = Len(s) + 1
        /\ \A i \in 1 .. Len(s) : t[i] = s[i]
        /\ t[Len(s) + 1] = e
    <2> HIDE DEF A
    <2> QED
      BY <1>1, <1>2, AppendProperties
  <1>4. /\ Len(s) \in Nat /\ DOMAIN s = 1 .. Len(s)
        /\ Range(s) = {s[i] : i \in 1 .. Len(s)}
    BY SequenceFacts
  <1>5. Len(t) \in Nat /\ DOMAIN t = 1 .. Len(t)
    <2> HIDE DEF A, t
    <2> QED
      BY <1>3, LenProperties
  <1>6. \A i \in 1 .. Len(t) : IF i = Len(t) THEN t[i] = e ELSE t[i] = s[i] /\ i \in 1 .. Len(s)
    <2> HIDE DEF A, t
    <2> QED
      BY <1>3, <1>4, <1>5
  <1>7. Range(t) = A
    <2>1. Range(t) = {t[i] : i \in 1 .. Len(t)}
      BY <1>5, Zenon DEF Range
    <2>2. Range(t) \subseteq A
      <3> HIDE DEF t
      <3> QED
        BY <1>4, <1>5, <1>6, <2>1
    <2>3. A \subseteq Range(t)
      <3> HIDE DEF t
      <3> QED
        BY <1>3, <1>4, <1>5, <2>1
    <2> QED
      BY <2>2, <2>3
  <1>8. IsSequence(t)
    <2> HIDE DEF A, t
    <2> QED
      BY <1>3, <1>7 DEF IsSequence
  <1> QED
    BY <1>3, <1>7, <1>8, Zenon

-----------------------------------------------------------------------------
(* The oracle *)

(* The queries are distinct, and each continues from the answer to one      *)
(* asked before, or from the start.                                         *)
OracleOK(o) ==
  /\ IsSequence(o)
  /\ \A j \in 1 .. Len(o) : o[j].state \in 0 .. j - 1
  /\ \A i, j \in 1 .. Len(o) : o[i] = o[j] => i = j

(* More queries have been asked. *)
Grown(o, p) ==
  /\ OracleOK(p)
  /\ Len(o) <= Len(p)
  /\ \A j \in 1 .. Len(o) : p[j] = o[j]

(* A transcript continues from the answer to some query. *)
TranscriptOK(t, o) ==
  /\ t = [round |-> t.round, state |-> t.state, absorbed |-> t.absorbed]
  /\ t.state \in 0 .. Len(o)
  /\ IsSequence(t.absorbed)

(* g gives the positions of the queries an answer depends on. *)
Chain(g, o, n) == g = [j \in 0 .. n |-> IF j = 0 THEN {} ELSE {j} \cup g[o[j].state]]

(* Entry by entry. *)
LEMMA ChainUnfolds ==
  ASSUME NEW g, NEW o, NEW n \in Nat, Chain(g, o, n)
  PROVE  g[0] = {} /\ \A k \in 1 .. n : g[k] = {k} \cup g[o[k].state]
  <1>1. 0 \in 0 .. n /\ \A k \in 1 .. n : k \in 0 .. n /\ k # 0
    OBVIOUS
  <1>2. \A k \in 0 .. n : g[k] = IF k = 0 THEN {} ELSE {k} \cup g[o[k].state]
    BY Zenon DEF Chain
  <1> QED
    BY <1>1, <1>2, Zenon

(* There are chains of every length. *)
LEMMA ChainsExist ==
  ASSUME NEW o, OracleOK(o)
  PROVE  \A n \in Nat : n <= Len(o) => \E g : Chain(g, o, n)
  <1> DEFINE S == {n \in Nat : n <= Len(o) => \E g : Chain(g, o, n)}
  <1>0. Len(o) \in Nat
    BY SequenceFacts DEF OracleOK
  <1>1. 0 \in S
    <2>1. Chain([j \in 0 .. 0 |-> {}], o, 0)
      BY DEF Chain
    <2> QED
      BY <2>1
  <1>2. ASSUME NEW n \in Nat, n \in S PROVE n + 1 \in S
    <2> SUFFICES ASSUME n + 1 <= Len(o) PROVE \E g : Chain(g, o, n + 1)
      OBVIOUS
    <2>1. PICK g : Chain(g, o, n)
      BY <1>0, <1>2
    <2>2. \A j \in 1 .. n + 1 : o[j].state \in 0 .. j - 1
      BY <1>0 DEF OracleOK
    <2> DEFINE h == [j \in 0 .. n + 1 |->
                       IF j = n + 1 THEN {j} \cup g[o[j].state] ELSE g[j]]
    <2>3. ASSUME NEW j \in 0 .. n + 1
          PROVE  h[j] = IF j = 0 THEN {} ELSE {j} \cup h[o[j].state]
      <3>1. CASE j = n + 1
        <4>1. o[j].state \in 0 .. n
          BY <2>2, <3>1
        <4> QED
          BY <3>1, <4>1
      <3>2. CASE j # n + 1
        <4>1. j \in 0 .. n /\ (j # 0 => o[j].state \in 0 .. n)
          BY <2>2, <3>2
        <4>2. g[j] = IF j = 0 THEN {} ELSE {j} \cup g[o[j].state]
          BY <2>1, <4>1 DEF Chain
        <4>3. h[j] = g[j] /\ (j # 0 => h[o[j].state] = g[o[j].state])
          BY <4>1
        <4> QED
          BY <4>2, <4>3
      <3> QED
        BY <3>1, <3>2
    <2>4. Chain(h, o, n + 1)
      BY <2>3 DEF Chain
    <2> QED
      BY <2>4
  <1> HIDE DEF S
  <1>3. \A n \in Nat : n \in S
    BY <1>1, <1>2, NatSetInduction
  <1> QED
    BY <1>3 DEF S

(* Later queries do not change the chains, and chains stay in bounds. *)
LEMMA ChainsAgree ==
  ASSUME NEW n \in Nat, NEW m \in Nat, n <= m, NEW o, NEW p,
         \A j \in 1 .. n : o[j].state \in 0 .. j - 1 /\ p[j] = o[j],
         NEW g, NEW h, Chain(g, o, n), Chain(h, p, m)
  PROVE  \A k \in 0 .. n : g[k] = h[k] /\ g[k] \subseteq 1 .. n
  <1> DEFINE S == {i \in Nat : \A k \in 0 .. i : k <= n => g[k] = h[k] /\ g[k] \subseteq 1 .. n}
  <1>1. /\ g[0] = {} /\ \A k \in 1 .. n : g[k] = {k} \cup g[o[k].state]
        /\ h[0] = {} /\ \A k \in 1 .. m : h[k] = {k} \cup h[p[k].state]
    BY ChainUnfolds
  <1>2. 0 \in S
    <2>1. \A k \in 0 .. 0 : k = 0
      OBVIOUS
    <2> QED
      BY <1>1, <2>1
  <1>3. ASSUME NEW i \in Nat, i \in S PROVE i + 1 \in S
    <2> SUFFICES ASSUME i + 1 <= n
                 PROVE  g[i + 1] = h[i + 1] /\ g[i + 1] \subseteq 1 .. n
      BY <1>3
    <2> DEFINE s == o[i + 1].state
    <2>1. s \in 0 .. i /\ p[i + 1] = o[i + 1] /\ i + 1 \in 1 .. n /\ i + 1 \in 1 .. m
      OBVIOUS
    <2>2. g[s] = h[s] /\ g[s] \subseteq 1 .. n
      <3> HIDE DEF s
      <3>1. s <= n
        BY <2>1
      <3> QED
        BY <1>3, <2>1, <3>1
    <2>3. g[i + 1] = {i + 1} \cup g[s] /\ h[i + 1] = {i + 1} \cup h[s]
      BY <1>1, <2>1
    <2> HIDE DEF s
    <2> QED
      BY <2>1, <2>2, <2>3
  <1> HIDE DEF S
  <1>4. \A i \in Nat : i \in S
    BY <1>2, <1>3, NatSetInduction
  <1> QED
    BY <1>4 DEF S

(* The queries an answer depends on are the one it answers and those that   *)
(* one continues from.                                                      *)
LEMMA AncestryUnfolds ==
  ASSUME NEW o, OracleOK(o)
  PROVE  /\ Ancestry(o, 0) = {}
         /\ \A k \in 1 .. Len(o) : Ancestry(o, k) = {o[k]} \cup Ancestry(o, o[k].state)
  <1> DEFINE n == Len(o)
  <1>0. n \in Nat /\ \A j \in 1 .. n : o[j].state \in 0 .. j - 1
    BY SequenceFacts DEF OracleOK
  <1>1. \E g : Chain(g, o, Len(o))
    BY <1>0, ChainsExist
  <1> DEFINE c == CHOOSE g : Chain(g, o, Len(o))
  <1>2. Chain(c, o, Len(o)) /\ \A k : Ancestry(o, k) = {o[j] : j \in c[k]}
    BY <1>1, Zenon DEF Ancestry, Chain
  <1>3. Chain(c, o, n)
    BY <1>2
  <1> HIDE DEF c, n
  <1>4. c[0] = {} /\ \A k \in 1 .. n : c[k] = {k} \cup c[o[k].state]
    BY <1>0, <1>3, ChainUnfolds
  <1>5. Ancestry(o, 0) = {}
    <2>1. Ancestry(o, 0) = {o[j] : j \in c[0]}
      BY <1>2, Zenon
    <2> QED
      BY <1>4, <2>1
  <1>6. ASSUME NEW k \in 1 .. n
        PROVE  Ancestry(o, k) = {o[k]} \cup Ancestry(o, o[k].state)
    <2>1. c[k] = {k} \cup c[o[k].state]
      BY <1>4
    <2>2. /\ Ancestry(o, k) = {o[j] : j \in c[k]}
          /\ Ancestry(o, o[k].state) = {o[j] : j \in c[o[k].state]}
      BY <1>2, Zenon
    <2> QED
      BY <2>1, <2>2
  <1> QED
    BY <1>5, <1>6 DEF n

(* What an answer depends on does not change as more is asked. *)
LEMMA AncestryGrown ==
  ASSUME NEW o, NEW p, OracleOK(o), Grown(o, p), NEW k \in 0 .. Len(o)
  PROVE  Ancestry(p, k) = Ancestry(o, k)
  <1>0. /\ Len(o) \in Nat /\ Len(p) \in Nat /\ Len(o) <= Len(p) /\ OracleOK(p)
        /\ \A j \in 1 .. Len(o) : p[j] = o[j]
    BY SequenceFacts DEF OracleOK, Grown
  <1>1. (\E g : Chain(g, o, Len(o))) /\ (\E g : Chain(g, p, Len(p)))
    BY <1>0, ChainsExist
  <1> DEFINE c == CHOOSE g : Chain(g, o, Len(o))
             d == CHOOSE g : Chain(g, p, Len(p))
  <1>2. Chain(c, o, Len(o)) /\ \A i : Ancestry(o, i) = {o[j] : j \in c[i]}
    BY <1>1, Zenon DEF Ancestry, Chain
  <1>3. Chain(d, p, Len(p)) /\ \A i : Ancestry(p, i) = {p[j] : j \in d[i]}
    BY <1>1, Zenon DEF Ancestry, Chain
  <1> HIDE DEF c, d
  <1>4. c[k] = d[k] /\ c[k] \subseteq 1 .. Len(o)
    <2> DEFINE n == Len(o)
               m == Len(p)
    <2>1. /\ n \in Nat /\ m \in Nat /\ n <= m /\ k \in 0 .. n
          /\ \A j \in 1 .. n : o[j].state \in 0 .. j - 1 /\ p[j] = o[j]
          /\ Chain(c, o, n) /\ Chain(d, p, m)
      BY <1>0, <1>2, <1>3 DEF OracleOK
    <2> HIDE DEF n, m
    <2>2. c[k] = d[k] /\ c[k] \subseteq 1 .. n
      BY <2>1, ChainsAgree
    <2> QED
      BY <2>2 DEF n
  <1>5. /\ Ancestry(o, k) = {o[j] : j \in c[k]}
        /\ Ancestry(p, k) = {p[j] : j \in d[k]}
    BY <1>2, <1>3, Zenon
  <1> QED
    BY <1>0, <1>4, <1>5

-----------------------------------------------------------------------------
(* squeeze and absorb *)

(* A query that was asked has its position. *)
LEMMA PositionOf ==
  ASSUME NEW o, OracleOK(o), NEW k \in 1 .. Len(o)
  PROVE  Position(o, o[k]) = k
  <1> DEFINE n == Len(o)
  <1>1. DOMAIN o = 1 .. n /\ \A i, j \in 1 .. n : o[i] = o[j] => i = j
    BY SequenceFacts DEF OracleOK
  <1>2. k \in 1 .. n
    OBVIOUS
  <1>3. Position(o, o[k]) = CHOOSE i \in 1 .. n : o[i] = o[k]
    BY <1>1, <1>2, Zenon DEF Position
  <1> HIDE DEF n
  <1> QED
    BY <1>1, <1>2, <1>3

(* What y = Squeeze(t, label, o) has to be when its challenge is number k.  *)
Answered(y, t, label, o, k) ==
  /\ y = [challenge |-> <<"challenge", k>>, oracle |-> y.oracle,
          transcript |-> [round |-> t.round + 1, state |-> k, absorbed |-> <<>>]]
  /\ Grown(o, y.oracle)
  /\ k \in 1 .. Len(y.oracle)
  /\ y.oracle[k] = Query(t, label)
  /\ Ancestry(y.oracle, k) = {Query(t, label)} \cup Ancestry(o, t.state)
  /\ TranscriptOK(y.transcript, y.oracle)

(* An oracle is grown from itself. *)
LEMMA GrownReflexive ==
  ASSUME NEW o, OracleOK(o)
  PROVE  Grown(o, o)
  <1>1. Len(o) \in Nat
    BY SequenceFacts DEF OracleOK
  <1> QED
    BY <1>1 DEF Grown

(* Growing twice is growing. *)
LEMMA GrownTransitive ==
  ASSUME NEW o, NEW p, NEW q, OracleOK(o), Grown(o, p), Grown(p, q)
  PROVE  Grown(o, q)
  <1> DEFINE n == Len(o)
             m == Len(p)
             l == Len(q)
  <1>1. /\ n \in Nat /\ m \in Nat /\ l \in Nat /\ n <= m /\ m <= l
        /\ \A j \in 1 .. n : p[j] = o[j]
        /\ \A j \in 1 .. m : q[j] = p[j]
    BY SequenceFacts DEF Grown, OracleOK
  <1>2. n <= l /\ \A j \in 1 .. n : q[j] = o[j]
    <2> HIDE DEF n, m, l
    <2> QED
      BY <1>1
  <1> QED
    BY <1>2 DEF Grown

(* A new query is appended. *)
LEMMA OracleAppend ==
  ASSUME NEW o, OracleOK(o), NEW q, q.state \in 0 .. Len(o),
         \A j \in 1 .. Len(o) : o[j] # q
  PROVE  /\ Grown(o, Append(o, q))
         /\ Len(Append(o, q)) = Len(o) + 1
         /\ Append(o, q)[Len(o) + 1] = q
  <1> DEFINE p == Append(o, q)
             n == Len(o)
  <1>1. /\ n \in Nat /\ IsSequence(p) /\ Len(p) = n + 1
        /\ \A i \in 1 .. n : p[i] = o[i]
        /\ p[n + 1] = q
    BY SequenceFacts, Appended DEF OracleOK
  <1>2. /\ \A j \in 1 .. n : o[j].state \in 0 .. j - 1 /\ o[j] # q
        /\ \A i, j \in 1 .. n : o[i] = o[j] => i = j
        /\ q.state \in 0 .. n
    BY DEF OracleOK
  <1>3. /\ \A j \in 1 .. n + 1 : p[j].state \in 0 .. j - 1
        /\ \A i, j \in 1 .. n + 1 : p[i] = p[j] => i = j
    <2> HIDE DEF n, p
    <2>1. ASSUME NEW j \in 1 .. n + 1
          PROVE  \/ j = n + 1 /\ p[j] = q
                 \/ j \in 1 .. n /\ p[j] = o[j] /\ o[j] # q /\ o[j].state \in 0 .. j - 1
      <3>1. j = n + 1 \/ j \in 1 .. n
        BY <1>1
      <3> QED
        BY <1>1, <1>2, <3>1
    <2>2. ASSUME NEW j \in 1 .. n + 1 PROVE p[j].state \in 0 .. j - 1
      BY SMTT(30), <1>1, <1>2, <2>1
    <2>3. ASSUME NEW i \in 1 .. n + 1, NEW j \in 1 .. n + 1, p[i] = p[j] PROVE i = j
      BY <1>2, <2>1, <2>3
    <2> QED
      BY <2>2, <2>3
  <1>4. OracleOK(p)
    BY <1>1, <1>3 DEF OracleOK
  <1> QED
    BY <1>1, <1>4 DEF Grown

(* squeeze draws the challenge of its query. *)
LEMMA SqueezeAnswers ==
  ASSUME NEW o, OracleOK(o), NEW t, TranscriptOK(t, o), NEW label
  PROVE  \E k \in Nat : Answered(Squeeze(t, label, o), t, label, o, k)
  <1> DEFINE q == Query(t, label)
             k == Position(o, q)
             y == Squeeze(t, label, o)
             n == Len(o)
  <1>1. n \in Nat /\ DOMAIN o = 1 .. n
    BY SequenceFacts DEF OracleOK
  <1>2. q.state = t.state /\ t.state \in 0 .. n
    BY DEF Query, TranscriptOK
  <1>3. y = [challenge |-> <<"challenge", k>>,
             transcript |-> [round |-> t.round + 1, state |-> k, absorbed |-> <<>>],
             oracle |-> IF k > n THEN Append(o, q) ELSE o]
    BY Zenon DEF Squeeze
  <1> HIDE DEF q, y
  <1>4. CASE \E i \in 1 .. n : o[i] = q
    <2>1. PICK i \in 1 .. n : o[i] = q
      BY <1>4
    <2>2. k = i
      BY <2>1, PositionOf
    <2>3. y.oracle = o
      <3>1. ~(k > n)
        BY <1>1, <2>2
      <3> HIDE DEF k, n
      <3> QED
        BY <1>3, <3>1
    <2>4. Ancestry(o, k) = {q} \cup Ancestry(o, t.state)
      BY <1>2, <2>1, <2>2, AncestryUnfolds
    <2>5. /\ y = [challenge |-> <<"challenge", k>>, oracle |-> y.oracle,
                  transcript |-> [round |-> t.round + 1, state |-> k, absorbed |-> <<>>]]
          /\ y.transcript = [round |-> t.round + 1, state |-> k, absorbed |-> <<>>]
      BY <1>3, <2>3
    <2>6. TranscriptOK(y.transcript, y.oracle)
      BY <1>1, <2>1, <2>2, <2>3, <2>5, EmptyIsSequence DEF TranscriptOK
    <2> HIDE DEF k
    <2>7. Answered(y, t, label, o, k)
      BY <2>1, <2>2, <2>3, <2>4, <2>5, <2>6, GrownReflexive DEF Answered, q
    <2> QED
      BY <1>1, <2>1, <2>2, <2>7 DEF y
  <1>5. CASE \A i \in 1 .. n : o[i] # q
    <2>1. k = n + 1
      BY <1>1, <1>5, Zenon DEF Position
    <2>2. y.oracle = Append(o, q)
      <3>1. k > n
        BY <1>1, <2>1
      <3> HIDE DEF k, n
      <3> QED
        BY <1>3, <3>1
    <2>3. /\ Grown(o, y.oracle) /\ Len(y.oracle) = n + 1 /\ y.oracle[n + 1] = q
      BY <1>2, <1>5, <2>2, OracleAppend
    <2>4. /\ y = [challenge |-> <<"challenge", k>>, oracle |-> y.oracle,
                  transcript |-> [round |-> t.round + 1, state |-> k, absorbed |-> <<>>]]
          /\ y.transcript = [round |-> t.round + 1, state |-> k, absorbed |-> <<>>]
      BY <1>3, <2>2
    <2> HIDE DEF k
    <2>5. OracleOK(y.oracle) /\ k \in 1 .. Len(y.oracle)
      BY <1>1, <2>1, <2>3 DEF Grown
    <2>6. Ancestry(y.oracle, k) = {q} \cup Ancestry(y.oracle, q.state)
      BY <2>1, <2>3, <2>5, AncestryUnfolds
    <2>7. Ancestry(y.oracle, q.state) = Ancestry(o, t.state)
      BY <1>2, <2>3, AncestryGrown
    <2>8. TranscriptOK(y.transcript, y.oracle)
      <3>1. k \in 0 .. Len(y.oracle)
        BY <1>1, <2>1, <2>3
      <3> QED
        BY <2>4, <3>1, EmptyIsSequence DEF TranscriptOK
    <2>9. Answered(y, t, label, o, k)
      BY <2>1, <2>3, <2>4, <2>5, <2>6, <2>7, <2>8 DEF Answered, q
    <2> QED
      BY <1>1, <2>1, <2>9 DEF y
  <1> QED
    BY <1>4, <1>5

(* Whoever asks the same question again gets the same answer. *)
LEMMA SqueezeAgain ==
  ASSUME NEW o, OracleOK(o), NEW k \in 1 .. Len(o), NEW t, NEW label, o[k] = Query(t, label)
  PROVE  Squeeze(t, label, o)
           = [challenge |-> <<"challenge", k>>, oracle |-> o,
              transcript |-> [round |-> t.round + 1, state |-> k, absorbed |-> <<>>]]
  <1>1. Position(o, Query(t, label)) = k
    BY PositionOf
  <1>2. Len(o) \in Nat /\ ~(k > Len(o))
    BY SequenceFacts DEF OracleOK
  <1> QED
    BY <1>1, <1>2 DEF Squeeze

(* What b = Absorb(t, label, x) has to be, when e is <<label, x>>. *)
Bound(b, t, e, o) ==
  /\ TranscriptOK(b, o)
  /\ b.state = t.state
  /\ Range(b.absorbed) = Range(t.absorbed) \cup {e}

(* absorb keeps what was absorbed before. *)
LEMMA AbsorbFacts ==
  ASSUME NEW o, NEW t, TranscriptOK(t, o), NEW label, NEW x
  PROVE  Bound(Absorb(t, label, x), t, <<label, x>>, o)
  <1> DEFINE a == Append(t.absorbed, <<label, x>>)
             b == Absorb(t, label, x)
  <1>1. b = [round |-> t.round, state |-> t.state, absorbed |-> a]
    <2>1. b = [t EXCEPT !.absorbed = a]
      BY Zenon DEF Absorb
    <2>2. t = [round |-> t.round, state |-> t.state, absorbed |-> t.absorbed]
      BY DEF TranscriptOK
    <2> HIDE DEF a, b
    <2>3. [t EXCEPT !.absorbed = a] = [round |-> t.round, state |-> t.state, absorbed |-> a]
      BY <2>2
    <2> QED
      BY <2>1, <2>3
  <1>2. IsSequence(t.absorbed) /\ t.state \in 0 .. Len(o)
    BY DEF TranscriptOK
  <1>3. IsSequence(a) /\ Range(a) = Range(t.absorbed) \cup {<<label, x>>}
    BY <1>2, Appended
  <1> HIDE DEF a, b
  <1>4. b.round = t.round /\ b.state = t.state /\ b.absorbed = a
    BY <1>1
  <1>5. Bound(b, t, <<label, x>>, o)
    BY <1>1, <1>2, <1>3, <1>4 DEF Bound, TranscriptOK
  <1> QED
    BY <1>5 DEF b

-----------------------------------------------------------------------------
(* Several challenges in a row *)

(* One challenge more. *)
Drawn(x, label) ==
  LET y == Squeeze(x.transcript, label, x.oracle)
  IN  [challenges |-> Append(x.challenges, y.challenge),
       transcript |-> y.transcript, oracle |-> y.oracle]

(* Before any challenge is drawn. *)
Undrawn(t, o) == [challenges |-> <<>>, transcript |-> t, oracle |-> o]

(* a gives the state of SqueezeMany after each of its challenges. *)
Draws(a, t, label, o, n) ==
  a = [k \in 0 .. n |-> IF k = 0 THEN Undrawn(t, o) ELSE Drawn(a[k - 1], label)]

(* Entry by entry. *)
LEMMA DrawsUnfold ==
  ASSUME NEW a, NEW t, NEW label, NEW o, NEW n \in Nat, Draws(a, t, label, o, n)
  PROVE  a[0] = Undrawn(t, o) /\ \A k \in 1 .. n : a[k] = Drawn(a[k - 1], label)
  <1>1. 0 \in 0 .. n /\ \A k \in 1 .. n : k \in 0 .. n /\ k # 0
    OBVIOUS
  <1>2. \A k \in 0 .. n : a[k] = IF k = 0 THEN Undrawn(t, o) ELSE Drawn(a[k - 1], label)
    BY Zenon DEF Draws
  <1> QED
    BY <1>1, <1>2, Zenon

(* Any number of challenges can be drawn. *)
LEMMA DrawsExist ==
  ASSUME NEW t, NEW label, NEW o
  PROVE  \A n \in Nat : \E a : Draws(a, t, label, o, n)
  <1> DEFINE S == {n \in Nat : \E a : Draws(a, t, label, o, n)}
  <1>1. 0 \in S
    <2>1. Draws([k \in 0 .. 0 |-> Undrawn(t, o)], t, label, o, 0)
      BY DEF Draws
    <2> QED
      BY <2>1
  <1>2. ASSUME NEW n \in Nat, n \in S PROVE n + 1 \in S
    <2>1. PICK a : Draws(a, t, label, o, n)
      BY <1>2
    <2> DEFINE h == [k \in 0 .. n + 1 |-> IF k = n + 1 THEN Drawn(a[n], label) ELSE a[k]]
    <2>2. ASSUME NEW k \in 0 .. n + 1
          PROVE  h[k] = IF k = 0 THEN Undrawn(t, o) ELSE Drawn(h[k - 1], label)
      <3>1. CASE k = n + 1
        BY <3>1
      <3>2. CASE k # n + 1
        <4>1. k \in 0 .. n
          BY <3>2
        <4>2. a[k] = IF k = 0 THEN Undrawn(t, o) ELSE Drawn(a[k - 1], label)
          BY <2>1, <4>1 DEF Draws
        <4>3. h[k] = a[k] /\ (k # 0 => h[k - 1] = a[k - 1])
          BY <4>1
        <4> QED
          BY <4>2, <4>3
      <3> QED
        BY <3>1, <3>2
    <2>3. Draws(h, t, label, o, n + 1)
      BY <2>2 DEF Draws
    <2> QED
      BY <2>3
  <1> HIDE DEF S
  <1>3. \A n \in Nat : n \in S
    BY <1>1, <1>2, NatSetInduction
  <1> QED
    BY <1>3 DEF S

(* Two ways to draw agree as far as both go. *)
LEMMA DrawsAgree ==
  ASSUME NEW t, NEW label, NEW o, NEW n \in Nat, NEW m \in Nat, NEW a, NEW b,
         Draws(a, t, label, o, n), Draws(b, t, label, o, m)
  PROVE  \A k \in Nat : k <= n /\ k <= m => a[k] = b[k]
  <1> DEFINE S == {k \in Nat : k <= n /\ k <= m => a[k] = b[k]}
  <1>0. /\ a[0] = Undrawn(t, o) /\ \A k \in 1 .. n : a[k] = Drawn(a[k - 1], label)
        /\ b[0] = Undrawn(t, o) /\ \A k \in 1 .. m : b[k] = Drawn(b[k - 1], label)
    BY DrawsUnfold
  <1>1. 0 \in S
    BY <1>0
  <1>2. ASSUME NEW k \in Nat, k \in S PROVE k + 1 \in S
    <2>1. SUFFICES ASSUME k + 1 <= n, k + 1 <= m PROVE a[k + 1] = b[k + 1]
      OBVIOUS
    <2>2. a[k] = b[k] /\ k + 1 \in 1 .. n /\ k + 1 \in 1 .. m /\ (k + 1) - 1 = k
      BY <1>2, <2>1
    <2> QED
      BY <1>0, <2>2
  <1> HIDE DEF S
  <1>3. \A k \in Nat : k \in S
    BY <1>1, <1>2, NatSetInduction
  <1> QED
    BY <1>3 DEF S

(* SqueezeMany draws its challenges one after the other. *)
LEMMA SqueezeManyIs ==
  ASSUME NEW t, NEW label, NEW o, NEW n \in Nat
  PROVE  \E a : Draws(a, t, label, o, n) /\ SqueezeMany(t, label, o, n) = a[n]
  <1>1. \E a : Draws(a, t, label, o, n)
    BY DrawsExist
  <1> DEFINE c == CHOOSE a : Draws(a, t, label, o, n)
  <1>2. Draws(c, t, label, o, n) /\ SqueezeMany(t, label, o, n) = c[n]
    BY <1>1, Zenon DEF SqueezeMany, Draws, Drawn, Undrawn
  <1> QED
    BY <1>2, Zenon

(* SqueezeMany draws one challenge after the other. *)
LEMMA SqueezeManyUnfolds ==
  ASSUME NEW t, NEW label, NEW o
  PROVE  /\ SqueezeMany(t, label, o, 0) = Undrawn(t, o)
         /\ \A n \in Nat : SqueezeMany(t, label, o, n + 1)
                             = Drawn(SqueezeMany(t, label, o, n), label)
  <1>1. SqueezeMany(t, label, o, 0) = Undrawn(t, o)
    <2>1. PICK a : Draws(a, t, label, o, 0) /\ SqueezeMany(t, label, o, 0) = a[0]
      BY SqueezeManyIs
    <2> QED
      BY <2>1, DrawsUnfold
  <1>2. ASSUME NEW n \in Nat
        PROVE  SqueezeMany(t, label, o, n + 1) = Drawn(SqueezeMany(t, label, o, n), label)
    <2>1. PICK a : Draws(a, t, label, o, n) /\ SqueezeMany(t, label, o, n) = a[n]
      BY SqueezeManyIs
    <2> DEFINE m == n + 1
    <2>2. m \in Nat /\ n <= n /\ n <= m /\ m \in 1 .. m /\ m - 1 = n
      OBVIOUS
    <2> HIDE DEF m
    <2>3. PICK b : Draws(b, t, label, o, m) /\ SqueezeMany(t, label, o, m) = b[m]
      BY <2>2, SqueezeManyIs
    <2>4. a[n] = b[n]
      BY <2>1, <2>2, <2>3, DrawsAgree
    <2>5. b[m] = Drawn(b[n], label)
      <3>1. \A k \in 1 .. m : b[k] = Drawn(b[k - 1], label)
        BY <2>2, <2>3, DrawsUnfold
      <3> QED
        BY <2>2, <3>1
    <2> QED
      BY <2>1, <2>3, <2>4, <2>5 DEF m
  <1> QED
    BY <1>1, <1>2

(* Every challenge drawn depends on what came before, and whatever follows  *)
(* depends on it.                                                           *)
ManyDrawn(x, o, before, n) ==
  /\ x = [challenges |-> x.challenges, transcript |-> x.transcript, oracle |-> x.oracle]
  /\ Grown(o, x.oracle)
  /\ TranscriptOK(x.transcript, x.oracle)
  /\ IsSequence(x.challenges) /\ Len(x.challenges) = n
  /\ before \subseteq Ancestry(x.oracle, x.transcript.state)
  /\ \A i \in 1 .. n : \E p \in 1 .. Len(x.oracle) :
       /\ x.challenges[i] = <<"challenge", p>>
       /\ x.oracle[p] \in Ancestry(x.oracle, x.transcript.state)

(* One more challenge is drawn like those before it. *)
LEMMA DrawnKeeps ==
  ASSUME NEW x, NEW o, OracleOK(o), NEW before, NEW n \in Nat, ManyDrawn(x, o, before, n),
         NEW label
  PROVE  /\ ManyDrawn(Drawn(x, label), o, before, n + 1)
         /\ \E k \in Nat : Answered(Squeeze(x.transcript, label, x.oracle),
                                    x.transcript, label, x.oracle, k)
  <1> DEFINE y == Squeeze(x.transcript, label, x.oracle)
             d == Drawn(x, label)
  <1>1. OracleOK(x.oracle) /\ TranscriptOK(x.transcript, x.oracle) /\ Grown(o, x.oracle)
    BY DEF ManyDrawn, Grown
  <1>2. PICK k \in Nat : Answered(y, x.transcript, label, x.oracle, k)
    BY <1>1, SqueezeAnswers
  <1>3. d = [challenges |-> Append(x.challenges, y.challenge),
             transcript |-> y.transcript, oracle |-> y.oracle]
    BY Zenon DEF Drawn
  <1> HIDE DEF d, y
  <1>4. /\ y.challenge = <<"challenge", k>> /\ Grown(x.oracle, y.oracle)
        /\ k \in 1 .. Len(y.oracle) /\ y.transcript.state = k
        /\ y.oracle[k] = Query(x.transcript, label)
        /\ Ancestry(y.oracle, k)
             = {Query(x.transcript, label)} \cup Ancestry(x.oracle, x.transcript.state)
        /\ TranscriptOK(y.transcript, y.oracle)
    <2>1. y = [challenge |-> <<"challenge", k>>, oracle |-> y.oracle,
               transcript |-> [round |-> x.transcript.round + 1, state |-> k,
                               absorbed |-> <<>>]]
      BY <1>2 DEF Answered
    <2>2. y.challenge = <<"challenge", k>> /\ y.transcript.state = k
      BY <2>1
    <2> QED
      BY <1>2, <2>2 DEF Answered
  <1>5. d.challenges = Append(x.challenges, y.challenge) /\ d.transcript = y.transcript
        /\ d.oracle = y.oracle
    BY <1>3
  <1>6. Grown(o, d.oracle)
    BY <1>1, <1>4, <1>5, GrownTransitive
  <1>7. /\ IsSequence(d.challenges) /\ Len(d.challenges) = n + 1
        /\ \A i \in 1 .. n : d.challenges[i] = x.challenges[i]
        /\ d.challenges[n + 1] = <<"challenge", k>>
    BY <1>4, <1>5, Appended DEF ManyDrawn
  <1>8. before \subseteq Ancestry(d.oracle, d.transcript.state)
    BY <1>4, <1>5 DEF ManyDrawn
  <1>9. ASSUME NEW i \in 1 .. n + 1
        PROVE  \E p \in 1 .. Len(d.oracle) :
                 /\ d.challenges[i] = <<"challenge", p>>
                 /\ d.oracle[p] \in Ancestry(d.oracle, d.transcript.state)
    <2>1. CASE i = n + 1
      BY <1>4, <1>5, <1>7, <2>1
    <2>2. CASE i # n + 1
      <3>1. i \in 1 .. n
        BY <2>2
      <3>2. PICK p \in 1 .. Len(x.oracle) :
              /\ x.challenges[i] = <<"challenge", p>>
              /\ x.oracle[p] \in Ancestry(x.oracle, x.transcript.state)
        BY <3>1 DEF ManyDrawn
      <3>3. p \in 1 .. Len(d.oracle) /\ d.oracle[p] = x.oracle[p]
        <4>1. /\ Len(x.oracle) \in Nat /\ Len(d.oracle) \in Nat
              /\ Len(x.oracle) <= Len(d.oracle)
              /\ \A j \in 1 .. Len(x.oracle) : d.oracle[j] = x.oracle[j]
          BY <1>1, <1>4, <1>5, SequenceFacts DEF Grown, OracleOK
        <4> QED
          BY <3>2, <4>1
      <3>4. x.oracle[p] \in Ancestry(d.oracle, d.transcript.state)
        BY <1>4, <1>5, <3>2
      <3> QED
        BY <1>7, <3>1, <3>2, <3>3, <3>4
    <2> QED
      BY <2>1, <2>2
  <1>10. d = [challenges |-> d.challenges, transcript |-> d.transcript, oracle |-> d.oracle]
    BY <1>3
  <1>11. ManyDrawn(d, o, before, n + 1)
    BY <1>4, <1>5, <1>6, <1>7, <1>8, <1>9, <1>10 DEF ManyDrawn
  <1> QED
    BY <1>2, <1>11, Zenon DEF d, y

(* What is known of the challenges that SqueezeMany draws. *)
LEMMA SqueezeManyDraws ==
  ASSUME NEW o, OracleOK(o), NEW t, TranscriptOK(t, o), NEW label
  PROVE  \A n \in Nat :
           ManyDrawn(SqueezeMany(t, label, o, n), o, Ancestry(o, t.state), n)
  <1> DEFINE before == Ancestry(o, t.state)
             S == {n \in Nat : ManyDrawn(SqueezeMany(t, label, o, n), o, before, n)}
  <1>1. 0 \in S
    <2>1. SqueezeMany(t, label, o, 0) = [challenges |-> <<>>, transcript |-> t, oracle |-> o]
      BY SqueezeManyUnfolds DEF Undrawn
    <2> QED
      BY <2>1, GrownReflexive, EmptyIsSequence DEF ManyDrawn
  <1>2. ASSUME NEW n \in Nat, n \in S PROVE n + 1 \in S
    <2> HIDE DEF before
    <2>1. ManyDrawn(SqueezeMany(t, label, o, n), o, before, n)
      BY <1>2
    <2>2. SqueezeMany(t, label, o, n + 1) = Drawn(SqueezeMany(t, label, o, n), label)
      BY SqueezeManyUnfolds
    <2>3. ManyDrawn(Drawn(SqueezeMany(t, label, o, n), label), o, before, n + 1)
      BY <2>1, DrawnKeeps
    <2> QED
      BY <2>2, <2>3
  <1> HIDE DEF S
  <1>3. \A n \in Nat : n \in S
    BY <1>1, <1>2, NatSetInduction
  <1> QED
    BY <1>3 DEF S

(* Whoever starts from the same transcript later gets the same challenges.  *)
Redraws(t, label, o, n) ==
  \A p : Grown(SqueezeMany(t, label, o, n).oracle, p) =>
           SqueezeMany(t, label, p, n)
             = [challenges |-> SqueezeMany(t, label, o, n).challenges,
                transcript |-> SqueezeMany(t, label, o, n).transcript, oracle |-> p]

(* Drawn again from the same transcript, the challenges are the same, and   *)
(* no query is new.                                                         *)
LEMMA SqueezeManyAgain ==
  ASSUME NEW o, OracleOK(o), NEW t, TranscriptOK(t, o), NEW label
  PROVE  \A n \in Nat : Redraws(t, label, o, n)
  <1> DEFINE Y(n) == SqueezeMany(t, label, o, n)
             S == {n \in Nat : Redraws(t, label, o, n)}
  <1>1. 0 \in S
    <2>1. Y(0) = [challenges |-> <<>>, transcript |-> t, oracle |-> o]
      BY SqueezeManyUnfolds DEF Undrawn
    <2>2. \A p : SqueezeMany(t, label, p, 0)
                   = [challenges |-> <<>>, transcript |-> t, oracle |-> p]
      BY SqueezeManyUnfolds DEF Undrawn
    <2> QED
      BY <2>1, <2>2 DEF Redraws
  <1>2. ASSUME NEW n \in Nat, n \in S PROVE n + 1 \in S
    <2>0. Redraws(t, label, o, n)
      BY <1>2
    <2> SUFFICES Redraws(t, label, o, n + 1)
      OBVIOUS
    <2> SUFFICES ASSUME NEW p, Grown(Y(n + 1).oracle, p)
                 PROVE  SqueezeMany(t, label, p, n + 1)
                          = [challenges |-> Y(n + 1).challenges,
                             transcript |-> Y(n + 1).transcript, oracle |-> p]
      BY Zenon DEF Redraws
    <2> DEFINE x == Y(n)
               y == Squeeze(x.transcript, label, x.oracle)
    <2>1. ManyDrawn(x, o, Ancestry(o, t.state), n)
      BY SqueezeManyDraws
    <2>2. Y(n + 1) = Drawn(x, label)
      BY SqueezeManyUnfolds
    <2>3. Y(n + 1) = [challenges |-> Append(x.challenges, y.challenge),
                      transcript |-> y.transcript, oracle |-> y.oracle]
      BY <2>2 DEF Drawn
    <2> HIDE DEF x
    <2>4. PICK k \in Nat : Answered(y, x.transcript, label, x.oracle, k)
      BY <2>1, DrawnKeeps
    <2> HIDE DEF y
    <2>5. /\ Y(n + 1).oracle = y.oracle /\ Y(n + 1).transcript = y.transcript
          /\ Y(n + 1).challenges = Append(x.challenges, y.challenge)
      BY <2>3
    <2> HIDE DEF Y
    <2>6. /\ Grown(x.oracle, y.oracle) /\ Grown(y.oracle, p) /\ OracleOK(x.oracle)
      BY <2>1, <2>4, <2>5 DEF Answered, ManyDrawn, Grown
    <2>7. Grown(x.oracle, p)
      BY <2>6, GrownTransitive
    <2>8. SqueezeMany(t, label, p, n)
            = [challenges |-> x.challenges, transcript |-> x.transcript, oracle |-> p]
      BY <2>0, <2>7, Zenon DEF Redraws, x, Y
    <2>9. OracleOK(p) /\ k \in 1 .. Len(p) /\ p[k] = Query(x.transcript, label)
      <3>1. /\ OracleOK(p) /\ OracleOK(y.oracle) /\ Len(y.oracle) <= Len(p)
            /\ \A j \in 1 .. Len(y.oracle) : p[j] = y.oracle[j]
            /\ k \in 1 .. Len(y.oracle) /\ y.oracle[k] = Query(x.transcript, label)
        BY <2>4, <2>6 DEF Grown, Answered
      <3>2. Len(p) \in Nat /\ Len(y.oracle) \in Nat
        BY <3>1, SequenceFacts DEF OracleOK
      <3> QED
        BY <3>1, <3>2
    <2>10. Squeeze(x.transcript, label, p)
             = [challenge |-> <<"challenge", k>>, oracle |-> p,
                transcript |-> [round |-> x.transcript.round + 1, state |-> k,
                                absorbed |-> <<>>]]
      BY <2>9, SqueezeAgain
    <2>11. /\ y.challenge = <<"challenge", k>>
           /\ y.transcript = [round |-> x.transcript.round + 1, state |-> k,
                              absorbed |-> <<>>]
      <3>1. y = [challenge |-> <<"challenge", k>>, oracle |-> y.oracle,
                 transcript |-> [round |-> x.transcript.round + 1, state |-> k,
                                 absorbed |-> <<>>]]
        BY <2>4 DEF Answered
      <3> QED
        BY <3>1
    <2> DEFINE d == [challenges |-> x.challenges, transcript |-> x.transcript, oracle |-> p]
               z == SqueezeMany(t, label, p, n)
    <2>12. SqueezeMany(t, label, p, n + 1) = Drawn(z, label)
      BY SqueezeManyUnfolds
    <2>13. d.challenges = x.challenges /\ d.transcript = x.transcript /\ d.oracle = p /\ z = d
      BY <2>8
    <2> HIDE DEF d, z
    <2>14. Drawn(d, label)
             = [challenges |-> Append(d.challenges, Squeeze(d.transcript, label, d.oracle).challenge),
                transcript |-> Squeeze(d.transcript, label, d.oracle).transcript,
                oracle |-> Squeeze(d.transcript, label, d.oracle).oracle]
      BY Zenon DEF Drawn
    <2>15. Drawn(d, label)
             = [challenges |-> Append(x.challenges, y.challenge),
                transcript |-> y.transcript, oracle |-> p]
      BY <2>10, <2>11, <2>13, <2>14
    <2> QED
      BY <2>5, <2>12, <2>13, <2>15
  <1> HIDE DEF S
  <1>3. \A n \in Nat : n \in S
    BY <1>1, <1>2, NatSetInduction
  <1> QED
    BY <1>3 DEF S

-----------------------------------------------------------------------------
(* Sums over the first rounds *)

(* g is the table of the sums of the first elements. *)
Sums(g, s, n) == g = [i \in 0 .. n |-> IF i = 0 THEN 0 ELSE g[i - 1] + s[i]]

(* The first n elements can be added up. *)
LEMMA SumsExist ==
  ASSUME NEW s
  PROVE  \A n \in Nat : \E g : Sums(g, s, n)
  <1> DEFINE S == {n \in Nat : \E g : Sums(g, s, n)}
  <1>1. 0 \in S
    <2>1. Sums([k \in 0 .. 0 |-> 0], s, 0)
      BY DEF Sums
    <2> QED
      BY <2>1
  <1>2. ASSUME NEW n \in Nat, n \in S PROVE n + 1 \in S
    <2>1. PICK g : Sums(g, s, n)
      BY <1>2
    <2> DEFINE h == [k \in 0 .. n + 1 |-> IF k = n + 1 THEN g[n] + s[n + 1] ELSE g[k]]
    <2>2. ASSUME NEW k \in 0 .. n + 1
          PROVE  h[k] = IF k = 0 THEN 0 ELSE h[k - 1] + s[k]
      <3>1. CASE k = n + 1
        BY <3>1
      <3>2. CASE k # n + 1
        <4>1. k \in 0 .. n
          BY <3>2
        <4>2. g[k] = IF k = 0 THEN 0 ELSE g[k - 1] + s[k]
          BY <2>1, <4>1 DEF Sums
        <4>3. h[k] = g[k] /\ (k # 0 => h[k - 1] = g[k - 1])
          BY <4>1
        <4> QED
          BY <4>2, <4>3
      <3> QED
        BY <3>1, <3>2
    <2>3. Sums(h, s, n + 1)
      BY <2>2 DEF Sums
    <2> QED
      BY <2>3
  <1> HIDE DEF S
  <1>3. \A n \in Nat : n \in S
    BY <1>1, <1>2, NatSetInduction
  <1> QED
    BY <1>3 DEF S

(* SumFirst is any function that satisfies its recursion. *)
Adds(g, s, n) == g[0] = 0 /\ \A k \in 1 .. n : g[k] = g[k - 1] + s[k]

(* SumFirst is the one table that satisfies the recursion. *)
LEMMA SumIs ==
  ASSUME NEW s, NEW n \in Nat, NEW g, Adds(g, s, n)
  PROVE  \A k \in 0 .. n : SumFirst(s, k) = g[k]
  <1> SUFFICES ASSUME NEW k \in 0 .. n PROVE SumFirst(s, k) = g[k]
    OBVIOUS
  <1>1. /\ k \in Nat /\ k <= n
        /\ g[0] = 0 /\ \A i \in 1 .. n : g[i] = g[i - 1] + s[i]
    BY DEF Adds
  <1>2. \E h : Sums(h, s, k)
    BY <1>1, SumsExist
  <1> DEFINE c == CHOOSE h : Sums(h, s, k)
  <1>3. Sums(c, s, k) /\ SumFirst(s, k) = c[k]
    BY <1>2, Zenon DEF SumFirst, Sums
  <1> HIDE DEF c
  <1>4. \A i \in 0 .. k : c[i] = IF i = 0 THEN 0 ELSE c[i - 1] + s[i]
    BY <1>3, Zenon DEF Sums
  <1> DEFINE S == {i \in Nat : i <= k => c[i] = g[i]}
  <1>5. 0 \in S
    BY <1>1, <1>4
  <1>6. ASSUME NEW i \in Nat, i \in S PROVE i + 1 \in S
    <2> SUFFICES ASSUME i + 1 <= k PROVE c[i + 1] = g[i + 1]
      OBVIOUS
    <2>1. i + 1 \in 0 .. k /\ i + 1 \in 1 .. n /\ i + 1 # 0 /\ (i + 1) - 1 = i /\ c[i] = g[i]
      BY <1>1, <1>6
    <2> QED
      BY <1>1, <1>4, <2>1
  <1> HIDE DEF S
  <1>7. \A i \in Nat : i \in S
    BY <1>5, <1>6, NatSetInduction
  <1>8. c[k] = g[k]
    BY <1>1, <1>7 DEF S
  <1> QED
    BY <1>3, <1>8

(* The sums of natural numbers, one after the other. *)
LEMMA SumUnfolds ==
  ASSUME NEW n \in Nat, NEW s, \A k \in 1 .. n : s[k] \in Nat
  PROVE  /\ SumFirst(s, 0) = 0
         /\ \A k \in 0 .. n : SumFirst(s, k) \in Nat
         /\ \A k \in 1 .. n : SumFirst(s, k) = SumFirst(s, k - 1) + s[k]
  <1>1. PICK g : Sums(g, s, n)
    BY SumsExist
  <1>2. g[0] = 0 /\ \A k \in 1 .. n : g[k] = g[k - 1] + s[k]
    <2>1. \A k \in 0 .. n : g[k] = IF k = 0 THEN 0 ELSE g[k - 1] + s[k]
      BY <1>1, Zenon DEF Sums
    <2> QED
      BY <2>1
  <1>3. \A k \in 0 .. n : SumFirst(s, k) = g[k]
    BY <1>2, SumIs DEF Adds
  <1> DEFINE S == {k \in Nat : k <= n => g[k] \in Nat}
  <1>4. 0 \in S
    BY <1>2
  <1>5. ASSUME NEW k \in Nat, k \in S PROVE k + 1 \in S
    <2>1. k + 1 <= n => k + 1 \in 1 .. n /\ (k + 1) - 1 = k /\ g[k] \in Nat
      BY <1>5
    <2> QED
      BY <1>2, <2>1
  <1> HIDE DEF S
  <1>6. \A k \in Nat : k \in S
    BY <1>4, <1>5, NatSetInduction
  <1>7. \A k \in 0 .. n : g[k] \in Nat
    BY <1>6 DEF S
  <1>8. \A k \in 1 .. n : k - 1 \in 0 .. n /\ k \in 0 .. n
    OBVIOUS
  <1> QED
    BY <1>2, <1>3, <1>7, <1>8

(* They increase. *)
LEMMA SumIncreases ==
  ASSUME NEW n \in Nat, NEW s, \A k \in 1 .. n : s[k] \in Nat
  PROVE  \A i, k \in 0 .. n : i <= k => SumFirst(s, i) <= SumFirst(s, k)
  <1>1. /\ \A k \in 0 .. n : SumFirst(s, k) \in Nat
        /\ \A k \in 1 .. n : SumFirst(s, k) = SumFirst(s, k - 1) + s[k]
    BY SumUnfolds
  <1> SUFFICES ASSUME NEW i \in 0 .. n
               PROVE  \A k \in 0 .. n : i <= k => SumFirst(s, i) <= SumFirst(s, k)
    OBVIOUS
  <1> DEFINE S == {k \in Nat : k <= n /\ i <= k => SumFirst(s, i) <= SumFirst(s, k)}
  <1>2. 0 \in S
    BY <1>1
  <1>3. ASSUME NEW k \in Nat, k \in S PROVE k + 1 \in S
    <2> SUFFICES ASSUME k + 1 <= n, i <= k + 1 PROVE SumFirst(s, i) <= SumFirst(s, k + 1)
      OBVIOUS
    <2>1. k + 1 \in 1 .. n /\ (k + 1) - 1 = k /\ k \in 0 .. n /\ k + 1 \in 0 .. n
      OBVIOUS
    <2>2. /\ SumFirst(s, k + 1) = SumFirst(s, k) + s[k + 1] /\ s[k + 1] \in Nat
          /\ SumFirst(s, k) \in Nat /\ SumFirst(s, i) \in Nat
      BY <1>1, <2>1
    <2>3. CASE i = k + 1
      BY <1>1, <2>3
    <2>4. CASE i # k + 1
      <3>1. SumFirst(s, i) <= SumFirst(s, k)
        BY <1>3, <2>1, <2>4
      <3> QED
        BY <2>2, <3>1
    <2> QED
      BY <2>3, <2>4
  <1> HIDE DEF S
  <1>4. \A k \in Nat : k \in S
    BY <1>2, <1>3, NatSetInduction
  <1> QED
    BY <1>4 DEF S

-----------------------------------------------------------------------------
(* Tuples, concatenations and parts *)

(* Tuples are sequences. *)
LEMMA Tuples ==
  /\ \A a : IsSequence(<<a>>) /\ Len(<<a>>) = 1
  /\ \A a, b : IsSequence(<<a, b>>) /\ Len(<<a, b>>) = 2
  /\ \A a, b, c : IsSequence(<<a, b, c>>) /\ Len(<<a, b, c>>) = 3
  /\ \A a, b, c, d : IsSequence(<<a, b, c, d>>) /\ Len(<<a, b, c, d>>) = 4
  /\ \A a, b, c, d, e : IsSequence(<<a, b, c, d, e>>) /\ Len(<<a, b, c, d, e>>) = 5
  <1>1. ASSUME NEW a PROVE IsSequence(<<a>>) /\ Len(<<a>>) = 1
    BY DEF IsSequence, Range
  <1>2. ASSUME NEW a, NEW b PROVE IsSequence(<<a, b>>) /\ Len(<<a, b>>) = 2
    BY DEF IsSequence, Range
  <1>3. ASSUME NEW a, NEW b, NEW c, NEW d
        PROVE  IsSequence(<<a, b, c, d>>) /\ Len(<<a, b, c, d>>) = 4
    BY DEF IsSequence, Range
  <1>4. ASSUME NEW a, NEW b, NEW c, NEW d, NEW e
        PROVE  IsSequence(<<a, b, c, d, e>>) /\ Len(<<a, b, c, d, e>>) = 5
    BY DEF IsSequence, Range
  <1>5. ASSUME NEW a, NEW b, NEW c PROVE IsSequence(<<a, b, c>>) /\ Len(<<a, b, c>>) = 3
    BY DEF IsSequence, Range
  <1> QED
    BY <1>1, <1>2, <1>3, <1>4, <1>5

(* c is s followed by t. *)
Concatenates(c, s, t) ==
  /\ IsSequence(c)
  /\ Len(c) = Len(s) + Len(t)
  /\ \A i \in 1 .. Len(s) : c[i] = s[i]
  /\ \A i \in 1 .. Len(t) : c[Len(s) + i] = t[i]

(* Concatenation joins sequences whose elements have no type. *)
LEMMA Concatenated ==
  ASSUME NEW s, IsSequence(s), NEW t, IsSequence(t)
  PROVE  Concatenates(s \o t, s, t)
  <1> DEFINE A == Range(s) \cup Range(t)
             c == s \o t
  <1>1. s \in Seq(A) /\ t \in Seq(A)
    <2>1. /\ Range(s) \subseteq A /\ s \in Seq(Range(s))
          /\ Range(t) \subseteq A /\ t \in Seq(Range(t))
      BY DEF IsSequence
    <2> HIDE DEF A
    <2> QED
      BY <2>1, SeqMonotonic
  <1>2. /\ Len(s) \in Nat /\ DOMAIN s = 1 .. Len(s)
        /\ Len(t) \in Nat /\ DOMAIN t = 1 .. Len(t)
    BY SequenceFacts
  <1>3. /\ c \in Seq(A) /\ Len(c) = Len(s) + Len(t)
        /\ \A i \in 1 .. Len(s) + Len(t) :
             c[i] = IF i <= Len(s) THEN s[i] ELSE t[i - Len(s)]
    <2> HIDE DEF A
    <2> QED
      BY <1>1, ConcatProperties
  <1>4. DOMAIN c = 1 .. Len(c) /\ Len(c) \in Nat /\ c = [i \in 1 .. Len(c) |-> c[i]]
    <2> HIDE DEF A, c
    <2> QED
      BY <1>3, LenProperties
  <1> DEFINE n == Len(s)
             m == Len(t)
  <1> HIDE DEF c, n, m
  <1>5. IsSequence(c)
    BY <1>4, FunctionIsSequence
  <1>6. /\ \A i \in 1 .. n : c[i] = s[i]
        /\ \A i \in 1 .. m : c[n + i] = t[i]
    <2>1. n \in Nat /\ m \in Nat
      BY <1>2 DEF n, m
    <2>2. \A i \in 1 .. n + m : c[i] = IF i <= n THEN s[i] ELSE t[i - n]
      BY <1>3 DEF n, m
    <2>3. \A i \in 1 .. n : c[i] = s[i]
      BY <2>1, <2>2
    <2>4. ASSUME NEW i \in 1 .. m PROVE c[n + i] = t[i]
      <3>1. n + i \in 1 .. n + m /\ ~(n + i <= n) /\ (n + i) - n = i
        BY <2>1
      <3> QED
        BY <2>2, <3>1
    <2> QED
      BY <2>3, <2>4
  <1> QED
    BY <1>3, <1>5, <1>6 DEF c, n, m, Concatenates

(* g is the table of the concatenations of the first elements. *)
Flattens(g, s, n) == g = [i \in 1 .. n |-> IF i = 1 THEN s[i] ELSE g[i - 1] \o s[i]]

(* Any number of sequences can be concatenated. *)
LEMMA FlattensExist ==
  ASSUME NEW s
  PROVE  \A n \in Nat : \E g : Flattens(g, s, n)
  <1> DEFINE S == {n \in Nat : \E g : Flattens(g, s, n)}
  <1>1. 0 \in S
    <2>1. Flattens([k \in 1 .. 0 |-> 0], s, 0)
      BY DEF Flattens
    <2> QED
      BY <2>1
  <1>2. ASSUME NEW n \in Nat, n \in S PROVE n + 1 \in S
    <2>1. PICK g : Flattens(g, s, n)
      BY <1>2
    <2> DEFINE last == IF n + 1 = 1 THEN s[n + 1] ELSE g[n] \o s[n + 1]
               h == [k \in 1 .. n + 1 |-> IF k = n + 1 THEN last ELSE g[k]]
    <2>2. ASSUME NEW k \in 1 .. n + 1
          PROVE  h[k] = IF k = 1 THEN s[k] ELSE h[k - 1] \o s[k]
      <3>1. CASE k = n + 1
        <4>1. h[k] = last /\ (k # 1 => h[k - 1] = g[n] /\ n + 1 # 1)
          BY <3>1
        <4> QED
          BY <3>1, <4>1
      <3>2. CASE k # n + 1
        <4>1. k \in 1 .. n
          BY <3>2
        <4>2. g[k] = IF k = 1 THEN s[k] ELSE g[k - 1] \o s[k]
          BY <2>1, <4>1 DEF Flattens
        <4>3. h[k] = g[k] /\ (k # 1 => h[k - 1] = g[k - 1])
          BY <4>1
        <4> QED
          BY <4>2, <4>3
      <3> QED
        BY <3>1, <3>2
    <2>3. Flattens(h, s, n + 1)
      BY <2>2 DEF Flattens
    <2> QED
      BY <2>3
  <1> HIDE DEF S
  <1>3. \A n \in Nat : n \in S
    BY <1>1, <1>2, NatSetInduction
  <1> QED
    BY <1>3 DEF S

(* The elements of m sequences of one element, and no others. *)
Singles(f, c, m) ==
  IsSequence(f) /\ Len(f) = m /\ \A k \in 1 .. m : f[k] = c[k]

(* The challenges of the rounds, in a row: the last rounds have none. *)
LEMMA FlattenSingles ==
  ASSUME NEW n \in Nat, NEW m \in 1 .. n, NEW s, Len(s) = n, NEW c,
         \A k \in 1 .. n : s[k] = IF k <= m THEN <<c[k]>> ELSE <<>>
  PROVE  Singles(FlattenSeq(s), c, m)
  <1>1. \E h : Flattens(h, s, n)
    BY FlattensExist
  <1> DEFINE g == CHOOSE h : Flattens(h, s, n)
  <1>2. Flattens(g, s, n) /\ FlattenSeq(s) = g[n]
    <2>1. n # 0
      OBVIOUS
    <2> QED
      BY <1>1, <2>1, Zenon DEF FlattenSeq, Flattens
  <1> HIDE DEF g
  <1>3. \A i \in 1 .. n : g[i] = IF i = 1 THEN s[i] ELSE g[i - 1] \o s[i]
    BY <1>2, Zenon DEF Flattens
  <1> DEFINE S == {i \in Nat : i \in 1 .. n => Singles(g[i], c, IF i <= m THEN i ELSE m)}
  <1>4. 0 \in S
    OBVIOUS
  <1>5. ASSUME NEW i \in Nat, i \in S PROVE i + 1 \in S
    <2> SUFFICES ASSUME i + 1 \in 1 .. n
                 PROVE  Singles(g[i + 1], c, IF i + 1 <= m THEN i + 1 ELSE m)
      OBVIOUS
    <2>1. CASE i = 0
      <3>1. g[1] = <<c[1]>> /\ i + 1 = 1
        BY <1>3, <2>1
      <3>2. IsSequence(<<c[1]>>) /\ Len(<<c[1]>>) = 1
        BY Tuples
      <3>3. Singles(g[1], c, 1)
        BY <3>1, <3>2 DEF Singles
      <3> QED
        BY <3>1, <3>3
    <2>2. CASE i # 0
      <3> DEFINE l == IF i <= m THEN i ELSE m
      <3>1. Singles(g[i], c, l) /\ g[i + 1] = g[i] \o s[i + 1]
        <4>1. i \in 1 .. n /\ i + 1 # 1 /\ (i + 1) - 1 = i
          BY <2>2
        <4>2. Singles(g[i], c, l)
          BY <1>5, <4>1
        <4>3. g[i + 1] = IF i + 1 = 1 THEN s[i + 1] ELSE g[(i + 1) - 1] \o s[i + 1]
          BY <1>3
        <4> QED
          BY <4>1, <4>2, <4>3
      <3>2. l \in Nat
        OBVIOUS
      <3>3. CASE i + 1 <= m
        <4>1. s[i + 1] = <<c[i + 1]>> /\ l = i
          BY <3>3
        <4>2. IsSequence(<<c[i + 1]>>) /\ Len(<<c[i + 1]>>) = 1
          BY Tuples
        <4> DEFINE t == <<c[i + 1]>>
                   f == g[i + 1]
        <4>3. IsSequence(g[i]) /\ Len(g[i]) = i /\ (\A k \in 1 .. i : g[i][k] = c[k])
          BY <3>1, <4>1 DEF Singles
        <4>4. t[1] = c[i + 1]
          OBVIOUS
        <4> HIDE DEF t, l
        <4>5. IsSequence(t) /\ Len(t) = 1 /\ f = g[i] \o t
          BY <3>1, <4>1, <4>2 DEF t
        <4>6. Concatenates(g[i] \o t, g[i], t)
          BY <4>3, <4>5, Concatenated
        <4> HIDE DEF f
        <4>7. /\ IsSequence(f) /\ Len(f) = i + 1 /\ f[i + 1] = t[1]
              /\ \A k \in 1 .. i : f[k] = g[i][k]
          <5>1. Concatenates(f, g[i], t) /\ 1 \in 1 .. 1
            BY <4>5, <4>6
          <5>2. /\ IsSequence(f) /\ Len(f) = Len(g[i]) + Len(t)
                /\ \A k \in 1 .. Len(g[i]) : f[k] = g[i][k]
                /\ \A k \in 1 .. Len(t) : f[Len(g[i]) + k] = t[k]
            BY <5>1 DEF Concatenates
          <5> QED
            BY <4>3, <4>5, <5>1, <5>2
        <4>8. ASSUME NEW k \in 1 .. i + 1 PROVE f[k] = c[k]
          <5>1. k = i + 1 \/ k \in 1 .. i
            OBVIOUS
          <5> QED
            BY <4>3, <4>4, <4>7, <5>1
        <4>9. Singles(f, c, i + 1)
          BY <4>7, <4>8 DEF Singles
        <4> QED
          BY <3>3, <4>9 DEF f
      <3>4. CASE ~(i + 1 <= m)
        <4>1. s[i + 1] = <<>> /\ l = m /\ m \in Nat
          BY <3>4
        <4>2. IsSequence(g[i]) /\ Len(g[i]) = m /\ (\A k \in 1 .. m : g[i][k] = c[k])
          BY <3>1, <4>1 DEF Singles
        <4> DEFINE f == g[i + 1]
        <4>3. Concatenates(f, g[i], <<>>)
          BY <3>1, <4>1, <4>2, EmptyIsSequence, Concatenated
        <4> HIDE DEF f, l
        <4>4. IsSequence(f) /\ Len(f) = m /\ \A k \in 1 .. m : f[k] = g[i][k]
          BY <4>1, <4>2, <4>3, EmptyIsSequence DEF Concatenates
        <4>5. Singles(f, c, m)
          BY <4>2, <4>4 DEF Singles
        <4> QED
          BY <3>4, <4>5 DEF f
      <3> QED
        BY <3>3, <3>4
    <2> QED
      BY <2>1, <2>2
  <1> HIDE DEF S
  <1>6. \A i \in Nat : i \in S
    BY <1>4, <1>5, NatSetInduction
  <1>7. Singles(g[n], c, IF n <= m THEN n ELSE m)
    BY <1>6 DEF S
  <1>8. (IF n <= m THEN n ELSE m) = m
    OBVIOUS
  <1> QED
    BY <1>2, <1>7, <1>8

(* Part of a sequence. *)
CutFrom(t, s, a, b) ==
  /\ IsSequence(t) /\ Len(t) = b
  /\ \A i \in 1 .. b : t[i] = s[a + i]

(* SubSeq cuts out a part. *)
LEMMA Cut ==
  ASSUME NEW s, NEW a \in Nat, NEW b \in Nat
  PROVE  CutFrom(SubSeq(s, a + 1, a + b), s, a, b)
  <1> DEFINE S == {s[i] : i \in a + 1 .. a + b}
             t == SubSeq(s, a + 1, a + b)
  <1>1. \A i \in a + 1 .. a + b : s[i] \in S
    OBVIOUS
  <1>2. a + 1 \in Int /\ a + b \in Int /\ (a + b) - (a + 1) + 1 = b
    OBVIOUS
  <1>3. /\ t \in Seq(S)
        /\ Len(t) = IF a + 1 <= a + b THEN (a + b) - (a + 1) + 1 ELSE 0
        /\ \A i \in 1 .. (a + b) - (a + 1) + 1 : t[i] = s[a + 1 + i - 1]
    <2> HIDE DEF S
    <2> QED
      BY <1>1, <1>2, SubSeqProperties
  <1>4. Len(t) = b /\ \A i \in 1 .. b : t[i] = s[a + i]
    <2> HIDE DEF t, S
    <2>1. Len(t) = b
      BY <1>3
    <2>2. ASSUME NEW i \in 1 .. b PROVE t[i] = s[a + i]
      <3>1. a + 1 + i - 1 = a + i /\ i \in 1 .. (a + b) - (a + 1) + 1
        OBVIOUS
      <3> QED
        BY <1>3, <3>1
    <2> QED
      BY <2>1, <2>2
  <1>5. DOMAIN t = 1 .. Len(t) /\ t = [i \in 1 .. Len(t) |-> t[i]]
    <2> HIDE DEF S, t
    <2> QED
      BY <1>3, LenProperties
  <1> HIDE DEF t
  <1>6. IsSequence(t)
    BY <1>4, <1>5, FunctionIsSequence
  <1> QED
    BY <1>4, <1>6 DEF CutFrom, t

(* Sequences with the same elements are the same. *)
LEMMA SameSequence ==
  ASSUME NEW s, IsSequence(s), NEW t, IsSequence(t), Len(s) = Len(t),
         \A i \in 1 .. Len(s) : s[i] = t[i]
  PROVE  s = t
  <1>1. s \in Seq(Range(s)) /\ t \in Seq(Range(t))
    BY DEF IsSequence
  <1>2. s = [i \in 1 .. Len(s) |-> s[i]] /\ t = [i \in 1 .. Len(t) |-> t[i]]
    BY <1>1, LenProperties
  <1> QED
    BY <1>2

-----------------------------------------------------------------------------
(* What a challenge depends on *)

(* Everything absorbed by the queries answer k depends on. *)
AbsorbedBefore(o, k) == UNION {Range(q.absorbed) : q \in Ancestry(o, k)}

(* What the next challenge drawn from a transcript will depend on. *)
Seen(t, o) == Range(t.absorbed) \cup AbsorbedBefore(o, t.state)

(* It stays the same as more is asked of the oracle. *)
LEMMA SeenGrown ==
  ASSUME NEW o, NEW p, OracleOK(o), Grown(o, p)
  PROVE  /\ \A k \in 0 .. Len(o) : AbsorbedBefore(p, k) = AbsorbedBefore(o, k)
         /\ \A t : TranscriptOK(t, o) => TranscriptOK(t, p) /\ Seen(t, p) = Seen(t, o)
                                         /\ Ancestry(p, t.state) = Ancestry(o, t.state)
  <1>1. \A k \in 0 .. Len(o) : Ancestry(p, k) = Ancestry(o, k)
    BY AncestryGrown
  <1>2. \A k \in 0 .. Len(o) : AbsorbedBefore(p, k) = AbsorbedBefore(o, k)
    BY <1>1, Zenon DEF AbsorbedBefore
  <1>3. ASSUME NEW t, TranscriptOK(t, o)
        PROVE  TranscriptOK(t, p) /\ Seen(t, p) = Seen(t, o)
               /\ Ancestry(p, t.state) = Ancestry(o, t.state)
    <2>1. t.state \in 0 .. Len(o)
      BY <1>3 DEF TranscriptOK
    <2>2. Len(o) \in Nat /\ Len(p) \in Nat /\ Len(o) <= Len(p)
      BY SequenceFacts DEF OracleOK, Grown
    <2>3. TranscriptOK(t, p)
      BY <1>3, <2>1, <2>2 DEF TranscriptOK
    <2>4. Seen(t, p) = Seen(t, o)
      BY <1>2, <2>1, Zenon DEF Seen
    <2> QED
      BY <1>1, <2>1, <2>3, <2>4
  <1> QED
    BY <1>2, <1>3

(* A challenge depends on all its transcript has seen, and so does what     *)
(* follows it.                                                              *)
LEMMA AnsweredSees ==
  ASSUME NEW o, OracleOK(o), NEW t, TranscriptOK(t, o), NEW label, NEW y, NEW k \in Nat,
         Answered(y, t, label, o, k)
  PROVE  /\ AbsorbedBefore(y.oracle, k) = Seen(t, o)
         /\ Seen(y.transcript, y.oracle) = Seen(t, o)
         /\ Ancestry(y.oracle, y.transcript.state) = Ancestry(y.oracle, k)
         /\ Ancestry(o, t.state) \subseteq Ancestry(y.oracle, k)
  <1> DEFINE q == Query(t, label)
             A == Ancestry(o, t.state)
  <1>1. Ancestry(y.oracle, k) = {q} \cup A
    BY DEF Answered
  <1>2. q.absorbed = t.absorbed
    BY DEF Query
  <1> HIDE DEF q
  <1>3. AbsorbedBefore(y.oracle, k) = Seen(t, o)
    <2>1. AbsorbedBefore(y.oracle, k) = UNION {Range(r.absorbed) : r \in {q} \cup A}
      BY <1>1, Zenon DEF AbsorbedBefore
    <2>2. Seen(t, o) = Range(t.absorbed) \cup UNION {Range(r.absorbed) : r \in A}
      BY Zenon DEF Seen, AbsorbedBefore
    <2> HIDE DEF A
    <2> QED
      BY <1>2, <2>1, <2>2
  <1>4. y.transcript.state = k /\ y.transcript.absorbed = <<>>
    <2>1. y = [challenge |-> <<"challenge", k>>, oracle |-> y.oracle,
               transcript |-> [round |-> t.round + 1, state |-> k, absorbed |-> <<>>]]
      BY DEF Answered
    <2>2. y.transcript = [round |-> t.round + 1, state |-> k, absorbed |-> <<>>]
      BY <2>1
    <2> QED
      BY <2>2
  <1>5. Seen(y.transcript, y.oracle) = AbsorbedBefore(y.oracle, k)
    BY <1>4, EmptyIsSequence DEF Seen
  <1> QED
    BY <1>1, <1>3, <1>4, <1>5

(* What Exchange absorbs for a commitment. *)
Sent(comm) == <<"comm_w_round", comm>>

(* What x = Exchange(s, comm, round, t, o) has to be: the challenges, if    *)
(* there are any, depend on the commitment and on everything before.        *)
Exchanged(x, none, comm, t, o) ==
  /\ x = [challenges |-> x.challenges, transcript |-> x.transcript, oracle |-> x.oracle]
  /\ Grown(o, x.oracle)
  /\ TranscriptOK(x.transcript, x.oracle)
  /\ Seen(t, o) \cup {Sent(comm)} \subseteq Seen(x.transcript, x.oracle)
  /\ Ancestry(o, t.state) \subseteq Ancestry(x.oracle, x.transcript.state)
  /\ none => x.challenges = <<>>
  /\ ~none => \E p \in 1 .. Len(x.oracle) :
                /\ x.challenges = <<<<"challenge", p>>>>
                /\ Seen(t, o) \cup {Sent(comm)} \subseteq AbsorbedBefore(x.oracle, p)
                /\ Ancestry(o, t.state) \subseteq Ancestry(x.oracle, p)

(* Whoever makes the exchange again later gets the same challenges. *)
Repeats(s, comm, round, t, o) ==
  \A p : Grown(Exchange(s, comm, round, t, o).oracle, p) =>
           Exchange(s, comm, round, t, p)
             = [challenges |-> Exchange(s, comm, round, t, o).challenges,
                transcript |-> Exchange(s, comm, round, t, o).transcript, oracle |-> p]

(* Exchange binds the commitment before it draws, and can be made again. *)
LEMMA ExchangeFacts ==
  ASSUME NEW o, OracleOK(o), NEW t, TranscriptOK(t, o), NEW s, NEW comm, NEW round
  PROVE  /\ Exchanged(Exchange(s, comm, round, t, o), s.num_challenges[round + 1] = 0,
                      comm, t, o)
         /\ Repeats(s, comm, round, t, o)
  <1> DEFINE none == s.num_challenges[round + 1] = 0
             b == Absorb(t, "comm_w_round", comm)
             y == Squeeze(b, "challenge", o)
             x == Exchange(s, comm, round, t, o)
  <1>1. Bound(b, t, Sent(comm), o)
    BY AbsorbFacts DEF Sent
  <1> HIDE DEF b
  <1>2. /\ TranscriptOK(b, o) /\ b.state = t.state
        /\ Range(b.absorbed) = Range(t.absorbed) \cup {Sent(comm)}
    BY <1>1 DEF Bound
  <1>3. Seen(b, o) = Seen(t, o) \cup {Sent(comm)}
    BY <1>2 DEF Seen
  <1>4. PICK k \in Nat : Answered(y, b, "challenge", o, k)
    BY <1>2, SqueezeAnswers
  <1>5. /\ x = IF none THEN [challenges |-> <<>>, transcript |-> b, oracle |-> o]
               ELSE [challenges |-> <<y.challenge>>, transcript |-> y.transcript,
                     oracle |-> y.oracle]
        /\ \A p : Exchange(s, comm, round, t, p)
             = IF none THEN [challenges |-> <<>>, transcript |-> b, oracle |-> p]
               ELSE [challenges |-> <<Squeeze(b, "challenge", p).challenge>>,
                     transcript |-> Squeeze(b, "challenge", p).transcript,
                     oracle |-> Squeeze(b, "challenge", p).oracle]
    BY Zenon DEF Exchange, b
  <1> HIDE DEF none, x, y
  <1>6. CASE none
    <2>1. x = [challenges |-> <<>>, transcript |-> b, oracle |-> o]
      BY <1>5, <1>6
    <2>2. x.challenges = <<>> /\ x.transcript = b /\ x.oracle = o
      BY <2>1
    <2>3. Exchanged(x, none, comm, t, o)
      BY <1>2, <1>3, <1>6, <2>1, <2>2, GrownReflexive DEF Exchanged
    <2>4. \A p : Exchange(s, comm, round, t, p)
                   = [challenges |-> x.challenges, transcript |-> x.transcript, oracle |-> p]
      BY <1>5, <1>6, <2>2
    <2> QED
      BY <2>3, <2>4, Zenon DEF x, none, Repeats
  <1>7. CASE ~none
    <2>1. x = [challenges |-> <<y.challenge>>, transcript |-> y.transcript,
               oracle |-> y.oracle]
      BY <1>5, <1>7
    <2>2. /\ x.challenges = <<y.challenge>> /\ x.transcript = y.transcript
          /\ x.oracle = y.oracle
      BY <2>1
    <2>3. /\ y.challenge = <<"challenge", k>>
          /\ y.transcript = [round |-> b.round + 1, state |-> k, absorbed |-> <<>>]
      <3>1. y = [challenge |-> <<"challenge", k>>, oracle |-> y.oracle,
                 transcript |-> [round |-> b.round + 1, state |-> k, absorbed |-> <<>>]]
        BY <1>4 DEF Answered
      <3> QED
        BY <3>1
    <2>4. /\ AbsorbedBefore(y.oracle, k) = Seen(b, o)
          /\ Seen(y.transcript, y.oracle) = Seen(b, o)
          /\ Ancestry(y.oracle, y.transcript.state) = Ancestry(y.oracle, k)
          /\ Ancestry(o, b.state) \subseteq Ancestry(y.oracle, k)
      BY <1>2, <1>4, AnsweredSees
    <2>5. /\ Grown(o, y.oracle) /\ TranscriptOK(y.transcript, y.oracle)
          /\ k \in 1 .. Len(y.oracle) /\ y.oracle[k] = Query(b, "challenge")
      BY <1>4 DEF Answered
    <2>6. Exchanged(x, none, comm, t, o)
      BY <1>2, <1>3, <1>7, <2>1, <2>2, <2>3, <2>4, <2>5 DEF Exchanged
    <2>7. ASSUME NEW p, Grown(x.oracle, p)
          PROVE  Exchange(s, comm, round, t, p)
                   = [challenges |-> x.challenges, transcript |-> x.transcript, oracle |-> p]
      <3>1. OracleOK(p) /\ k \in 1 .. Len(p) /\ p[k] = Query(b, "challenge")
        <4>1. /\ OracleOK(p) /\ OracleOK(y.oracle) /\ Len(y.oracle) <= Len(p)
              /\ \A j \in 1 .. Len(y.oracle) : p[j] = y.oracle[j]
          BY <2>2, <2>5, <2>7 DEF Grown
        <4>2. Len(p) \in Nat /\ Len(y.oracle) \in Nat
          BY <4>1, SequenceFacts DEF OracleOK
        <4> QED
          BY <2>5, <4>1, <4>2
      <3>2. Squeeze(b, "challenge", p)
              = [challenge |-> <<"challenge", k>>, oracle |-> p,
                 transcript |-> [round |-> b.round + 1, state |-> k, absorbed |-> <<>>]]
        BY <3>1, SqueezeAgain
      <3>3. /\ Squeeze(b, "challenge", p).challenge = y.challenge
            /\ Squeeze(b, "challenge", p).transcript = y.transcript
            /\ Squeeze(b, "challenge", p).oracle = p
        BY <2>3, <3>2
      <3> QED
        BY <1>5, <1>7, <2>2, <3>3
    <2> QED
      BY <2>6, <2>7, Zenon DEF x, none, Repeats
  <1> QED
    BY <1>6, <1>7

-----------------------------------------------------------------------------
(* The rounds *)

(* The witness a round starts from, and the commitment to its segment. *)
RoundWitness(state, s, synthesis, round) ==
  Copied(s, state.w, state.aux \o synthesis.aux, round)

(* The commitment that is sent in the round. *)
RoundSent(state, s, synthesis, round) ==
  RoundCommitment(s, RoundWitness(state, s, synthesis, round), round)

(* The exchange of the round. *)
RoundExchange(state, s, synthesis, round, t, o) ==
  Exchange(s, RoundSent(state, s, synthesis, round), round, t, o)

(* process_round, field by field, with e its exchange. *)
Processed(x, e, state, s, synthesis, round) ==
  /\ x.challenges = e.challenges /\ x.transcript = e.transcript /\ x.oracle = e.oracle
  /\ x.state.aux = state.aux \o synthesis.aux
  /\ x.state.inputs = state.inputs \o synthesis.inputs
  /\ x.state.checks = state.checks \cup synthesis.checks
  /\ x.state.vars_per_round = Append(state.vars_per_round, synthesis.vars)
  /\ x.state.challenges_per_round
       = Append(state.challenges_per_round, synthesis.challenges)
  /\ x.state.challenges = Append(state.challenges, e.challenges)
  /\ x.state.comm_w_per_round
       = Append(state.comm_w_per_round, RoundSent(state, s, synthesis, round))
  /\ x.state.w = RoundWitness(state, s, synthesis, round)

(* process_round consists of these fields. *)
LEMMA ProcessRoundIs ==
  ASSUME NEW state, NEW s, NEW synthesis, NEW round, NEW t, NEW o
  PROVE  Processed(ProcessRound(state, s, synthesis, round, t, o),
                   RoundExchange(state, s, synthesis, round, t, o),
                   state, s, synthesis, round)
  <1> DEFINE aux == state.aux \o synthesis.aux
             w == RoundWitness(state, s, synthesis, round)
             comm == RoundSent(state, s, synthesis, round)
             e == RoundExchange(state, s, synthesis, round, t, o)
             x == ProcessRound(state, s, synthesis, round, t, o)
             inputs == state.inputs \o synthesis.inputs
             a == Append(state.vars_per_round, synthesis.vars)
             b == Append(state.challenges_per_round, synthesis.challenges)
             c == Append(state.challenges, e.challenges)
             d == Append(state.comm_w_per_round, comm)
             checks == state.checks \cup synthesis.checks
  <1>1. x = [state |-> [aux |-> aux, inputs |-> inputs, checks |-> checks,
                        vars_per_round |-> a, challenges_per_round |-> b,
                        challenges |-> c, comm_w_per_round |-> d, w |-> w],
             challenges |-> e.challenges, transcript |-> e.transcript, oracle |-> e.oracle]
    BY Zenon DEF ProcessRound, RoundWitness, RoundSent, RoundExchange
  <1> HIDE DEF aux, w, comm, e, x, inputs, a, b, c, d, checks
  <1>2. /\ x.state = [aux |-> aux, inputs |-> inputs, checks |-> checks,
                      vars_per_round |-> a, challenges_per_round |-> b,
                      challenges |-> c, comm_w_per_round |-> d, w |-> w]
        /\ x.challenges = e.challenges /\ x.transcript = e.transcript
        /\ x.oracle = e.oracle
    BY <1>1
  <1>3. /\ x.state.aux = aux /\ x.state.inputs = inputs /\ x.state.checks = checks
        /\ x.state.vars_per_round = a /\ x.state.challenges_per_round = b
        /\ x.state.challenges = c /\ x.state.comm_w_per_round = d /\ x.state.w = w
    BY <1>2
  <1> QED
    BY <1>2, <1>3, Zenon DEF Processed, aux, w, comm, e, x, inputs, a, b, c, d, checks

(* Every challenge depends on the queries in B and on the commitments to    *)
(* its own round and to all earlier ones; so will the next one.             *)
ChallengeBound(state, k, o, B) ==
  \/ state.challenges[k] = <<>>
  \/ \E p \in 1 .. Len(o) :
       /\ state.challenges[k] = <<<<"challenge", p>>>>
       /\ B \subseteq Ancestry(o, p)
       /\ \A j \in 1 .. k : Sent(state.comm_w_per_round[j]) \in AbsorbedBefore(o, p)

(* This holds of all rounds, and will of the next challenge. *)
RoundsBound(state, t, o, B) ==
  /\ OracleOK(o) /\ TranscriptOK(t, o)
  /\ IsSequence(state.challenges) /\ IsSequence(state.comm_w_per_round)
  /\ Len(state.comm_w_per_round) = Len(state.challenges)
  /\ B \subseteq Ancestry(o, t.state)
  /\ \A j \in 1 .. Len(state.challenges) : Sent(state.comm_w_per_round[j]) \in Seen(t, o)
  /\ \A k \in 1 .. Len(state.challenges) : ChallengeBound(state, k, o, B)

(* This stays so whoever asks the oracle. *)
LEMMA BoundGrown ==
  ASSUME NEW state, NEW t, NEW o, NEW B, RoundsBound(state, t, o, B), NEW p, Grown(o, p)
  PROVE  RoundsBound(state, t, p, B)
  <1> DEFINE n == Len(state.challenges)
  <1>1. OracleOK(o) /\ TranscriptOK(t, o) /\ OracleOK(p)
    BY DEF RoundsBound, Grown
  <1>2. /\ \A k \in 0 .. Len(o) : AbsorbedBefore(p, k) = AbsorbedBefore(o, k)
        /\ TranscriptOK(t, p) /\ Seen(t, p) = Seen(t, o)
        /\ Ancestry(p, t.state) = Ancestry(o, t.state)
        /\ \A k \in 0 .. Len(o) : Ancestry(p, k) = Ancestry(o, k)
    BY <1>1, SeenGrown, AncestryGrown
  <1>3. Len(o) \in Nat /\ Len(p) \in Nat /\ Len(o) <= Len(p)
    BY <1>1, SequenceFacts DEF OracleOK, Grown
  <1>4. ASSUME NEW k \in 1 .. n PROVE ChallengeBound(state, k, p, B)
    <2>1. ChallengeBound(state, k, o, B)
      BY DEF RoundsBound
    <2>2. CASE state.challenges[k] = <<>>
      BY <2>2 DEF ChallengeBound
    <2>3. CASE state.challenges[k] # <<>>
      <3>1. PICK q \in 1 .. Len(o) :
              /\ state.challenges[k] = <<<<"challenge", q>>>>
              /\ B \subseteq Ancestry(o, q)
              /\ \A j \in 1 .. k : Sent(state.comm_w_per_round[j]) \in AbsorbedBefore(o, q)
        BY <2>1, <2>3 DEF ChallengeBound
      <3>2. /\ q \in 1 .. Len(p) /\ Ancestry(p, q) = Ancestry(o, q)
            /\ AbsorbedBefore(p, q) = AbsorbedBefore(o, q)
        BY <1>2, <1>3
      <3> QED
        BY <3>1, <3>2 DEF ChallengeBound
    <2> QED
      BY <2>2, <2>3
  <1> QED
    BY <1>1, <1>2, <1>4 DEF RoundsBound

(* At the start there is nothing to bind. *)
LEMMA BoundStart ==
  ASSUME NEW s, NEW zero, NEW t, NEW o, OracleOK(o), TranscriptOK(t, o), NEW B,
         B \subseteq Ancestry(o, t.state)
  PROVE  RoundsBound(NewState(s, zero), t, o, B) /\ Len(NewState(s, zero).challenges) = 0
  <1>1. NewState(s, zero).challenges = <<>> /\ NewState(s, zero).comm_w_per_round = <<>>
    BY DEF NewState
  <1> QED
    BY <1>1, EmptyIsSequence DEF RoundsBound

(* One more round. *)
LEMMA BoundProcessed ==
  ASSUME NEW state, NEW t, NEW o, NEW B, RoundsBound(state, t, o, B),
         NEW s, NEW synthesis, NEW round, NEW x, NEW e,
         e = RoundExchange(state, s, synthesis, round, t, o),
         Processed(x, e, state, s, synthesis, round)
  PROVE  /\ RoundsBound(x.state, x.transcript, x.oracle, B)
         /\ Grown(o, x.oracle)
         /\ Len(x.state.challenges) = Len(state.challenges) + 1
  <1> DEFINE comm == RoundSent(state, s, synthesis, round)
             none == s.num_challenges[round + 1] = 0
             n == Len(state.challenges)
  <1>1. /\ OracleOK(o) /\ TranscriptOK(t, o)
        /\ IsSequence(state.challenges) /\ IsSequence(state.comm_w_per_round)
        /\ Len(state.comm_w_per_round) = n
        /\ B \subseteq Ancestry(o, t.state)
        /\ \A j \in 1 .. n : Sent(state.comm_w_per_round[j]) \in Seen(t, o)
        /\ \A k \in 1 .. n : ChallengeBound(state, k, o, B)
    BY DEF RoundsBound
  <1>2. Exchanged(e, none, comm, t, o)
    BY <1>1, ExchangeFacts DEF RoundExchange
  <1>3. /\ x.transcript = e.transcript /\ x.oracle = e.oracle
        /\ x.state.challenges = Append(state.challenges, e.challenges)
        /\ x.state.comm_w_per_round = Append(state.comm_w_per_round, comm)
    BY DEF Processed
  <1> HIDE DEF comm, none
  <1>4. n \in Nat
    BY <1>1, SequenceFacts
  <1>5. /\ IsSequence(x.state.challenges) /\ Len(x.state.challenges) = n + 1
        /\ \A i \in 1 .. n : x.state.challenges[i] = state.challenges[i]
        /\ x.state.challenges[n + 1] = e.challenges
    BY <1>1, <1>3, Appended
  <1>6. /\ IsSequence(x.state.comm_w_per_round) /\ Len(x.state.comm_w_per_round) = n + 1
        /\ \A i \in 1 .. n : x.state.comm_w_per_round[i] = state.comm_w_per_round[i]
        /\ x.state.comm_w_per_round[n + 1] = comm
    BY <1>1, <1>3, Appended
  <1>7. /\ Grown(o, e.oracle) /\ TranscriptOK(e.transcript, e.oracle)
        /\ Seen(t, o) \cup {Sent(comm)} \subseteq Seen(e.transcript, e.oracle)
        /\ Ancestry(o, t.state) \subseteq Ancestry(e.oracle, e.transcript.state)
        /\ none => e.challenges = <<>>
        /\ ~none => \E p \in 1 .. Len(e.oracle) :
                /\ e.challenges = <<<<"challenge", p>>>>
                /\ Seen(t, o) \cup {Sent(comm)} \subseteq AbsorbedBefore(e.oracle, p)
                /\ Ancestry(o, t.state) \subseteq Ancestry(e.oracle, p)
    BY <1>2, Zenon DEF Exchanged
  <1>8. RoundsBound(state, t, e.oracle, B)
    BY <1>7, BoundGrown
  <1>9. /\ OracleOK(e.oracle) /\ B \subseteq Ancestry(e.oracle, e.transcript.state)
        /\ \A k \in 1 .. n : ChallengeBound(state, k, e.oracle, B)
    BY <1>1, <1>7, <1>8 DEF RoundsBound
  <1> HIDE DEF n
  <1>10. \A j \in 1 .. n + 1 : Sent(x.state.comm_w_per_round[j]) \in Seen(t, o) \cup {Sent(comm)}
    <2> SUFFICES ASSUME NEW j \in 1 .. n + 1
                 PROVE Sent(x.state.comm_w_per_round[j]) \in Seen(t, o) \cup {Sent(comm)}
      OBVIOUS
    <2>1. CASE j = n + 1
      BY <1>6, <2>1
    <2>2. CASE j # n + 1
      <3>1. j \in 1 .. n
        BY <1>4, <2>2
      <3> QED
        BY <1>1, <1>6, <3>1
    <2> QED
      BY <2>1, <2>2
  <1>11. ASSUME NEW k \in 1 .. n + 1 PROVE ChallengeBound(x.state, k, e.oracle, B)
    <2>1. CASE k = n + 1
      <3>1. CASE none
        BY <1>5, <1>7, <2>1, <3>1 DEF ChallengeBound
      <3>2. CASE ~none
        <4>1. PICK p \in 1 .. Len(e.oracle) :
                /\ e.challenges = <<<<"challenge", p>>>>
                /\ Seen(t, o) \cup {Sent(comm)} \subseteq AbsorbedBefore(e.oracle, p)
                /\ Ancestry(o, t.state) \subseteq Ancestry(e.oracle, p)
          BY <1>7, <3>2
        <4>2. \A j \in 1 .. k : Sent(x.state.comm_w_per_round[j]) \in AbsorbedBefore(e.oracle, p)
          BY <1>10, <2>1, <4>1
        <4>3. x.state.challenges[k] = <<<<"challenge", p>>>> /\ B \subseteq Ancestry(e.oracle, p)
          BY <1>1, <1>5, <2>1, <4>1
        <4> QED
          BY <4>2, <4>3 DEF ChallengeBound
      <3> QED
        BY <3>1, <3>2
    <2>2. CASE k # n + 1
      <3>1. k \in 1 .. n /\ \A j \in 1 .. k : j \in 1 .. n
        BY <1>4, <2>2
      <3>2. ChallengeBound(state, k, e.oracle, B)
        BY <1>9, <3>1
      <3>3. /\ x.state.challenges[k] = state.challenges[k]
            /\ \A j \in 1 .. k : x.state.comm_w_per_round[j] = state.comm_w_per_round[j]
        BY <1>5, <1>6, <3>1
      <3> QED
        BY <3>2, <3>3 DEF ChallengeBound
    <2> QED
      BY <2>1, <2>2
  <1>12. RoundsBound(x.state, x.transcript, x.oracle, B)
    BY <1>3, <1>5, <1>6, <1>7, <1>9, <1>10, <1>11 DEF RoundsBound
  <1> QED
    BY <1>3, <1>5, <1>7, <1>12 DEF n

(* What is bound is what a verifier can see in the challenge. *)
LEMMA BoundShows ==
  ASSUME NEW state, NEW t, NEW o, NEW B, RoundsBound(state, t, o, B)
  PROVE  \A k \in 1 .. Len(state.challenges) : \A c \in Range(state.challenges[k]) :
           /\ \A j \in 1 .. k :
                \E query \in Ancestry(o, c[2]) :
                  <<"comm_w_round", state.comm_w_per_round[j]>> \in Range(query.absorbed)
           /\ B \subseteq Ancestry(o, c[2])
  <1> SUFFICES ASSUME NEW k \in 1 .. Len(state.challenges),
                      NEW c \in Range(state.challenges[k])
               PROVE  /\ \A j \in 1 .. k :
                            \E query \in Ancestry(o, c[2]) :
                              <<"comm_w_round", state.comm_w_per_round[j]>> \in Range(query.absorbed)
                      /\ B \subseteq Ancestry(o, c[2])
    OBVIOUS
  <1>1. ChallengeBound(state, k, o, B)
    BY DEF RoundsBound
  <1>2. state.challenges[k] # <<>>
    BY EmptyIsSequence
  <1>3. PICK p \in 1 .. Len(o) :
          /\ state.challenges[k] = <<<<"challenge", p>>>>
          /\ B \subseteq Ancestry(o, p)
          /\ \A j \in 1 .. k : Sent(state.comm_w_per_round[j]) \in AbsorbedBefore(o, p)
    BY <1>1, <1>2 DEF ChallengeBound
  <1>4. c = <<"challenge", p>>
    <2>1. Range(<<<<"challenge", p>>>>) = {<<"challenge", p>>}
      BY DEF Range
    <2> QED
      BY <1>3, <2>1
  <1>5. c[2] = p
    BY <1>4
  <1>6. ASSUME NEW j \in 1 .. k
        PROVE  \E query \in Ancestry(o, p) : Sent(state.comm_w_per_round[j]) \in Range(query.absorbed)
    BY <1>3, Zenon DEF AbsorbedBefore
  <1> QED
    BY <1>3, <1>5, <1>6 DEF Sent

(* validate makes the exchange again. *)
Validated(x, e, U, s, round) ==
  /\ x.transcript = e.transcript /\ x.oracle = e.oracle
  /\ x.ok <=> /\ Len(U.comm_w_per_round[round + 1].segment) = s.num_vars[round + 1]
              /\ U.challenges_per_round[round + 1] = e.challenges

(* A round of validate passes if the exchange gives the challenges of the   *)
(* instance.                                                                *)
LEMMA ValidateIs ==
  ASSUME NEW U, NEW s, NEW round, NEW t, NEW o
  PROVE  Validated(ValidateRound(U, s, round, t, o),
                   Exchange(s, U.comm_w_per_round[round + 1], round, t, o), U, s, round)
  <1> DEFINE comm == U.comm_w_per_round[round + 1]
             b == Absorb(t, "comm_w_round", comm)
             y == Squeeze(b, "challenge", o)
             none == s.num_challenges[round + 1] = 0
             chs == IF none THEN <<>> ELSE <<y.challenge>>
             next == IF none THEN b ELSE y.transcript
             p == IF none THEN o ELSE y.oracle
             ok == /\ Len(comm.segment) = s.num_vars[round + 1]
                   /\ U.challenges_per_round[round + 1] = chs
             x == ValidateRound(U, s, round, t, o)
             e == Exchange(s, comm, round, t, o)
  <1>1. x = [ok |-> ok, transcript |-> next, oracle |-> p]
    BY Zenon DEF ValidateRound
  <1>2. e = IF none THEN [challenges |-> <<>>, transcript |-> b, oracle |-> o]
            ELSE [challenges |-> <<y.challenge>>, transcript |-> y.transcript,
                  oracle |-> y.oracle]
    BY Zenon DEF Exchange
  <1>3. e.challenges = chs /\ e.transcript = next /\ e.oracle = p
    <2> HIDE DEF e, none, b, y
    <2> QED
      BY <1>2
  <1>4. x.transcript = next /\ x.oracle = p /\ x.ok = ok
    <2> HIDE DEF x, next, p, ok
    <2> QED
      BY <1>1
  <1>5. ok <=> /\ Len(comm.segment) = s.num_vars[round + 1]
               /\ U.challenges_per_round[round + 1] = e.challenges
    <2> HIDE DEF e, comm, chs
    <2> QED
      BY <1>3
  <1> HIDE DEF x, e, next, p, ok, chs
  <1>6. /\ x.transcript = e.transcript /\ x.oracle = e.oracle
        /\ x.ok <=> /\ Len(comm.segment) = s.num_vars[round + 1]
                    /\ U.challenges_per_round[round + 1] = e.challenges
    BY <1>3, <1>4, <1>5
  <1> QED
    BY <1>6, Zenon DEF Validated, x, e, comm

-----------------------------------------------------------------------------
(* The witness *)

(* Padding to the width never shortens, and a full row stays as it is. *)
LEMMA Padding ==
  ASSUME NEW width \in Nat \ {0}, NEW k \in Nat
  PROVE  PadToWidth(width, k) \in Nat /\ PadToWidth(width, k) >= k
         /\ PadToWidth(width, width) = width
  <1>1. /\ DivCeil(k, width) \in Nat /\ k <= DivCeil(k, width) * width
    BY CeilingCovers
  <1>2. DivCeil(width, width) = 1
    <2>1. 1 \in Nat /\ width <= 1 * width /\ 1 * width < width + width
      OBVIOUS
    <2> QED
      BY <2>1, CeilingIs
  <1>3. /\ PadToWidth(width, k) = DivCeil(k, width) * width
        /\ PadToWidth(width, width) = DivCeil(width, width) * width
    BY DEF PadToWidth
  <1> DEFINE q == DivCeil(k, width)
  <1>4. q \in Nat /\ k <= q * width
    BY <1>1
  <1> HIDE DEF q
  <1>5. q * width \in Nat /\ q * width >= k
    BY <1>4
  <1> QED
    BY <1>2, <1>3, <1>5 DEF q

(* A vector of length n. *)
OnTo(w, n) == DOMAIN w = 1 .. n /\ w = [k \in 1 .. n |-> w[k]]

(* Copying the variables of a round keeps the length of the witness. *)
LEMMA CopiedKeeps ==
  ASSUME NEW s, NEW n, NEW w, OnTo(w, n), NEW aux, NEW round
  PROVE  OnTo(Copied(s, w, aux, round), n)
  <1> DEFINE from == SumFirst(s.num_vars_unpadded, round)
             to == SumFirst(s.num_vars, round)
             len == s.num_vars_unpadded[round + 1]
             v == [k \in DOMAIN w |-> IF k \in to + 1 .. to + len THEN aux[from + k - to] ELSE w[k]]
             c == Copied(s, w, aux, round)
  <1>1. c = IF Len(aux) >= from + len THEN v ELSE w
    BY Zenon DEF Copied
  <1>2. DOMAIN w = 1 .. n
    BY DEF OnTo
  <1>3. OnTo(v, n)
    <2>1. DOMAIN v = 1 .. n /\ v = [k \in 1 .. n |-> v[k]]
      BY <1>2
    <2> HIDE DEF v
    <2> QED
      BY <2>1 DEF OnTo
  <1> HIDE DEF c, v
  <1> QED
    BY <1>1, <1>3 DEF c

(* The commitment of a round is to its segment; a segment that fills its    *)
(* place holds what the round allocated.                                    *)
Segments(comm, s, aux, round) ==
  /\ Len(comm.segment) = s.num_vars[round + 1]
  /\ s.num_vars[round + 1] = s.num_vars_unpadded[round + 1] =>
       CutFrom(comm.segment, aux, SumFirst(s.num_vars_unpadded, round),
               s.num_vars[round + 1])

(* The commitment that RoundCommitment makes after Copied is such a one. *)
LEMMA SegmentIs ==
  ASSUME NEW s, NEW w, NEW aux, NEW round,
         SumFirst(s.num_vars, round) \in Nat, s.num_vars[round + 1] \in Nat,
         SumFirst(s.num_vars_unpadded, round) \in Nat,
         NEW n \in Nat, OnTo(w, n), SumFirst(s.num_vars, round) + s.num_vars[round + 1] <= n,
         Len(aux) >= SumFirst(s.num_vars_unpadded, round) + s.num_vars_unpadded[round + 1]
  PROVE  Segments(RoundCommitment(s, Copied(s, w, aux, round), round), s, aux, round)
  <1> DEFINE to == SumFirst(s.num_vars, round)
             from == SumFirst(s.num_vars_unpadded, round)
             len == s.num_vars[round + 1]
             min == s.num_vars_unpadded[round + 1]
             v == [k \in DOMAIN w |-> IF k \in to + 1 .. to + min THEN aux[from + k - to] ELSE w[k]]
             t == SubSeq(v, to + 1, to + len)
             comm == RoundCommitment(s, Copied(s, w, aux, round), round)
  <1>1. Copied(s, w, aux, round) = IF Len(aux) >= from + min THEN v ELSE w
    BY Zenon DEF Copied
  <1>2. Copied(s, w, aux, round) = v
    <2> HIDE DEF v, from, min
    <2> QED
      BY <1>1 DEF from, min
  <1>3. comm = [segment |-> t, blind |-> round]
    BY <1>2, Zenon DEF RoundCommitment
  <1>4. comm.segment = t
    <2> HIDE DEF comm, t
    <2> QED
      BY <1>3
  <1>5. to \in Nat /\ from \in Nat /\ len \in Nat /\ to + len <= n
    OBVIOUS
  <1>6. CutFrom(t, v, to, len)
    <2> HIDE DEF v, to, len
    <2> QED
      BY <1>5, Cut
  <1>7. DOMAIN w = 1 .. n
    BY DEF OnTo
  <1>8. ASSUME min = len PROVE CutFrom(t, aux, from, len)
    <2>1. ASSUME NEW i \in 1 .. len PROVE t[i] = aux[from + i]
      <3> DEFINE k == to + i
      <3>1. k \in 1 .. n /\ k \in to + 1 .. to + min /\ from + k - to = from + i
        <4> HIDE DEF to, from, len, min
        <4> QED
          BY <1>5, <1>8
      <3> HIDE DEF k, to, from, min, len
      <3>2. v[k] = aux[from + k - to]
        BY <1>7, <3>1
      <3> HIDE DEF v, t
      <3>3. t[i] = v[to + i]
        BY <1>6 DEF CutFrom
      <3> QED
        BY <3>1, <3>2, <3>3 DEF k
    <2> HIDE DEF v, to, from, len, t
    <2> QED
      BY <1>6, <2>1 DEF CutFrom
  <1>9. Len(t) = len
    BY <1>6 DEF CutFrom
  <1> HIDE DEF t, comm, v
  <1>10. Segments(comm, s, aux, round)
    BY <1>4, <1>8, <1>9 DEF Segments
  <1> QED
    BY <1>10 DEF comm

-----------------------------------------------------------------------------
(* Arithmetic modulo P                                                      *)

(* x and y differ by a multiple of the prime. *)
Same(x, y) == \E q \in Int : x = y + q * P

(* The prime is a natural number that is not 0. *)
LEMMA PrimeSize == P \in Nat /\ P > 3
  BY PAssumption

(* A remainder differs from the number by a multiple. *)
LEMMA Remainder ==
  ASSUME NEW x \in Int
  PROVE  x % P \in Field /\ Same(x % P, x)
  <1>1. P \in Nat /\ P > 0
    BY PrimeSize
  <1> DEFINE q == x \div P
             r == x % P
  <1>2. q \in Int /\ r \in 0 .. P - 1 /\ x = P * q + r
    BY <1>1
  <1> HIDE DEF q, r
  <1>3. r = x + (-q) * P /\ -q \in Int
    BY <1>1, <1>2
  <1> QED
    BY <1>2, <1>3 DEF r, Same, Field

(* Field elements that differ by a multiple are equal. *)
LEMMA SameIsEqual ==
  ASSUME NEW x \in Field, NEW y \in Field, Same(x, y)
  PROVE  x = y
  <1>1. P \in Nat /\ P > 0 /\ x \in 0 .. P - 1 /\ y \in 0 .. P - 1
    BY PrimeSize DEF Field
  <1>2. PICK q \in Int : x = y + q * P
    BY DEF Same
  <1>3. ~(q >= 1)
    <2>1. SUFFICES ASSUME q >= 1 PROVE FALSE
      OBVIOUS
    <2>2. PICK k \in Nat : q = 1 + k
      BY <2>1
    <2>3. q * P = P + k * P /\ k * P \in Nat
      BY <1>1, <2>2
    <2> QED
      BY <1>1, <1>2, <2>3
  <1>4. ~(q <= -1)
    <2>1. SUFFICES ASSUME q <= -1 PROVE FALSE
      OBVIOUS
    <2>2. PICK k \in Nat : q = -1 - k
      BY <2>1
    <2>3. q * P = -P - k * P /\ k * P \in Nat
      BY <1>1, <2>2
    <2> QED
      BY <1>1, <1>2, <2>3
  <1>5. q = 0
    BY <1>3, <1>4
  <1> QED
    BY <1>1, <1>2, <1>5

(* Congruences are symmetric and transitive, and add and multiply. *)
LEMMA SameIs ==
  ASSUME NEW x \in Int, NEW y \in Int
  PROVE  /\ Same(x, x)
         /\ Same(x, y) => Same(y, x)
         /\ \A z \in Int : Same(x, y) /\ Same(y, z) => Same(x, z)
  <1>1. P \in Int
    BY PrimeSize
  <1>2. Same(x, x)
    <2>1. x = x + 0 * P /\ 0 \in Int
      BY <1>1
    <2> QED
      BY <2>1 DEF Same
  <1>3. ASSUME Same(x, y) PROVE Same(y, x)
    <2>1. PICK q \in Int : x = y + q * P
      BY <1>3 DEF Same
    <2>2. y = x + (-q) * P /\ -q \in Int
      BY <1>1, <2>1
    <2> QED
      BY <2>2 DEF Same
  <1>4. ASSUME NEW z \in Int, Same(x, y), Same(y, z) PROVE Same(x, z)
    <2>1. PICK q \in Int : x = y + q * P
      BY <1>4 DEF Same
    <2>2. PICK s \in Int : y = z + s * P
      BY <1>4 DEF Same
    <2>3. x = z + (q + s) * P /\ q + s \in Int
      BY <1>1, <2>1, <2>2
    <2> QED
      BY <2>3 DEF Same
  <1> QED
    BY <1>2, <1>3, <1>4

LEMMA SameOps ==
  ASSUME NEW x \in Int, NEW y \in Int, NEW a \in Int, NEW b \in Int, Same(x, a), Same(y, b)
  PROVE  Same(x + y, a + b) /\ Same(x - y, a - b) /\ Same(x * y, a * b)
  <1>1. P \in Int
    BY PrimeSize
  <1>2. PICK q \in Int : x = a + q * P
    BY DEF Same
  <1>3. PICK s \in Int : y = b + s * P
    BY DEF Same
  <1>4. x + y = (a + b) + (q + s) * P /\ q + s \in Int
    BY <1>1, <1>2, <1>3
  <1>5. x - y = (a - b) + (q - s) * P /\ q - s \in Int
    BY <1>1, <1>2, <1>3
  <1>6. x * y = (a * b) + (a * s + q * b + q * s * P) * P /\ a * s + q * b + q * s * P \in Int
    BY <1>1, <1>2, <1>3
  <1> QED
    BY <1>4, <1>5, <1>6 DEF Same

(* A field operation is the operation on the integers its operands stand   *)
(* for.                                                                    *)
LEMMA FieldOps ==
  ASSUME NEW x \in Field, NEW y \in Field, NEW a \in Int, NEW b \in Int, Same(x, a), Same(y, b)
  PROVE  /\ Plus(x, y) \in Field /\ Same(Plus(x, y), a + b)
         /\ Minus(x, y) \in Field /\ Same(Minus(x, y), a - b)
         /\ Times(x, y) \in Field /\ Same(Times(x, y), a * b)
  <1>1. P \in Int /\ x \in Int /\ y \in Int /\ x + y \in Int /\ x + P - y \in Int /\ x * y \in Int
        /\ a + b \in Int /\ a - b \in Int /\ a * b \in Int /\ x - y \in Int
    BY PrimeSize DEF Field
  <1>2. Same(x + y, a + b) /\ Same(x - y, a - b) /\ Same(x * y, a * b)
    BY <1>1, SameOps
  <1>3. Same(x + P - y, x - y)
    <2>1. x + P - y = (x - y) + 1 * P
      BY <1>1
    <2> QED
      BY <2>1 DEF Same
  <1>4. Same(x + P - y, a - b)
    BY <1>1, <1>2, <1>3, SameIs
  <1>5. /\ (x + y) % P \in Field /\ Same((x + y) % P, x + y)
        /\ (x + P - y) % P \in Field /\ Same((x + P - y) % P, x + P - y)
        /\ (x * y) % P \in Field /\ Same((x * y) % P, x * y)
    BY <1>1, Remainder
  <1>6. (x + y) % P \in Int /\ (x + P - y) % P \in Int /\ (x * y) % P \in Int
    BY <1>5, PrimeSize DEF Field
  <1>7. /\ Same((x + y) % P, a + b) /\ Same((x + P - y) % P, a - b) /\ Same((x * y) % P, a * b)
    BY <1>1, <1>2, <1>4, <1>5, <1>6, SameIs
  <1> QED
    BY <1>5, <1>7 DEF Plus, Minus, Times

(* The field is closed under its operations. *)
LEMMA FieldClosed ==
  ASSUME NEW x \in Field, NEW y \in Field
  PROVE  Plus(x, y) \in Field /\ Minus(x, y) \in Field /\ Times(x, y) \in Field
  <1>1. x \in Int /\ y \in Int
    BY PrimeSize DEF Field
  <1>2. Same(x, x) /\ Same(y, y)
    BY <1>1, SameIs
  <1> QED
    BY <1>1, <1>2, FieldOps

(* A field element stands for itself. *)
LEMMA FieldIsInt ==
  ASSUME NEW x \in Field
  PROVE  x \in Int /\ Same(x, x)
  <1>1. x \in Int
    BY PrimeSize DEF Field
  <1> QED
    BY <1>1, SameIs

LEMMA Constants == 0 \in Field /\ 1 \in Field
  BY PrimeSize DEF Field

(* What the proofs use of a field: two elements that stand for one integer  *)
(* are equal.                                                               *)
LEMMA StandForOne ==
  ASSUME NEW x \in Field, NEW y \in Field, NEW a \in Int, Same(x, a), Same(y, a)
  PROVE  x = y
  <1>1. x \in Int /\ y \in Int
    BY FieldIsInt
  <1>2. Same(a, y)
    BY <1>1, SameIs
  <1>3. Same(x, y)
    BY <1>1, <1>2, SameIs
  <1> QED
    BY <1>3, SameIsEqual

(* Laws of the field. *)
LEMMA FieldLaws ==
  ASSUME NEW x \in Field, NEW y \in Field, NEW z \in Field
  PROVE  /\ Plus(0, x) = x /\ Plus(x, 0) = x /\ Times(1, x) = x /\ Times(x, 0) = 0 /\ Times(0, x) = 0
         /\ Minus(x, x) = 0
         /\ Plus(x, y) = Plus(y, x) /\ Times(x, y) = Times(y, x)
         /\ Plus(Plus(x, y), z) = Plus(x, Plus(y, z))
         /\ Times(Times(x, y), z) = Times(x, Times(y, z))
         /\ Times(x, Plus(y, z)) = Plus(Times(x, y), Times(x, z))
  <1>0. /\ x \in Int /\ y \in Int /\ z \in Int /\ 0 \in Field /\ 1 \in Field
        /\ Same(x, x) /\ Same(y, y) /\ Same(z, z) /\ Same(0, 0) /\ Same(1, 1)
    BY FieldIsInt, Constants
  <1>1. /\ Plus(0, x) \in Field /\ Same(Plus(0, x), 0 + x) /\ 0 + x = x
        /\ Plus(x, 0) \in Field /\ Same(Plus(x, 0), x + 0) /\ x + 0 = x
        /\ Times(1, x) \in Field /\ Same(Times(1, x), 1 * x) /\ 1 * x = x
        /\ Times(x, 0) \in Field /\ Same(Times(x, 0), x * 0) /\ x * 0 = 0
        /\ Times(0, x) \in Field /\ Same(Times(0, x), 0 * x) /\ 0 * x = 0
        /\ Minus(x, x) \in Field /\ Same(Minus(x, x), x - x) /\ x - x = 0
    <2>1. 0 + x = x /\ x + 0 = x /\ 1 * x = x /\ x * 0 = 0 /\ 0 * x = 0 /\ x - x = 0
      BY <1>0
    <2>2. 0 \in Int /\ 1 \in Int
      OBVIOUS
    <2> QED
      BY <1>0, <2>1, <2>2, FieldOps
  <1>2. /\ Plus(0, x) = x /\ Plus(x, 0) = x /\ Times(1, x) = x /\ Times(x, 0) = 0 /\ Times(0, x) = 0
        /\ Minus(x, x) = 0
    <2>1. Plus(0, x) \in Field /\ Same(Plus(0, x), x)
      BY <1>1
    <2>2. Plus(x, 0) \in Field /\ Same(Plus(x, 0), x)
      BY <1>1
    <2>3. Times(1, x) \in Field /\ Same(Times(1, x), x)
      BY <1>1
    <2>4. Times(x, 0) \in Field /\ Same(Times(x, 0), 0)
      BY <1>1
    <2>5. Times(0, x) \in Field /\ Same(Times(0, x), 0)
      BY <1>1
    <2>6. Minus(x, x) \in Field /\ Same(Minus(x, x), 0)
      BY <1>1
    <2>7. x \in Int /\ Same(x, x) /\ 0 \in Int /\ 0 \in Field /\ Same(0, 0)
      BY <1>0
    <2>8. Plus(0, x) = x
      BY <2>1, <2>7, StandForOne
    <2>9. Plus(x, 0) = x
      BY <2>2, <2>7, StandForOne
    <2>10. Times(1, x) = x
      BY <2>3, <2>7, StandForOne
    <2>11. Times(x, 0) = 0
      BY <2>4, <2>7, StandForOne
    <2>12. Times(0, x) = 0
      BY <2>5, <2>7, StandForOne
    <2>13. Minus(x, x) = 0
      BY <2>6, <2>7, StandForOne
    <2> QED
      BY <2>8, <2>9, <2>10, <2>11, <2>12, <2>13
  <1>3. /\ Plus(x, y) \in Field /\ Same(Plus(x, y), x + y) /\ x + y \in Int
        /\ Plus(y, x) \in Field /\ Same(Plus(y, x), y + x) /\ y + x = x + y
        /\ Plus(y, z) \in Field /\ Same(Plus(y, z), y + z) /\ y + z \in Int
        /\ Times(x, y) \in Field /\ Same(Times(x, y), x * y) /\ x * y \in Int
        /\ Times(y, x) \in Field /\ Same(Times(y, x), y * x) /\ y * x = x * y
        /\ Times(y, z) \in Field /\ Same(Times(y, z), y * z) /\ y * z \in Int
        /\ Times(x, z) \in Field /\ Same(Times(x, z), x * z) /\ x * z \in Int
    <2>1. /\ x + y \in Int /\ y + z \in Int /\ x * y \in Int /\ y * z \in Int /\ x * z \in Int
          /\ y + x = x + y /\ y * x = x * y
      BY <1>0
    <2>2. ASSUME NEW u \in Field, NEW v \in Field, u \in Int, v \in Int, Same(u, u), Same(v, v)
          PROVE  /\ Plus(u, v) \in Field /\ Same(Plus(u, v), u + v)
                 /\ Times(u, v) \in Field /\ Same(Times(u, v), u * v)
      BY <2>2, FieldOps
    <2> QED
      BY <1>0, <2>1, <2>2
  <1>4. Plus(x, y) = Plus(y, x) /\ Times(x, y) = Times(y, x)
    BY <1>3, StandForOne
  <1>5. Plus(Plus(x, y), z) = Plus(x, Plus(y, z))
    <2>1. (x + y) + z \in Int /\ x + (y + z) = (x + y) + z
      BY <1>0
    <2>2. /\ Plus(Plus(x, y), z) \in Field /\ Same(Plus(Plus(x, y), z), (x + y) + z)
          /\ Plus(x, Plus(y, z)) \in Field /\ Same(Plus(x, Plus(y, z)), x + (y + z))
      BY <1>0, <1>3, FieldOps
    <2> QED
      BY <2>1, <2>2, StandForOne
  <1>6. Times(Times(x, y), z) = Times(x, Times(y, z))
    <2>1. (x * y) * z \in Int /\ x * (y * z) = (x * y) * z
      BY <1>0
    <2>2. /\ Times(Times(x, y), z) \in Field /\ Same(Times(Times(x, y), z), (x * y) * z)
          /\ Times(x, Times(y, z)) \in Field /\ Same(Times(x, Times(y, z)), x * (y * z))
      BY <1>0, <1>3, FieldOps
    <2> QED
      BY <2>1, <2>2, StandForOne
  <1>7. Times(x, Plus(y, z)) = Plus(Times(x, y), Times(x, z))
    <2>1. x * (y + z) \in Int /\ x * y + x * z = x * (y + z)
      BY <1>0
    <2>2. /\ Times(x, Plus(y, z)) \in Field /\ Same(Times(x, Plus(y, z)), x * (y + z))
          /\ Plus(Times(x, y), Times(x, z)) \in Field
          /\ Same(Plus(Times(x, y), Times(x, z)), x * y + x * z)
      BY <1>0, <1>3, FieldOps
    <2> QED
      BY <2>1, <2>2, StandForOne
  <1> QED
    BY <1>2, <1>4, <1>5, <1>6, <1>7

-----------------------------------------------------------------------------
(* Vectors and their sums                                                   *)

(* The size of a vector is the number of its entries. *)
LEMMA SizeIs ==
  ASSUME NEW n \in Nat, NEW v, DOMAIN v = 0 .. n - 1
  PROVE  Size(v) = n
  <1>1. CASE n = 0
    <2>1. DOMAIN v = {}
      BY <1>1
    <2> QED
      BY <1>1, <2>1, Zenon DEF Size
  <1>2. CASE n # 0
    <2> DEFINE d == DOMAIN v
               last == CHOOSE m \in d : m + 1 \notin d
    <2>1. d # {} /\ n - 1 \in d /\ (n - 1) + 1 \notin d
      BY <1>2
    <2>2. ASSUME NEW m \in d, m + 1 \notin d PROVE m = n - 1
      BY <2>2
    <2>3. Size(v) = 1 + last
      BY <2>1, Zenon DEF Size
    <2>4. last \in d /\ last + 1 \notin d
      BY <2>1, Zenon
    <2> HIDE DEF last
    <2>5. last = n - 1
      BY <2>2, <2>4
    <2> QED
      BY <2>3, <2>5
  <1> QED
    BY <1>1, <1>2

LEMMA VectorSize ==
  ASSUME NEW n \in Nat, NEW v \in Vectors(n)
  PROVE  DOMAIN v = 0 .. n - 1 /\ Size(v) = n /\ \A i \in 0 .. n - 1 : v[i] \in Field
  <1>1. DOMAIN v = 0 .. n - 1 /\ \A i \in 0 .. n - 1 : v[i] \in Field
    BY DEF Vectors
  <1> QED
    BY <1>1, SizeIs

(* s is the table of the sums of the first entries. *)
VectorSums(s, v, n) == s = [k \in 0 .. n |-> IF k = 0 THEN 0 ELSE Plus(s[k - 1], v[k - 1])]

LEMMA VectorSumsExist ==
  ASSUME NEW v
  PROVE  \A n \in Nat : \E s : VectorSums(s, v, n)
  <1> DEFINE N == {n \in Nat : \E s : VectorSums(s, v, n)}
  <1>1. 0 \in N
    <2>1. VectorSums([k \in 0 .. 0 |-> 0], v, 0)
      BY DEF VectorSums
    <2> QED
      BY <2>1
  <1>2. ASSUME NEW n \in Nat, n \in N PROVE n + 1 \in N
    <2>1. PICK s : VectorSums(s, v, n)
      BY <1>2
    <2> DEFINE h == [k \in 0 .. n + 1 |-> IF k = n + 1 THEN Plus(s[n], v[n]) ELSE s[k]]
    <2>2. ASSUME NEW k \in 0 .. n + 1
          PROVE  h[k] = IF k = 0 THEN 0 ELSE Plus(h[k - 1], v[k - 1])
      <3>1. CASE k = n + 1
        <4>1. k # 0 /\ k - 1 = n /\ h[k] = Plus(s[n], v[n]) /\ h[n] = s[n]
          BY <3>1
        <4> QED
          BY <4>1
      <3>2. CASE k # n + 1
        <4>1. k \in 0 .. n
          BY <3>2
        <4>2. s[k] = IF k = 0 THEN 0 ELSE Plus(s[k - 1], v[k - 1])
          BY <2>1, <4>1 DEF VectorSums
        <4>3. h[k] = s[k] /\ (k # 0 => h[k - 1] = s[k - 1])
          BY <4>1
        <4> QED
          BY <4>2, <4>3
      <3> QED
        BY <3>1, <3>2
    <2>3. VectorSums(h, v, n + 1)
      BY <2>2 DEF VectorSums
    <2> QED
      BY <2>3
  <1> HIDE DEF N
  <1>3. \A n \in Nat : n \in N
    BY <1>1, <1>2, NatSetInduction
  <1> QED
    BY <1>3 DEF N

(* Entry by entry: SumOf adds one after the other. *)
SumsTo(v, s, n) ==
  /\ s[0] = 0 /\ \A k \in 1 .. n : s[k] = Plus(s[k - 1], v[k - 1])
  /\ \A k \in 0 .. n : s[k] \in Field
  /\ SumOf(v) = s[n]

LEMMA SumOfIs ==
  ASSUME NEW n \in Nat, NEW v \in Vectors(n)
  PROVE  \E s : SumsTo(v, s, n)
  <1>1. DOMAIN v = 0 .. n - 1 /\ Size(v) = n /\ \A i \in 0 .. n - 1 : v[i] \in Field
    BY VectorSize
  <1>2. \E s : VectorSums(s, v, n)
    BY VectorSumsExist
  <1> DEFINE g == CHOOSE s : VectorSums(s, v, Size(v))
  <1>3. VectorSums(g, v, Size(v)) /\ SumOf(v) = g[Size(v)]
    BY <1>1, <1>2, Zenon DEF SumOf, VectorSums
  <1> HIDE DEF g
  <1>4. \A k \in 0 .. n : g[k] = IF k = 0 THEN 0 ELSE Plus(g[k - 1], v[k - 1])
    BY <1>1, <1>3, Zenon DEF VectorSums
  <1>5. g[0] = 0 /\ \A k \in 1 .. n : g[k] = Plus(g[k - 1], v[k - 1])
    BY <1>4
  <1> DEFINE N == {k \in Nat : k <= n => g[k] \in Field}
  <1>6. 0 \in N
    BY <1>5, Constants
  <1>7. ASSUME NEW k \in Nat, k \in N PROVE k + 1 \in N
    <2>1. k + 1 <= n => k + 1 \in 1 .. n /\ (k + 1) - 1 = k /\ k \in 0 .. n - 1 /\ k <= n
      OBVIOUS
    <2>2. k + 1 <= n => g[k + 1] = Plus(g[k], v[k]) /\ g[k] \in Field /\ v[k] \in Field
      BY <1>1, <1>5, <1>7, <2>1
    <2> QED
      BY <2>2, FieldClosed
  <1> HIDE DEF N
  <1>8. \A k \in Nat : k \in N
    BY <1>6, <1>7, NatSetInduction
  <1>9. \A k \in 0 .. n : g[k] \in Field
    BY <1>8 DEF N
  <1>10. SumsTo(v, g, n)
    BY <1>1, <1>3, <1>5, <1>9 DEF SumsTo
  <1> QED
    BY <1>10

LEMMA SumInField ==
  ASSUME NEW n \in Nat, NEW v \in Vectors(n)
  PROVE  SumOf(v) \in Field
  <1>1. PICK s : SumsTo(v, s, n)
    BY SumOfIs
  <1> QED
    BY <1>1 DEF SumsTo

(* A sum of zeros. *)
LEMMA SumOfZeros ==
  ASSUME NEW n \in Nat, NEW v, v = [i \in 0 .. n - 1 |-> 0]
  PROVE  SumOf(v) = 0
  <1>1. v \in Vectors(n) /\ \A i \in 0 .. n - 1 : v[i] = 0
    BY Constants DEF Vectors
  <1>2. PICK s : SumsTo(v, s, n)
    BY <1>1, SumOfIs
  <1>3. s[0] = 0 /\ (\A k \in 1 .. n : s[k] = Plus(s[k - 1], v[k - 1])) /\ SumOf(v) = s[n]
    BY <1>2 DEF SumsTo
  <1> DEFINE N == {k \in Nat : k <= n => s[k] = 0}
  <1>4. 0 \in N
    BY <1>3
  <1>5. ASSUME NEW k \in Nat, k \in N PROVE k + 1 \in N
    <2>1. k + 1 <= n => k + 1 \in 1 .. n /\ (k + 1) - 1 = k /\ k \in 0 .. n - 1 /\ k <= n
      OBVIOUS
    <2>2. k + 1 <= n => s[k + 1] = Plus(0, 0)
      BY <1>1, <1>3, <1>5, <2>1
    <2>3. Plus(0, 0) = 0
      BY Constants, FieldLaws
    <2> QED
      BY <2>2, <2>3
  <1> HIDE DEF N
  <1>6. \A k \in Nat : k \in N
    BY <1>4, <1>5, NatSetInduction
  <1> QED
    BY <1>3, <1>6 DEF N

(* Sums of one and of two entries. *)
LEMMA SumOfOne ==
  ASSUME NEW v \in Vectors(1)
  PROVE  SumOf(v) = v[0]
  <1>1. v[0] \in Field
    <2>1. 0 \in 0 .. 1 - 1
      OBVIOUS
    <2> QED
      BY <2>1 DEF Vectors
  <1>2. PICK s : SumsTo(v, s, 1)
    BY SumOfIs
  <1>3. s[1] = Plus(0, v[0]) /\ SumOf(v) = s[1]
    BY <1>2 DEF SumsTo
  <1> QED
    BY <1>1, <1>3, FieldLaws

LEMMA SumOfTwo ==
  ASSUME NEW v \in Vectors(2)
  PROVE  SumOf(v) = Plus(v[0], v[1])
  <1>1. v[0] \in Field
    <2>1. 0 \in 0 .. 2 - 1
      OBVIOUS
    <2> QED
      BY <2>1 DEF Vectors
  <1>2. PICK s : SumsTo(v, s, 2)
    BY SumOfIs
  <1>3. s[1] = Plus(0, v[0]) /\ s[2] = Plus(s[1], v[1]) /\ SumOf(v) = s[2]
    BY <1>2 DEF SumsTo
  <1>4. Plus(0, v[0]) = v[0]
    BY <1>1, FieldLaws
  <1> QED
    BY <1>3, <1>4

(* x * (a + b) + y * (c + d), regrouped. *)
LEMMA Regroup ==
  ASSUME NEW x \in Field, NEW y \in Field, NEW a \in Field, NEW b \in Field, NEW c \in Field, NEW d \in Field
  PROVE  Plus(Plus(Times(x, a), Times(y, b)), Plus(Times(x, c), Times(y, d)))
           = Plus(Times(x, Plus(a, c)), Times(y, Plus(b, d)))
  <1>1. /\ x \in Int /\ y \in Int /\ a \in Int /\ b \in Int /\ c \in Int /\ d \in Int
        /\ Same(x, x) /\ Same(y, y) /\ Same(a, a) /\ Same(b, b) /\ Same(c, c) /\ Same(d, d)
    BY FieldIsInt
  <1>2. /\ x * a \in Int /\ y * b \in Int /\ x * c \in Int /\ y * d \in Int
        /\ a + c \in Int /\ b + d \in Int /\ x * a + y * b \in Int /\ x * c + y * d \in Int
        /\ x * (a + c) \in Int /\ y * (b + d) \in Int
        /\ (x * a + y * b) + (x * c + y * d) \in Int
        /\ x * (a + c) + y * (b + d) = (x * a + y * b) + (x * c + y * d)
    BY <1>1
  <1>3. /\ Times(x, a) \in Field /\ Same(Times(x, a), x * a)
        /\ Times(y, b) \in Field /\ Same(Times(y, b), y * b)
        /\ Times(x, c) \in Field /\ Same(Times(x, c), x * c)
        /\ Times(y, d) \in Field /\ Same(Times(y, d), y * d)
        /\ Plus(a, c) \in Field /\ Same(Plus(a, c), a + c)
        /\ Plus(b, d) \in Field /\ Same(Plus(b, d), b + d)
    BY <1>1, FieldOps
  <1>4. /\ Plus(Times(x, a), Times(y, b)) \in Field
        /\ Same(Plus(Times(x, a), Times(y, b)), x * a + y * b)
    BY <1>2, <1>3, FieldOps
  <1>5. /\ Plus(Times(x, c), Times(y, d)) \in Field
        /\ Same(Plus(Times(x, c), Times(y, d)), x * c + y * d)
    BY <1>2, <1>3, FieldOps
  <1>6. /\ Times(x, Plus(a, c)) \in Field /\ Same(Times(x, Plus(a, c)), x * (a + c))
        /\ Times(y, Plus(b, d)) \in Field /\ Same(Times(y, Plus(b, d)), y * (b + d))
    BY <1>1, <1>2, <1>3, FieldOps
  <1> DEFINE left == Plus(Plus(Times(x, a), Times(y, b)), Plus(Times(x, c), Times(y, d)))
             right == Plus(Times(x, Plus(a, c)), Times(y, Plus(b, d)))
             sum == (x * a + y * b) + (x * c + y * d)
  <1>7. left \in Field /\ Same(left, sum)
    BY <1>2, <1>4, <1>5, FieldOps
  <1>8. right \in Field /\ Same(right, x * (a + c) + y * (b + d))
    BY <1>2, <1>6, FieldOps
  <1>9. Same(right, sum) /\ sum \in Int
    BY <1>2, <1>8
  <1> HIDE DEF left, right, sum
  <1>10. left = right
    BY <1>7, <1>8, <1>9, StandForOne
  <1> QED
    BY <1>10 DEF left, right

(* x * v + y * w. *)
TwoTerms(x, v, y, w, n) == [i \in 0 .. n - 1 |-> Plus(Times(x, v[i]), Times(y, w[i]))]

(* Sums are linear. *)
LEMMA SumIsLinear ==
  ASSUME NEW n \in Nat, NEW v \in Vectors(n), NEW w \in Vectors(n), NEW x \in Field, NEW y \in Field
  PROVE  /\ TwoTerms(x, v, y, w, n) \in Vectors(n)
         /\ SumOf(TwoTerms(x, v, y, w, n)) = Plus(Times(x, SumOf(v)), Times(y, SumOf(w)))
  <1> DEFINE u == TwoTerms(x, v, y, w, n)
  <1>1. \A i \in 0 .. n - 1 : v[i] \in Field /\ w[i] \in Field
    BY VectorSize
  <1>2. u = [i \in 0 .. n - 1 |-> Plus(Times(x, v[i]), Times(y, w[i]))]
    BY Zenon DEF TwoTerms
  <1> HIDE DEF u
  <1>3. \A i \in 0 .. n - 1 : u[i] = Plus(Times(x, v[i]), Times(y, w[i])) /\ u[i] \in Field
    BY <1>1, <1>2, FieldClosed
  <1>4. u \in Vectors(n)
    BY <1>2, <1>3 DEF Vectors
  <1>5. PICK a : SumsTo(v, a, n)
    BY SumOfIs
  <1>6. PICK b : SumsTo(w, b, n)
    BY SumOfIs
  <1>7. PICK s : SumsTo(u, s, n)
    BY <1>4, SumOfIs
  <1>8. /\ a[0] = 0 /\ \A k \in 1 .. n : a[k] = Plus(a[k - 1], v[k - 1])
        /\ b[0] = 0 /\ \A k \in 1 .. n : b[k] = Plus(b[k - 1], w[k - 1])
        /\ s[0] = 0 /\ \A k \in 1 .. n : s[k] = Plus(s[k - 1], u[k - 1])
        /\ \A k \in 0 .. n : a[k] \in Field /\ b[k] \in Field
        /\ SumOf(v) = a[n] /\ SumOf(w) = b[n] /\ SumOf(u) = s[n]
    BY <1>5, <1>6, <1>7 DEF SumsTo
  <1> DEFINE N == {k \in Nat : k <= n => s[k] = Plus(Times(x, a[k]), Times(y, b[k]))}
  <1>9. 0 \in N
    <2>1. Times(x, 0) = 0 /\ Times(y, 0) = 0 /\ Plus(0, 0) = 0
      BY Constants, FieldLaws
    <2> QED
      BY <1>8, <2>1
  <1>10. ASSUME NEW k \in Nat, k \in N PROVE k + 1 \in N
    <2> SUFFICES ASSUME k + 1 <= n PROVE s[k + 1] = Plus(Times(x, a[k + 1]), Times(y, b[k + 1]))
      OBVIOUS
    <2>1. k + 1 \in 1 .. n /\ (k + 1) - 1 = k /\ k \in 0 .. n - 1 /\ k \in 0 .. n /\ k <= n
      OBVIOUS
    <2>2. /\ s[k + 1] = Plus(s[k], u[k]) /\ a[k + 1] = Plus(a[k], v[k]) /\ b[k + 1] = Plus(b[k], w[k])
          /\ u[k] = Plus(Times(x, v[k]), Times(y, w[k]))
          /\ a[k] \in Field /\ b[k] \in Field /\ v[k] \in Field /\ w[k] \in Field
      BY <1>1, <1>3, <1>8, <2>1
    <2>3. s[k] = Plus(Times(x, a[k]), Times(y, b[k]))
      BY <1>10, <2>1
    <2>4. Plus(Plus(Times(x, a[k]), Times(y, b[k])), Plus(Times(x, v[k]), Times(y, w[k])))
            = Plus(Times(x, Plus(a[k], v[k])), Times(y, Plus(b[k], w[k])))
      <3> DEFINE p == a[k]
                 q == b[k]
                 d == v[k]
                 e == w[k]
      <3>1. p \in Field /\ q \in Field /\ d \in Field /\ e \in Field
        BY <2>2
      <3> HIDE DEF p, q, d, e
      <3>2. Plus(Plus(Times(x, p), Times(y, q)), Plus(Times(x, d), Times(y, e)))
              = Plus(Times(x, Plus(p, d)), Times(y, Plus(q, e)))
        BY <3>1, Regroup
      <3> QED
        BY <3>2 DEF p, q, d, e
    <2> QED
      BY <2>2, <2>3, <2>4, Zenon
  <1> HIDE DEF N
  <1>11. \A k \in Nat : k \in N
    BY <1>9, <1>10, NatSetInduction
  <1>12. s[n] = Plus(Times(x, a[n]), Times(y, b[n]))
    BY <1>11 DEF N
  <1> QED
    BY <1>4, <1>8, <1>12 DEF u

-----------------------------------------------------------------------------
(* The table of the weights of a point                                      *)

LEMMA PowerOfSum ==
  ASSUME NEW a \in Nat, NEW b \in Nat
  PROVE  PowerOfTwo[a + b] = PowerOfTwo[a] * PowerOfTwo[b]
  <1> DEFINE N == {k \in Nat : PowerOfTwo[a + k] = PowerOfTwo[a] * PowerOfTwo[k]}
  <1>1. 0 \in N
    <2>1. a + 0 = a /\ PowerOfTwo[a] \in Nat /\ PowerOfTwo[0] = 1
      BY PowerFacts
    <2> QED
      BY <2>1
  <1>2. ASSUME NEW k \in Nat, k \in N PROVE k + 1 \in N
    <2>1. a + k \in Nat /\ a + (k + 1) = (a + k) + 1
      OBVIOUS
    <2>2. /\ PowerOfTwo[(a + k) + 1] = 2 * PowerOfTwo[a + k] /\ PowerOfTwo[k + 1] = 2 * PowerOfTwo[k]
          /\ PowerOfTwo[a + k] = PowerOfTwo[a] * PowerOfTwo[k]
          /\ PowerOfTwo[a] \in Nat /\ PowerOfTwo[k] \in Nat
      BY <1>2, <2>1, PowerFacts
    <2> DEFINE p == PowerOfTwo[a]
               q == PowerOfTwo[k]
    <2> HIDE DEF p, q
    <2>3. 2 * (p * q) = p * (2 * q)
      BY <2>2 DEF p, q
    <2>4. PowerOfTwo[a + (k + 1)] = PowerOfTwo[a] * PowerOfTwo[k + 1]
      BY <2>1, <2>2, <2>3 DEF p, q
    <2> QED
      BY <2>4
  <1> HIDE DEF N
  <1>3. \A k \in Nat : k \in N
    BY <1>1, <1>2, NatSetInduction
  <1> QED
    BY <1>3 DEF N

LEMMA PowerIsPositive ==
  ASSUME NEW k \in Nat
  PROVE  PowerOfTwo[k] \in Nat /\ PowerOfTwo[k] > 0
  <1>1. PowerOfTwo[0] = 1 /\ PowerOfTwo[k] \in Nat /\ 0 \in Nat
    BY PowerFacts
  <1>2. k > 0 => PowerOfTwo[0] < PowerOfTwo[k]
    BY <1>1, PowerIncreases
  <1> QED
    BY <1>1, <1>2

(* The logarithm of a power of two. *)
LEMMA LogOfPower ==
  ASSUME NEW k \in Nat
  PROVE  Log2(PowerOfTwo[k]) = k
  <1> DEFINE m == PowerOfTwo[k]
             j == Log2(m)
  <1>1. m \in Nat
    BY PowerFacts
  <1>2. j \in Nat /\ m <= PowerOfTwo[j] /\ (j = 0 \/ PowerOfTwo[j - 1] < m)
    <2> HIDE DEF m
    <2> QED
      BY <1>1, Logarithm
  <1> HIDE DEF j
  <1>3. ~(j < k)
    BY <1>2, PowerIncreases, PowerFacts
  <1>4. ~(k < j)
    <2>1. SUFFICES ASSUME k < j PROVE FALSE
      OBVIOUS
    <2>2. j - 1 \in Nat /\ (k < j - 1 \/ k = j - 1)
      BY <1>2, <2>1
    <2>3. PowerOfTwo[j - 1] >= m /\ PowerOfTwo[j - 1] \in Nat
      BY <2>2, PowerIncreases, PowerFacts
    <2> QED
      BY <1>1, <1>2, <2>1, <2>2, <2>3
  <1>5. j = k
    BY <1>2, <1>3, <1>4
  <1> QED
    BY <1>5 DEF j

(* A coordinate doubles the table of the point. *)
LEMMA DoubledIs ==
  ASSUME NEW n \in Nat, NEW table \in Vectors(n), NEW tau \in Field
  PROVE  /\ Doubled(table, tau) = [i \in 0 .. 2 * n - 1 |->
              IF i < n THEN Minus(table[i], Times(table[i], tau)) ELSE Times(table[i - n], tau)]
         /\ Doubled(table, tau) \in Vectors(2 * n)
  <1>1. Size(table) = n /\ \A i \in 0 .. n - 1 : table[i] \in Field
    BY VectorSize
  <1> DEFINE f(i) == IF i < n THEN Minus(table[i], Times(table[i], tau)) ELSE Times(table[i - n], tau)
  <1>2. Doubled(table, tau) = [i \in 0 .. 2 * n - 1 |-> f(i)]
    BY <1>1, Zenon DEF Doubled
  <1>3. ASSUME NEW i \in 0 .. 2 * n - 1 PROVE f(i) \in Field
    <2>1. CASE i < n
      <3>1. i \in 0 .. n - 1
        BY <2>1
      <3> QED
        BY <1>1, <2>1, <3>1, FieldClosed
    <2>2. CASE ~(i < n)
      <3>1. i - n \in 0 .. n - 1
        BY <2>2
      <3> QED
        BY <1>1, <2>2, <3>1, FieldClosed
    <2> QED
      BY <2>1, <2>2
  <1>4. Doubled(table, tau) \in Vectors(2 * n)
    <2> HIDE DEF f
    <2> QED
      BY <1>2, <1>3 DEF Vectors
  <1> QED
    BY <1>2, <1>4

EqTable(t, taus, n) ==
  t = [k \in 0 .. n |-> IF k = 0 THEN [i \in {0} |-> 1] ELSE Doubled(t[k - 1], taus[k])]

LEMMA EqTablesExist ==
  ASSUME NEW taus
  PROVE  \A n \in Nat : \E t : EqTable(t, taus, n)
  <1> DEFINE one == [i \in {0} |-> 1]
             N == {n \in Nat : \E t : EqTable(t, taus, n)}
  <1> HIDE DEF one
  <1>1. 0 \in N
    <2>1. EqTable([k \in 0 .. 0 |-> one], taus, 0)
      BY DEF EqTable, one
    <2> QED
      BY <2>1
  <1>2. ASSUME NEW n \in Nat, n \in N PROVE n + 1 \in N
    <2>1. PICK s : EqTable(s, taus, n)
      BY <1>2
    <2> DEFINE h == [k \in 0 .. n + 1 |-> IF k = n + 1 THEN Doubled(s[n], taus[n + 1]) ELSE s[k]]
    <2>2. ASSUME NEW k \in 0 .. n + 1
          PROVE  h[k] = IF k = 0 THEN one ELSE Doubled(h[k - 1], taus[k])
      <3>1. CASE k = n + 1
        <4>1. k # 0 /\ k - 1 = n /\ h[k] = Doubled(s[n], taus[n + 1]) /\ h[n] = s[n]
          BY <3>1
        <4> QED
          BY <3>1, <4>1
      <3>2. CASE k # n + 1
        <4>1. k \in 0 .. n
          BY <3>2
        <4>2. s[k] = IF k = 0 THEN one ELSE Doubled(s[k - 1], taus[k])
          BY <2>1, <4>1 DEF EqTable, one
        <4>3. h[k] = s[k] /\ (k # 0 => h[k - 1] = s[k - 1])
          BY <4>1
        <4> QED
          BY <4>2, <4>3
      <3> QED
        BY <3>1, <3>2
    <2>3. EqTable(h, taus, n + 1)
      BY <2>2 DEF EqTable, one
    <2> QED
      BY <2>3
  <1> HIDE DEF N
  <1>3. \A n \in Nat : n \in N
    BY <1>1, <1>2, NatSetInduction
  <1> QED
    BY <1>3 DEF N

(* The tables of the first coordinates. *)
Tables(t, taus, n) ==
  /\ t[0] = [i \in {0} |-> 1]
  /\ \A k \in 1 .. n : t[k] = Doubled(t[k - 1], taus[k])
  /\ \A k \in 0 .. n : t[k] \in Vectors(PowerOfTwo[k])

LEMMA EqTablesAre ==
  ASSUME NEW n \in Nat, NEW taus \in [1 .. n -> Field]
  PROVE  Tables(EqTables(taus), taus, n)
  <1>1. Len(taus) = n
    BY FunctionIsSequence
  <1>2. \E t : EqTable(t, taus, n)
    BY EqTablesExist
  <1> DEFINE g == CHOOSE t : EqTable(t, taus, Len(taus))
  <1>3. EqTable(g, taus, Len(taus)) /\ EqTables(taus) = g
    BY <1>1, <1>2, Zenon DEF EqTables, EqTable
  <1> HIDE DEF g
  <1> DEFINE one == [i \in {0} |-> 1]
  <1>4. \A k \in 0 .. n : g[k] = IF k = 0 THEN one ELSE Doubled(g[k - 1], taus[k])
    BY <1>1, <1>3, Zenon DEF EqTable
  <1>5. one \in Vectors(PowerOfTwo[0])
    <2>1. PowerOfTwo[0] = 1 /\ 0 .. 1 - 1 = {0}
      BY PowerFacts
    <2>2. one \in [{0} -> Field]
      BY Constants
    <2> HIDE DEF one
    <2> QED
      BY <2>1, <2>2 DEF Vectors
  <1> HIDE DEF one
  <1>6. g[0] = one /\ \A k \in 1 .. n : g[k] = Doubled(g[k - 1], taus[k])
    BY <1>4
  <1> DEFINE N == {k \in Nat : k <= n => g[k] \in Vectors(PowerOfTwo[k])}
  <1>7. 0 \in N
    BY <1>5, <1>6
  <1>8. ASSUME NEW k \in Nat, k \in N PROVE k + 1 \in N
    <2> SUFFICES ASSUME k + 1 <= n PROVE g[k + 1] \in Vectors(PowerOfTwo[k + 1])
      OBVIOUS
    <2>1. k + 1 \in 1 .. n /\ (k + 1) - 1 = k /\ k <= n
      OBVIOUS
    <2>2. g[k] \in Vectors(PowerOfTwo[k]) /\ taus[k + 1] \in Field
      BY <1>8, <2>1
    <2>3. g[k + 1] = Doubled(g[k], taus[k + 1])
      BY <1>6, <2>1
    <2>4. PowerOfTwo[k] \in Nat /\ PowerOfTwo[k + 1] = 2 * PowerOfTwo[k]
      BY PowerFacts
    <2> DEFINE m == PowerOfTwo[k]
               b == g[k]
               x == taus[k + 1]
    <2>5. m \in Nat /\ b \in Vectors(m) /\ x \in Field
      BY <2>2, <2>4
    <2> HIDE DEF m, b, x
    <2>6. Doubled(b, x) \in Vectors(2 * m)
      BY <2>5, DoubledIs
    <2> QED
      BY <2>3, <2>4, <2>6 DEF m, b, x
  <1> HIDE DEF N
  <1>9. \A k \in Nat : k \in N
    BY <1>7, <1>8, NatSetInduction
  <1>10. \A k \in 0 .. n : g[k] \in Vectors(PowerOfTwo[k])
    BY <1>9 DEF N
  <1>11. Tables(g, taus, n)
    BY <1>6, <1>10 DEF Tables, one
  <1> QED
    BY <1>3, <1>11

LEMMA ReversedIs ==
  ASSUME NEW n \in Nat, NEW s \in [1 .. n -> Field]
  PROVE  /\ Reversed(s) \in [1 .. n -> Field]
         /\ \A i \in 1 .. n : Reversed(s)[i] = s[n + 1 - i]
  <1>1. Len(s) = n
    BY FunctionIsSequence
  <1>2. Reversed(s) = [i \in 1 .. n |-> s[n + 1 - i]]
    BY <1>1, Zenon DEF Reversed
  <1>3. \A i \in 1 .. n : n + 1 - i \in 1 .. n
    OBVIOUS
  <1> QED
    BY <1>2, <1>3

(* The table of a point has an entry for every combination of bits. *)
LEMMA EvalsSize ==
  ASSUME NEW n \in Nat, NEW p \in [1 .. n -> Field]
  PROVE  EvalsFromPoints(p) \in Vectors(PowerOfTwo[n])
  <1>1. Len(p) = n /\ Reversed(p) \in [1 .. n -> Field]
    BY FunctionIsSequence, ReversedIs
  <1>2. Tables(EqTables(Reversed(p)), Reversed(p), n)
    BY <1>1, EqTablesAre
  <1>3. EqTables(Reversed(p))[n] \in Vectors(PowerOfTwo[n])
    BY <1>2 DEF Tables
  <1> QED
    BY <1>1, <1>3 DEF EvalsFromPoints

(* The first and the last coordinates. *)
LEMMA PartOfPoint ==
  ASSUME NEW n \in Nat, NEW p \in [1 .. n -> Field], NEW a \in Nat, NEW b \in Nat, a + b <= n
  PROVE  SubSeq(p, a + 1, a + b) \in [1 .. b -> Field]
  <1> DEFINE t == SubSeq(p, a + 1, a + b)
  <1>1. CutFrom(t, p, a, b)
    BY Cut
  <1> HIDE DEF t
  <1>2. IsSequence(t) /\ Len(t) = b /\ \A i \in 1 .. b : t[i] = p[a + i]
    BY <1>1 DEF CutFrom
  <1>3. t \in Seq(Range(t))
    BY <1>2 DEF IsSequence
  <1>4. t = [i \in 1 .. b |-> t[i]]
    <2>1. t = [i \in 1 .. Len(t) |-> t[i]]
      BY <1>3, LenProperties
    <2> QED
      BY <1>2, <2>1
  <1>5. \A i \in 1 .. b : t[i] \in Field
    <2>1. \A i \in 1 .. b : a + i \in 1 .. n
      OBVIOUS
    <2> QED
      BY <1>2, <2>1
  <1>6. t \in [1 .. b -> Field]
    BY <1>4, <1>5
  <1> QED
    BY <1>6 DEF t

-----------------------------------------------------------------------------
(* Equations of field elements; products of vectors                         *)

(* The field element x stands for the integer a. *)
Is(x, a) == x \in Field /\ a \in Int /\ Same(x, a)

LEMMA IsItself ==
  ASSUME NEW x \in Field
  PROVE  Is(x, x)
  BY FieldIsInt DEF Is

LEMMA IsOps ==
  ASSUME NEW x, NEW y, NEW a, NEW b, Is(x, a), Is(y, b)
  PROVE  Is(Plus(x, y), a + b) /\ Is(Minus(x, y), a - b) /\ Is(Times(x, y), a * b)
  BY FieldOps DEF Is

LEMMA IsEqual ==
  ASSUME NEW x, NEW y, NEW a, NEW b, Is(x, a), Is(y, b), Same(a, b)
  PROVE  x = y
  <1>1. Same(y, a)
    BY SameIs, FieldIsInt DEF Is
  <1> QED
    BY <1>1, StandForOne DEF Is

(* A row of a matrix times a vector, and the matrix times it. *)
Dot(row, z, n) == SumOf([j \in 0 .. n - 1 |-> Times(row[j], z[j])])

LEMMA ProductsAre ==
  ASSUME NEW n \in Nat, NEW v \in Vectors(n), NEW w \in Vectors(n)
  PROVE  [j \in 0 .. n - 1 |-> Times(v[j], w[j])] \in Vectors(n) /\ Dot(v, w, n) \in Field
  <1> DEFINE p == [j \in 0 .. n - 1 |-> Times(v[j], w[j])]
  <1>1. \A j \in 0 .. n - 1 : v[j] \in Field /\ w[j] \in Field
    BY VectorSize
  <1>2. \A j \in 0 .. n - 1 : Times(v[j], w[j]) \in Field
    BY <1>1, FieldClosed
  <1>3. p \in Vectors(n)
    BY <1>2 DEF Vectors
  <1> HIDE DEF p
  <1>4. SumOf(p) \in Field
    BY <1>3, SumInField
  <1> QED
    BY <1>3, <1>4 DEF p, Dot

(* v + r * w *)
Shifted(v, w, r, n) == [j \in 0 .. n - 1 |-> Plus(v[j], Times(r, w[j]))]

LEMMA ShiftedIs ==
  ASSUME NEW n \in Nat, NEW v \in Vectors(n), NEW w \in Vectors(n), NEW r \in Field
  PROVE  Shifted(v, w, r, n) \in Vectors(n) /\ Scaled(v, w, r) = Shifted(v, w, r, n)
  <1>1. \A j \in 0 .. n - 1 : v[j] \in Field /\ w[j] \in Field
    BY VectorSize
  <1>2. \A j \in 0 .. n - 1 : Plus(v[j], Times(r, w[j])) \in Field
    BY <1>1, FieldClosed
  <1>3. DOMAIN v = 0 .. n - 1
    BY VectorSize
  <1> QED
    BY <1>2, <1>3 DEF Shifted, Scaled, Vectors

LEMMA Distributes ==
  ASSUME NEW m \in Field, NEW p \in Field, NEW q \in Field, NEW r \in Field
  PROVE  Times(m, Plus(p, Times(r, q))) = Plus(Times(1, Times(m, p)), Times(r, Times(m, q)))
  <1>1. Times(r, q) \in Field /\ Times(m, p) \in Field /\ Times(m, q) \in Field /\ Times(m, r) \in Field
    BY FieldClosed
  <1>2. Times(m, Plus(p, Times(r, q))) = Plus(Times(m, p), Times(m, Times(r, q)))
    BY <1>1, FieldLaws
  <1>3. Times(m, Times(r, q)) = Times(r, Times(m, q))
    <2>1. Times(m, Times(r, q)) = Times(Times(m, r), q) /\ Times(Times(r, m), q) = Times(r, Times(m, q))
      BY FieldLaws
    <2>2. Times(m, r) = Times(r, m)
      BY FieldLaws
    <2> QED
      BY <2>1, <2>2
  <1>4. Times(1, Times(m, p)) = Times(m, p)
    BY <1>1, FieldLaws
  <1> QED
    BY <1>2, <1>3, <1>4

(* The product is linear. *)
LEMMA DotIsLinear ==
  ASSUME NEW n \in Nat, NEW row \in Vectors(n), NEW v \in Vectors(n), NEW w \in Vectors(n), NEW r \in Field
  PROVE  Dot(row, Shifted(v, w, r, n), n) = Plus(Dot(row, v, n), Times(r, Dot(row, w, n)))
  <1> DEFINE a == [j \in 0 .. n - 1 |-> Times(row[j], v[j])]
             b == [j \in 0 .. n - 1 |-> Times(row[j], w[j])]
             c == [j \in 0 .. n - 1 |-> Times(row[j], Shifted(v, w, r, n)[j])]
  <1>1. a \in Vectors(n) /\ b \in Vectors(n)
    BY ProductsAre
  <1>2. \A j \in 0 .. n - 1 : row[j] \in Field /\ v[j] \in Field /\ w[j] \in Field
    BY VectorSize
  <1>3. ASSUME NEW j \in 0 .. n - 1
        PROVE  c[j] = Plus(Times(1, a[j]), Times(r, b[j]))
    <2>1. c[j] = Times(row[j], Plus(v[j], Times(r, w[j])))
      BY DEF Shifted
    <2> DEFINE m == row[j]
               p == v[j]
               q == w[j]
    <2>2. m \in Field /\ p \in Field /\ q \in Field /\ a[j] = Times(m, p) /\ b[j] = Times(m, q)
      BY <1>2
    <2>3. c[j] = Times(m, Plus(p, Times(r, q)))
      BY <2>1
    <2> HIDE DEF m, p, q, a, b, c
    <2> QED
      BY <2>2, <2>3, Distributes
  <1>4. c = TwoTerms(1, a, r, b, n)
    BY <1>3 DEF TwoTerms
  <1> HIDE DEF a, b, c
  <1>5. SumOf(c) = Plus(Times(1, SumOf(a)), Times(r, SumOf(b)))
    BY <1>1, <1>4, Constants, SumIsLinear
  <1>6. Times(1, SumOf(a)) = SumOf(a)
    BY <1>1, SumInField, FieldLaws
  <1> QED
    BY <1>5, <1>6 DEF a, b, c, Dot

-----------------------------------------------------------------------------
(* Multilinear extensions                                                   *)

(* s is the table of the products of the first entries. *)
VectorProducts(s, v, n) == s = [k \in 0 .. n |-> IF k = 0 THEN 1 ELSE Times(s[k - 1], v[k - 1])]

LEMMA VectorProductsExist ==
  ASSUME NEW v
  PROVE  \A n \in Nat : \E s : VectorProducts(s, v, n)
  <1> DEFINE N == {n \in Nat : \E s : VectorProducts(s, v, n)}
  <1>1. 0 \in N
    <2>1. VectorProducts([k \in 0 .. 0 |-> 1], v, 0)
      BY DEF VectorProducts
    <2> QED
      BY <2>1
  <1>2. ASSUME NEW n \in Nat, n \in N PROVE n + 1 \in N
    <2>1. PICK s : VectorProducts(s, v, n)
      BY <1>2
    <2> DEFINE h == [k \in 0 .. n + 1 |-> IF k = n + 1 THEN Times(s[n], v[n]) ELSE s[k]]
    <2>2. ASSUME NEW k \in 0 .. n + 1
          PROVE  h[k] = IF k = 0 THEN 1 ELSE Times(h[k - 1], v[k - 1])
      <3>1. CASE k = n + 1
        <4>1. k # 0 /\ k - 1 = n /\ h[k] = Times(s[n], v[n]) /\ h[n] = s[n]
          BY <3>1
        <4> QED
          BY <4>1
      <3>2. CASE k # n + 1
        <4>1. k \in 0 .. n
          BY <3>2
        <4>2. s[k] = IF k = 0 THEN 1 ELSE Times(s[k - 1], v[k - 1])
          BY <2>1, <4>1 DEF VectorProducts
        <4>3. h[k] = s[k] /\ (k # 0 => h[k - 1] = s[k - 1])
          BY <4>1
        <4> QED
          BY <4>2, <4>3
      <3> QED
        BY <3>1, <3>2
    <2>3. VectorProducts(h, v, n + 1)
      BY <2>2 DEF VectorProducts
    <2> QED
      BY <2>3
  <1> HIDE DEF N
  <1>3. \A n \in Nat : n \in N
    BY <1>1, <1>2, NatSetInduction
  <1> QED
    BY <1>3 DEF N

ProductsTo(v, s, n) ==
  /\ s[0] = 1 /\ \A k \in 1 .. n : s[k] = Times(s[k - 1], v[k - 1])
  /\ \A k \in 0 .. n : s[k] \in Field
  /\ ProductOf(v) = s[n]

LEMMA ProductOfIs ==
  ASSUME NEW n \in Nat, NEW v \in Vectors(n)
  PROVE  \E s : ProductsTo(v, s, n)
  <1>1. DOMAIN v = 0 .. n - 1 /\ Size(v) = n /\ \A i \in 0 .. n - 1 : v[i] \in Field
    BY VectorSize
  <1>2. \E s : VectorProducts(s, v, n)
    BY VectorProductsExist
  <1> DEFINE g == CHOOSE s : VectorProducts(s, v, Size(v))
  <1>3. VectorProducts(g, v, Size(v)) /\ ProductOf(v) = g[Size(v)]
    BY <1>1, <1>2, Zenon DEF ProductOf, VectorProducts
  <1> HIDE DEF g
  <1>4. \A k \in 0 .. n : g[k] = IF k = 0 THEN 1 ELSE Times(g[k - 1], v[k - 1])
    BY <1>1, <1>3, Zenon DEF VectorProducts
  <1>5. g[0] = 1 /\ \A k \in 1 .. n : g[k] = Times(g[k - 1], v[k - 1])
    BY <1>4
  <1> DEFINE N == {k \in Nat : k <= n => g[k] \in Field}
  <1>6. 0 \in N
    BY <1>5, Constants
  <1>7. ASSUME NEW k \in Nat, k \in N PROVE k + 1 \in N
    <2>1. k + 1 <= n => k + 1 \in 1 .. n /\ (k + 1) - 1 = k /\ k \in 0 .. n - 1 /\ k <= n
      OBVIOUS
    <2>2. k + 1 <= n => g[k + 1] = Times(g[k], v[k]) /\ g[k] \in Field /\ v[k] \in Field
      BY <1>1, <1>5, <1>7, <2>1
    <2> QED
      BY <2>2, FieldClosed
  <1> HIDE DEF N
  <1>8. \A k \in Nat : k \in N
    BY <1>6, <1>7, NatSetInduction
  <1>9. \A k \in 0 .. n : g[k] \in Field
    BY <1>8 DEF N
  <1>10. ProductsTo(v, g, n)
    BY <1>1, <1>3, <1>5, <1>9 DEF ProductsTo
  <1> QED
    BY <1>10

LEMMA ProductInField ==
  ASSUME NEW n \in Nat, NEW v \in Vectors(n)
  PROVE  ProductOf(v) \in Field
  <1>1. PICK s : ProductsTo(v, s, n)
    BY ProductOfIs
  <1> QED
    BY <1>1 DEF ProductsTo

(* Without its first entry. *)
After(v, n) == [k \in 0 .. n - 1 |-> v[k + 1]]

LEMMA ProductSplits ==
  ASSUME NEW n \in Nat, NEW v \in Vectors(n + 1)
  PROVE  After(v, n) \in Vectors(n) /\ ProductOf(v) = Times(v[0], ProductOf(After(v, n)))
  <1> DEFINE w == After(v, n)
             x == v[0]
  <1>1. \A i \in 0 .. n : v[i] \in Field
    BY VectorSize
  <1>2. w \in Vectors(n) /\ \A i \in 0 .. n - 1 : w[i] = v[i + 1] /\ w[i] \in Field
    BY <1>1 DEF After, Vectors
  <1>3. x \in Field
    BY <1>1
  <1> HIDE DEF w, x
  <1>4. PICK a : ProductsTo(v, a, n + 1)
    BY ProductOfIs
  <1>5. PICK b : ProductsTo(w, b, n)
    BY <1>2, ProductOfIs
  <1>6. /\ a[0] = 1 /\ \A k \in 1 .. n + 1 : a[k] = Times(a[k - 1], v[k - 1])
        /\ ProductOf(v) = a[n + 1]
        /\ b[0] = 1 /\ \A k \in 1 .. n : b[k] = Times(b[k - 1], w[k - 1])
        /\ \A k \in 0 .. n : b[k] \in Field
        /\ ProductOf(w) = b[n]
    BY <1>4, <1>5 DEF ProductsTo
  <1> DEFINE N == {k \in Nat : k <= n => a[k + 1] = Times(x, b[k])}
  <1>7. 0 \in N
    <2>1. a[1] = Times(1, v[0]) /\ b[0] = 1
      BY <1>6
    <2>2. Times(1, x) = x /\ Times(x, 1) = Times(1, x)
      BY <1>3, Constants, FieldLaws
    <2> QED
      BY <2>1, <2>2 DEF x
  <1>8. ASSUME NEW k \in Nat, k \in N PROVE k + 1 \in N
    <2> SUFFICES ASSUME k + 1 <= n PROVE a[(k + 1) + 1] = Times(x, b[k + 1])
      OBVIOUS
    <2>1. /\ (k + 1) + 1 \in 1 .. n + 1 /\ ((k + 1) + 1) - 1 = k + 1 /\ k + 1 \in 1 .. n /\ (k + 1) - 1 = k
          /\ k \in 0 .. n - 1 /\ k \in 0 .. n /\ k <= n
      OBVIOUS
    <2>2. /\ a[(k + 1) + 1] = Times(a[k + 1], v[k + 1]) /\ b[k + 1] = Times(b[k], w[k])
          /\ w[k] = v[k + 1] /\ w[k] \in Field /\ b[k] \in Field
      BY <1>2, <1>6, <2>1
    <2>3. a[k + 1] = Times(x, b[k])
      BY <1>8, <2>1
    <2>4. Times(Times(x, b[k]), w[k]) = Times(x, Times(b[k], w[k]))
      BY <1>3, <2>2, FieldLaws
    <2> QED
      BY <2>2, <2>3, <2>4
  <1> HIDE DEF N
  <1>9. \A k \in Nat : k \in N
    BY <1>7, <1>8, NatSetInduction
  <1>10. a[n + 1] = Times(x, b[n])
    BY <1>9 DEF N
  <1> QED
    BY <1>2, <1>6, <1>10 DEF w, x

(* The point without its first coordinate, and the table of a point from    *)
(* that of the others.                                                      *)
Others(p, l) == [k \in 1 .. l |-> p[k + 1]]

LEMMA OthersAre ==
  ASSUME NEW l \in Nat, NEW p \in [1 .. l + 1 -> Field]
  PROVE  Others(p, l) \in [1 .. l -> Field] /\ Tail(p) = Others(p, l) /\ p[1] \in Field
  <1>1. \A k \in 1 .. l : k + 1 \in 1 .. l + 1
    OBVIOUS
  <1>2. Others(p, l) \in [1 .. l -> Field] /\ p[1] \in Field
    BY <1>1 DEF Others
  <1>3. IsSequence(p) /\ Len(p) = l + 1
    BY FunctionIsSequence
  <1>4. p \in Seq(Field) /\ p # <<>>
    <2>1. p \in Seq(Range(p)) /\ Range(p) \subseteq Field
      BY <1>3 DEF IsSequence, Range
    <2> QED
      BY <1>3, <2>1
  <1>5. Tail(p) \in Seq(Field) /\ Len(Tail(p)) = l /\ \A k \in 1 .. l : Tail(p)[k] = p[k + 1]
    BY <1>3, <1>4
  <1>6. Tail(p) = [k \in 1 .. l |-> Tail(p)[k]]
    <2>1. Tail(p) = [k \in 1 .. Len(Tail(p)) |-> Tail(p)[k]]
      BY <1>5, LenProperties
    <2> QED
      BY <1>5, <2>1
  <1> QED
    BY <1>2, <1>5, <1>6 DEF Others

LEMMA TableGrows ==
  ASSUME NEW l \in Nat, NEW p \in [1 .. l + 1 -> Field]
  PROVE  EvalsFromPoints(p) = Doubled(EvalsFromPoints(Others(p, l)), p[1])
  <1> DEFINE q == Others(p, l)
             m == l + 1
             rp == Reversed(p)
             rq == Reversed(q)
             s == EqTables(rp)
             t == EqTables(rq)
  <1>1. q \in [1 .. l -> Field] /\ \A k \in 1 .. l : q[k] = p[k + 1]
    BY OthersAre DEF Others
  <1> HIDE DEF q
  <1>2. m \in Nat /\ p \in [1 .. m -> Field] /\ Len(p) = m /\ Len(q) = l
    BY <1>1, FunctionIsSequence
  <1>3. EvalsFromPoints(p) = s[m] /\ EvalsFromPoints(q) = t[l]
    BY <1>2, Zenon DEF EvalsFromPoints
  <1>4. /\ rp \in [1 .. m -> Field] /\ \A i \in 1 .. m : rp[i] = p[m + 1 - i]
        /\ rq \in [1 .. l -> Field] /\ \A i \in 1 .. l : rq[i] = q[l + 1 - i]
    <2> HIDE DEF m
    <2> QED
      BY <1>1, <1>2, ReversedIs
  <1>5. ASSUME NEW i \in 1 .. l PROVE rp[i] = rq[i]
    <2>1. i \in 1 .. m /\ l + 1 - i \in 1 .. l /\ (l + 1 - i) + 1 = m + 1 - i
      OBVIOUS
    <2> HIDE DEF rp, rq, m
    <2> QED
      BY <1>1, <1>4, <2>1
  <1>6. rp[m] = p[1]
    <2>1. m \in 1 .. m /\ m + 1 - m = 1
      OBVIOUS
    <2> HIDE DEF rp, rq
    <2> QED
      BY <1>4, <2>1
  <1>7. Tables(s, rp, m) /\ Tables(t, rq, l)
    <2> HIDE DEF rp, rq, m
    <2> QED
      BY <1>2, <1>4, EqTablesAre
  <1> HIDE DEF s, t, rp, rq
  <1> DEFINE N == {k \in Nat : k <= l => s[k] = t[k]}
  <1>8. 0 \in N
    BY <1>7 DEF Tables
  <1>9. ASSUME NEW k \in Nat, k \in N PROVE k + 1 \in N
    <2> SUFFICES ASSUME k + 1 <= l PROVE s[k + 1] = t[k + 1]
      OBVIOUS
    <2>1. k + 1 \in 1 .. l /\ k + 1 \in 1 .. m /\ (k + 1) - 1 = k /\ k <= l
      OBVIOUS
    <2>2. s[k + 1] = Doubled(s[k], rp[k + 1]) /\ t[k + 1] = Doubled(t[k], rq[k + 1])
      BY <1>7, <2>1 DEF Tables
    <2>3. s[k] = t[k]
      BY <1>9, <2>1
    <2> QED
      BY <1>5, <2>1, <2>2, <2>3
  <1> HIDE DEF N
  <1>10. \A k \in Nat : k \in N
    BY <1>8, <1>9, NatSetInduction
  <1>11. s[l] = t[l]
    BY <1>10 DEF N
  <1>12. s[m] = Doubled(s[l], rp[m])
    <2>1. m \in 1 .. m /\ m - 1 = l
      OBVIOUS
    <2> QED
      BY <1>7, <2>1 DEF Tables
  <1>13. EvalsFromPoints(p) = Doubled(EvalsFromPoints(q), p[1])
    BY <1>3, <1>6, <1>11, <1>12
  <1> QED
    BY <1>13 DEF q

(* Bits of an index. *)
LEMMA QuotientMoves ==
  ASSUME NEW i \in Nat, NEW m \in Nat \ {0}, NEW q \in Nat
  PROVE  (i + m * q) \div m = (i \div m) + q
  <1> DEFINE d == i \div m
             x == i + m * q
             e == x \div m
  <1>1. d \in Nat /\ m * d <= i /\ i < m * d + m
    BY Division
  <1>2. x \in Nat
    <2>1. m * q \in Nat
      OBVIOUS
    <2> QED
      BY <2>1
  <1>3. e \in Nat /\ m * e <= x /\ x < m * e + m
    <2> HIDE DEF x
    <2> QED
      BY <1>2, Division
  <1> HIDE DEF d, e
  <1>4. m * (d + q) = m * d + m * q
    BY <1>1
  <1>5. m * e < m * (d + q) + m /\ m * (d + q) < m * e + m
    BY <1>1, <1>3, <1>4
  <1> DEFINE f == d + q
  <1>6. f \in Nat
    BY <1>1
  <1> HIDE DEF f
  <1>7. ~(e >= f + 1)
    <2>1. SUFFICES ASSUME e >= f + 1 PROVE FALSE
      OBVIOUS
    <2>2. m * e >= m * (f + 1) /\ m * (f + 1) = m * f + m
      BY <1>3, <1>6, <2>1
    <2> QED
      BY <1>3, <1>5, <1>6, <2>2 DEF f
  <1>8. ~(f >= e + 1)
    <2>1. SUFFICES ASSUME f >= e + 1 PROVE FALSE
      OBVIOUS
    <2>2. m * f >= m * (e + 1) /\ m * (e + 1) = m * e + m
      BY <1>3, <1>6, <2>1
    <2> QED
      BY <1>3, <1>5, <1>6, <2>2 DEF f
  <1>9. e = f
    BY <1>3, <1>6, <1>7, <1>8
  <1> QED
    BY <1>9 DEF e, f, d

(* The first coordinate takes the top bit. *)
LEMMA TopBit ==
  ASSUME NEW l \in Nat, NEW i \in 0 .. PowerOfTwo[l] - 1
  PROVE  Bit(i, l + 1, 1) = 0 /\ Bit(i + PowerOfTwo[l], l + 1, 1) = 1
  <1> DEFINE m == PowerOfTwo[l]
  <1>1. m \in Nat \ {0} /\ (l + 1) - 1 = l /\ i \in Nat
    BY PowerIsPositive
  <1>2. /\ Bit(i, l + 1, 1) = (i \div m) % 2
        /\ Bit(i + m, l + 1, 1) = ((i + m) \div m) % 2
    BY <1>1 DEF Bit
  <1> HIDE DEF m
  <1>3. i < m
    BY <1>1 DEF m
  <1>4. i \div m = 0
    BY <1>1, <1>3
  <1>5. (i + m) \div m = 1
    <2>1. (i + m * 1) \div m = (i \div m) + 1
      <3>1. i \in Nat /\ m \in Nat \ {0} /\ 1 \in Nat
        BY <1>1
      <3> QED
        BY <3>1, QuotientMoves, Zenon
    <2>2. m * 1 = m /\ 0 + 1 = 1
      BY <1>1
    <2> QED
      BY <1>4, <2>1, <2>2
  <1>6. 0 % 2 = 0 /\ 1 % 2 = 1
    OBVIOUS
  <1> QED
    BY <1>2, <1>4, <1>5, <1>6 DEF m

(* And the others the bits below. *)
LEMMA LowBits ==
  ASSUME NEW l \in Nat, NEW i \in 0 .. PowerOfTwo[l] - 1, NEW k \in 1 .. l
  PROVE  Bit(i, l + 1, k + 1) = Bit(i, l, k) /\ Bit(i + PowerOfTwo[l], l + 1, k + 1) = Bit(i, l, k)
  <1> DEFINE m == PowerOfTwo[l - k]
             h == PowerOfTwo[k - 1]
             n == PowerOfTwo[l]
  <1>1. l - k \in Nat /\ k - 1 \in Nat /\ (l + 1) - (k + 1) = l - k /\ (l - k) + ((k - 1) + 1) = l
    OBVIOUS
  <1>2. m \in Nat \ {0} /\ h \in Nat /\ n \in Nat /\ i \in Nat
    BY <1>1, PowerIsPositive
  <1>3. n = m * (2 * h)
    <2>1. PowerOfTwo[(k - 1) + 1] = 2 * h
      BY <1>1, PowerFacts
    <2>2. PowerOfTwo[(l - k) + ((k - 1) + 1)] = m * PowerOfTwo[(k - 1) + 1]
      <3> DEFINE a == l - k
                 b == (k - 1) + 1
      <3>1. a \in Nat /\ b \in Nat
        BY <1>1
      <3> HIDE DEF a, b
      <3>2. PowerOfTwo[a + b] = PowerOfTwo[a] * PowerOfTwo[b]
        BY <3>1, PowerOfSum
      <3> QED
        BY <3>2 DEF a, b
    <2> QED
      BY <1>1, <2>1, <2>2
  <1>4. /\ Bit(i, l + 1, k + 1) = (i \div m) % 2 /\ Bit(i, l, k) = (i \div m) % 2
        /\ Bit(i + n, l + 1, k + 1) = ((i + n) \div m) % 2
    BY <1>1, Zenon DEF Bit
  <1> HIDE DEF m, n, h
  <1> DEFINE q == 2 * h
             d == i \div m
  <1>5. (i + m * q) \div m = d + q /\ d \in Nat
    <2>1. q \in Nat
      BY <1>2
    <2> HIDE DEF q
    <2> QED
      BY <1>2, <2>1, QuotientMoves, Division
  <1> HIDE DEF d
  <1>6. (d + 2 * h) % 2 = d % 2
    BY <1>2, <1>5
  <1> QED
    BY <1>3, <1>4, <1>5, <1>6 DEF n, d

(* The weight of an index at a point, as Extension defines it. *)
ChiFactor(p, l, i, k) == IF Bit(i, l, k + 1) = 1 THEN p[k + 1] ELSE Minus(1, p[k + 1])
ChiFactors(p, l, i) == [k \in 0 .. l - 1 |-> ChiFactor(p, l, i, k)]

LEMMA ChiFactorsAre ==
  ASSUME NEW l \in Nat, NEW p \in [1 .. l -> Field], NEW i
  PROVE  ChiFactors(p, l, i) \in Vectors(l)
  <1>1. ASSUME NEW k \in 0 .. l - 1 PROVE ChiFactor(p, l, i, k) \in Field
    <2>1. k + 1 \in 1 .. l
      OBVIOUS
    <2>2. p[k + 1] \in Field
      BY <2>1
    <2> QED
      BY <2>2, Constants, FieldClosed DEF ChiFactor
  <1> QED
    BY <1>1 DEF ChiFactors, Vectors

(* The first factor is that of the top bit. *)
LEMMA ChiSplits ==
  ASSUME NEW l \in Nat, NEW p \in [1 .. l + 1 -> Field], NEW i \in 0 .. PowerOfTwo[l] - 1
  PROVE  /\ ProductOf(ChiFactors(p, l + 1, i))
              = Times(Minus(1, p[1]), ProductOf(ChiFactors(Others(p, l), l, i)))
         /\ ProductOf(ChiFactors(p, l + 1, i + PowerOfTwo[l]))
              = Times(p[1], ProductOf(ChiFactors(Others(p, l), l, i)))
  <1> DEFINE n == PowerOfTwo[l]
             q == Others(p, l)
             f(j) == ChiFactors(p, l + 1, j)
             g == ChiFactors(q, l, i)
  <1>1. q \in [1 .. l -> Field] /\ p[1] \in Field /\ \A k \in 1 .. l : q[k] = p[k + 1]
    BY OthersAre DEF Others
  <1>2. \A j : f(j) \in Vectors(l + 1)
    <2>1. l + 1 \in Nat
      OBVIOUS
    <2> QED
      BY <2>1, ChiFactorsAre
  <1>3. f(i)[0] = Minus(1, p[1]) /\ f(i + n)[0] = p[1]
    <2>1. 0 \in 0 .. (l + 1) - 1 /\ 0 + 1 = 1
      OBVIOUS
    <2>2. Bit(i, l + 1, 1) = 0 /\ Bit(i + n, l + 1, 1) = 1
      BY TopBit
    <2> HIDE DEF n, q
    <2> QED
      BY <2>1, <2>2 DEF ChiFactors, ChiFactor
  <1>4. ASSUME NEW k \in 0 .. l - 1
        PROVE  /\ ChiFactor(p, l + 1, i, k + 1) = ChiFactor(q, l, i, k)
               /\ ChiFactor(p, l + 1, i + n, k + 1) = ChiFactor(q, l, i, k)
    <2>1. k + 1 \in 1 .. l
      OBVIOUS
    <2>2. /\ Bit(i, l + 1, (k + 1) + 1) = Bit(i, l, k + 1)
          /\ Bit(i + n, l + 1, (k + 1) + 1) = Bit(i, l, k + 1)
      BY <2>1, LowBits
    <2>3. q[k + 1] = p[(k + 1) + 1]
      BY <1>1, <2>1
    <2> HIDE DEF n, q
    <2> QED
      BY <2>2, <2>3, Zenon DEF ChiFactor
  <1>5. After(f(i), l) = g /\ After(f(i + n), l) = g
    <2>1. \A k \in 0 .. l - 1 : k + 1 \in 0 .. (l + 1) - 1
      OBVIOUS
    <2>2. \A j : \A k \in 0 .. l - 1 : f(j)[k + 1] = ChiFactor(p, l + 1, j, k + 1)
      BY <2>1 DEF ChiFactors
    <2>3. \A k \in 0 .. l - 1 : g[k] = ChiFactor(q, l, i, k)
      BY DEF ChiFactors
    <2>4. g = [k \in 0 .. l - 1 |-> ChiFactor(q, l, i, k)]
      BY DEF ChiFactors
    <2> HIDE DEF f, g, n, q
    <2>5. \A k \in 0 .. l - 1 : f(i)[k + 1] = ChiFactor(q, l, i, k) /\ f(i + n)[k + 1] = ChiFactor(q, l, i, k)
      BY <1>4, <2>2
    <2> QED
      BY <2>4, <2>5 DEF After
  <1> DEFINE a == f(i)
             b == f(i + n)
  <1>6. a \in Vectors(l + 1) /\ b \in Vectors(l + 1) /\ After(a, l) = g /\ After(b, l) = g
        /\ a[0] = Minus(1, p[1]) /\ b[0] = p[1]
    BY <1>2, <1>3, <1>5
  <1> HIDE DEF a, b, g
  <1>7. ProductOf(a) = Times(a[0], ProductOf(g)) /\ ProductOf(b) = Times(b[0], ProductOf(g))
    <2>1. ProductOf(a) = Times(a[0], ProductOf(After(a, l))) /\ ProductOf(b) = Times(b[0], ProductOf(After(b, l)))
      BY <1>6, ProductSplits
    <2> QED
      BY <1>6, <2>1
  <1> QED
    BY <1>6, <1>7 DEF a, b, g

LEMMA Complement ==
  ASSUME NEW t \in Field, NEW x \in Field
  PROVE  Minus(t, Times(t, x)) = Times(Minus(1, x), t) /\ Times(t, x) = Times(x, t)
  <1>1. Is(t, t) /\ Is(x, x) /\ Is(1, 1) /\ t \in Int /\ x \in Int
    BY IsItself, Constants, FieldIsInt
  <1>2. Is(Times(t, x), t * x) /\ Is(Minus(1, x), 1 - x)
    BY <1>1, IsOps
  <1>3. Is(Minus(t, Times(t, x)), t - t * x) /\ Is(Times(Minus(1, x), t), (1 - x) * t)
    BY <1>1, <1>2, IsOps
  <1>4. (1 - x) * t = t - t * x
    BY <1>1
  <1>5. Same(t - t * x, t - t * x)
    BY <1>1, SameIs
  <1>6. Minus(t, Times(t, x)) = Times(Minus(1, x), t)
    BY <1>3, <1>4, <1>5, IsEqual
  <1> QED
    BY <1>6, FieldLaws

(* The table of a point holds the weights of all indices.                   *)
ChiTable(p, l) == \A i \in 0 .. PowerOfTwo[l] - 1 : EvalsFromPoints(p)[i] = ProductOf(ChiFactors(p, l, i))

LEMMA TableHalves ==
  ASSUME NEW l \in Nat, NEW p \in [1 .. l + 1 -> Field], NEW i \in 0 .. PowerOfTwo[l] - 1
  PROVE  /\ EvalsFromPoints(p)[i] = Times(Minus(1, p[1]), EvalsFromPoints(Others(p, l))[i])
         /\ EvalsFromPoints(p)[i + PowerOfTwo[l]] = Times(p[1], EvalsFromPoints(Others(p, l))[i])
         /\ EvalsFromPoints(Others(p, l))[i] \in Field
  <1> DEFINE n == PowerOfTwo[l]
             q == Others(p, l)
             T == EvalsFromPoints(q)
             x == p[1]
             t == T[i]
             D == EvalsFromPoints(p)
  <1>1. q \in [1 .. l -> Field] /\ x \in Field
    BY OthersAre
  <1>2. T \in Vectors(n)
    <2> HIDE DEF q
    <2> QED
      BY <1>1, EvalsSize
  <1>3. n \in Nat /\ t \in Field
    <2>1. n \in Nat
      BY PowerFacts
    <2> HIDE DEF T
    <2> QED
      BY <1>2, <2>1, VectorSize
  <1>4. D = Doubled(T, x)
    BY TableGrows
  <1> HIDE DEF T, x, D
  <1>5. Doubled(T, x) = [j \in 0 .. 2 * n - 1 |->
              IF j < n THEN Minus(T[j], Times(T[j], x)) ELSE Times(T[j - n], x)]
    BY <1>1, <1>2, <1>3, DoubledIs
  <1>6. i \in 0 .. 2 * n - 1 /\ i < n /\ i + n \in 0 .. 2 * n - 1 /\ ~(i + n < n) /\ (i + n) - n = i
    <2>1. i \in 0 .. n - 1
      OBVIOUS
    <2> HIDE DEF n
    <2> QED
      BY <1>3, <2>1
  <1> HIDE DEF n
  <1>7. D[i] = Minus(t, Times(t, x)) /\ D[i + n] = Times(t, x)
    BY <1>4, <1>5, <1>6
  <1> HIDE DEF t
  <1>8. D[i] = Times(Minus(1, x), t) /\ D[i + n] = Times(x, t)
    BY <1>1, <1>3, <1>7, Complement
  <1> QED
    BY <1>3, <1>8 DEF t, T, D, n, x

LEMMA ChiTableIs == \A l \in Nat : \A p \in [1 .. l -> Field] : ChiTable(p, l)
  <1> DEFINE N == {l \in Nat : \A p \in [1 .. l -> Field] : ChiTable(p, l)}
  <1>1. 0 \in N
    <2>1. ASSUME NEW p \in [1 .. 0 -> Field], NEW i \in 0 .. PowerOfTwo[0] - 1
          PROVE  EvalsFromPoints(p)[i] = ProductOf(ChiFactors(p, 0, i))
      <3> DEFINE rp == Reversed(p)
                 v == ChiFactors(p, 0, i)
      <3>1. i = 0 /\ 0 \in Nat
        BY PowerFacts
      <3>2. Len(p) = 0 /\ rp \in [1 .. 0 -> Field]
        BY <3>1, FunctionIsSequence, ReversedIs
      <3> HIDE DEF rp
      <3>3. Tables(EqTables(rp), rp, 0)
        BY <3>1, <3>2, EqTablesAre
      <3>4. EvalsFromPoints(p)[0] = 1
        BY <3>2, <3>3 DEF EvalsFromPoints, Tables, rp
      <3>5. v \in Vectors(0)
        BY <3>1, ChiFactorsAre
      <3> HIDE DEF v
      <3>6. PICK s : ProductsTo(v, s, 0)
        BY <3>1, <3>5, ProductOfIs
      <3>7. ProductOf(v) = 1
        BY <3>6 DEF ProductsTo
      <3> QED
        BY <3>1, <3>4, <3>7 DEF v
    <2> QED
      BY <2>1 DEF ChiTable
  <1>2. ASSUME NEW l \in Nat, l \in N PROVE l + 1 \in N
    <2>1. ASSUME NEW p \in [1 .. l + 1 -> Field], NEW j \in 0 .. PowerOfTwo[l + 1] - 1
          PROVE  EvalsFromPoints(p)[j] = ProductOf(ChiFactors(p, l + 1, j))
      <3> DEFINE n == PowerOfTwo[l]
                 q == Others(p, l)
      <3>1. n \in Nat /\ PowerOfTwo[l + 1] = 2 * n
        BY PowerFacts
      <3>2. q \in [1 .. l -> Field]
        BY OthersAre
      <3>3. ChiTable(q, l)
        BY <1>2, <3>2
      <3>4. ASSUME NEW i \in 0 .. n - 1
            PROVE  /\ EvalsFromPoints(p)[i] = ProductOf(ChiFactors(p, l + 1, i))
                   /\ EvalsFromPoints(p)[i + n] = ProductOf(ChiFactors(p, l + 1, i + n))
        <4>1. EvalsFromPoints(q)[i] = ProductOf(ChiFactors(q, l, i))
          BY <3>3 DEF ChiTable
        <4>2. /\ EvalsFromPoints(p)[i] = Times(Minus(1, p[1]), EvalsFromPoints(q)[i])
              /\ EvalsFromPoints(p)[i + n] = Times(p[1], EvalsFromPoints(q)[i])
          BY TableHalves
        <4>3. /\ ProductOf(ChiFactors(p, l + 1, i)) = Times(Minus(1, p[1]), ProductOf(ChiFactors(q, l, i)))
              /\ ProductOf(ChiFactors(p, l + 1, i + n)) = Times(p[1], ProductOf(ChiFactors(q, l, i)))
          BY ChiSplits
        <4> HIDE DEF n, q
        <4> QED
          BY <4>1, <4>2, <4>3
      <3> HIDE DEF n, q
      <3>5. CASE j < n
        <4>1. j \in 0 .. n - 1
          BY <3>1, <3>5
        <4> QED
          BY <3>4, <4>1
      <3>6. CASE ~(j < n)
        <4>1. j - n \in 0 .. n - 1 /\ (j - n) + n = j
          BY <3>1, <3>6
        <4> QED
          BY <3>4, <4>1
      <3> QED
        BY <3>5, <3>6
    <2> QED
      BY <2>1 DEF ChiTable
  <1> HIDE DEF N
  <1>3. \A l \in Nat : l \in N
    BY <1>1, <1>2, NatSetInduction
  <1> QED
    BY <1>3 DEF N

(* A sum in two parts, and one of scaled entries. *)
FirstPart(v, n) == [i \in 0 .. n - 1 |-> v[i]]
LastPart(v, n, m) == [i \in 0 .. m - 1 |-> v[n + i]]

LEMMA PartsAre ==
  ASSUME NEW n \in Nat, NEW m \in Nat, NEW v \in Vectors(n + m)
  PROVE  FirstPart(v, n) \in Vectors(n) /\ LastPart(v, n, m) \in Vectors(m)
  <1>1. n + m \in Nat
    OBVIOUS
  <1>2. \A i \in 0 .. n + m - 1 : v[i] \in Field
    BY <1>1, VectorSize
  <1>3. \A i \in 0 .. n - 1 : i \in 0 .. n + m - 1
    OBVIOUS
  <1>4. \A i \in 0 .. m - 1 : n + i \in 0 .. n + m - 1
    OBVIOUS
  <1> QED
    BY <1>2, <1>3, <1>4 DEF FirstPart, LastPart, Vectors

LEMMA SumSplits ==
  ASSUME NEW n \in Nat, NEW m \in Nat, NEW v \in Vectors(n + m)
  PROVE  SumOf(v) = Plus(SumOf(FirstPart(v, n)), SumOf(LastPart(v, n, m)))
  <1> DEFINE f == FirstPart(v, n)
             g == LastPart(v, n, m)
  <1>1. n + m \in Nat /\ f \in Vectors(n) /\ g \in Vectors(m)
    BY PartsAre
  <1>2. (\A i \in 0 .. n - 1 : f[i] = v[i]) /\ \A i \in 0 .. m - 1 : g[i] = v[n + i] /\ g[i] \in Field
    BY <1>1, VectorSize DEF FirstPart, LastPart
  <1> HIDE DEF f, g
  <1>3. PICK s : SumsTo(v, s, n + m)
    BY <1>1, SumOfIs
  <1>4. PICK a : SumsTo(f, a, n)
    BY <1>1, SumOfIs
  <1>5. PICK b : SumsTo(g, b, m)
    BY <1>1, SumOfIs
  <1>6. /\ s[0] = 0 /\ \A k \in 1 .. n + m : s[k] = Plus(s[k - 1], v[k - 1])
        /\ SumOf(v) = s[n + m]
        /\ a[0] = 0 /\ \A k \in 1 .. n : a[k] = Plus(a[k - 1], f[k - 1])
        /\ SumOf(f) = a[n] /\ a[n] \in Field
        /\ b[0] = 0 /\ \A k \in 1 .. m : b[k] = Plus(b[k - 1], g[k - 1])
        /\ SumOf(g) = b[m] /\ \A k \in 0 .. m : b[k] \in Field
    BY <1>3, <1>4, <1>5 DEF SumsTo
  <1> DEFINE N == {k \in Nat : k <= n => s[k] = a[k]}
  <1>7. 0 \in N
    BY <1>6
  <1>8. ASSUME NEW k \in Nat, k \in N PROVE k + 1 \in N
    <2> SUFFICES ASSUME k + 1 <= n PROVE s[k + 1] = a[k + 1]
      OBVIOUS
    <2>1. k + 1 \in 1 .. n /\ k + 1 \in 1 .. n + m /\ (k + 1) - 1 = k /\ k \in 0 .. n - 1 /\ k <= n
      OBVIOUS
    <2>2. s[k + 1] = Plus(s[k], v[k]) /\ a[k + 1] = Plus(a[k], f[k]) /\ f[k] = v[k]
      BY <1>2, <1>6, <2>1
    <2> QED
      BY <1>8, <2>1, <2>2
  <1> HIDE DEF N
  <1>9. \A k \in Nat : k \in N
    BY <1>7, <1>8, NatSetInduction
  <1>10. s[n] = a[n]
    BY <1>9 DEF N
  <1> DEFINE M == {k \in Nat : k <= m => s[n + k] = Plus(a[n], b[k])}
  <1>11. 0 \in M
    <2>1. n + 0 = n /\ Plus(a[n], 0) = a[n]
      BY <1>6, FieldLaws
    <2> QED
      BY <1>6, <1>10, <2>1
  <1>12. ASSUME NEW k \in Nat, k \in M PROVE k + 1 \in M
    <2> SUFFICES ASSUME k + 1 <= m PROVE s[n + (k + 1)] = Plus(a[n], b[k + 1])
      OBVIOUS
    <2>1. /\ k + 1 \in 1 .. m /\ n + (k + 1) \in 1 .. n + m /\ (k + 1) - 1 = k /\ (n + (k + 1)) - 1 = n + k
          /\ k \in 0 .. m - 1 /\ k \in 0 .. m /\ k <= m
      OBVIOUS
    <2>2. /\ s[n + (k + 1)] = Plus(s[n + k], v[n + k]) /\ b[k + 1] = Plus(b[k], g[k])
          /\ g[k] = v[n + k] /\ g[k] \in Field /\ b[k] \in Field
      BY <1>2, <1>6, <2>1
    <2>3. s[n + k] = Plus(a[n], b[k])
      BY <1>12, <2>1
    <2>4. Plus(Plus(a[n], b[k]), g[k]) = Plus(a[n], Plus(b[k], g[k]))
      BY <1>6, <2>2, FieldLaws
    <2> QED
      BY <2>2, <2>3, <2>4
  <1> HIDE DEF M
  <1>13. \A k \in Nat : k \in M
    BY <1>11, <1>12, NatSetInduction
  <1>14. s[n + m] = Plus(a[n], b[m])
    BY <1>13 DEF M
  <1> QED
    BY <1>6, <1>14 DEF f, g

LEMMA SumScales ==
  ASSUME NEW n \in Nat, NEW x \in Field, NEW v \in Vectors(n), NEW w, w = [i \in 0 .. n - 1 |-> Times(x, v[i])]
  PROVE  SumOf(w) = Times(x, SumOf(v))
  <1>1. \A i \in 0 .. n - 1 : v[i] \in Field
    BY VectorSize
  <1>2. 0 \in Field
    BY Constants
  <1>3. \A i \in 0 .. n - 1 : Plus(Times(x, v[i]), Times(0, v[i])) = Times(x, v[i])
    <2> SUFFICES ASSUME NEW i \in 0 .. n - 1 PROVE Plus(Times(x, v[i]), Times(0, v[i])) = Times(x, v[i])
      OBVIOUS
    <2>1. Times(x, v[i]) \in Field /\ Times(0, v[i]) = 0
      BY <1>1, FieldClosed, FieldLaws
    <2> QED
      BY <2>1, FieldLaws
  <1>4. w = TwoTerms(x, v, 0, v, n)
    BY <1>3 DEF TwoTerms
  <1>5. SumOf(w) = Plus(Times(x, SumOf(v)), Times(0, SumOf(v)))
    BY <1>2, <1>4, SumIsLinear
  <1>6. SumOf(v) \in Field
    BY SumInField
  <1>7. Times(x, SumOf(v)) \in Field /\ Times(0, SumOf(v)) = 0
    BY <1>6, FieldClosed, FieldLaws
  <1> QED
    BY <1>5, <1>7, FieldLaws

(* Entries after the m-th that are zero add nothing. *)
LEMMA SumStops ==
  ASSUME NEW n \in Nat, NEW m \in Nat, m <= n, NEW v \in Vectors(n), \A i \in m .. n - 1 : v[i] = 0
  PROVE  SumOf(v) = SumOf(FirstPart(v, m))
  <1> DEFINE k == n - m
             g == LastPart(v, m, k)
             f == FirstPart(v, m)
  <1>1. k \in Nat /\ m + k = n
    OBVIOUS
  <1>2. g = [i \in 0 .. k - 1 |-> 0]
    <2>1. \A i \in 0 .. k - 1 : m + i \in m .. n - 1
      OBVIOUS
    <2>2. \A i \in 0 .. k - 1 : v[m + i] = 0
      BY <2>1
    <2> QED
      BY <2>2 DEF LastPart
  <1>3. SumOf(v) = Plus(SumOf(f), SumOf(g))
    <2> HIDE DEF k
    <2> QED
      BY <1>1, SumSplits
  <1>4. f \in Vectors(m)
    <2> HIDE DEF k
    <2> QED
      BY <1>1, PartsAre
  <1> HIDE DEF f, g, k
  <1>5. SumOf(g) = 0
    BY <1>1, <1>2, SumOfZeros
  <1>6. SumOf(f) \in Field
    BY <1>4, SumInField
  <1> QED
    BY <1>3, <1>5, <1>6, FieldLaws DEF f

(* An extension is the product with the table of the point. *)
LEMMA ExtensionIs ==
  ASSUME NEW l \in Nat, NEW p \in [1 .. l -> Field], NEW f
  PROVE  Extension(f, p) = Dot(f, EvalsFromPoints(p), PowerOfTwo[l])
  <1>1. Len(p) = l
    BY FunctionIsSequence
  <1>2. \A i : ProductOf(ChiFactors(p, l, i))
          = ProductOf([k \in 0 .. l - 1 |-> IF Bit(i, l, k + 1) = 1 THEN p[k + 1] ELSE Minus(1, p[k + 1])])
    BY Zenon DEF ChiFactors, ChiFactor
  <1>3. Extension(f, p) = SumOf([i \in 0 .. PowerOfTwo[l] - 1 |-> Times(f[i],
          ProductOf([k \in 0 .. l - 1 |-> IF Bit(i, l, k + 1) = 1 THEN p[k + 1] ELSE Minus(1, p[k + 1])]))])
    BY <1>1, Zenon DEF Extension
  <1> DEFINE c(i) == ProductOf([k \in 0 .. l - 1 |-> IF Bit(i, l, k + 1) = 1 THEN p[k + 1] ELSE Minus(1, p[k + 1])])
             T == EvalsFromPoints(p)
  <1>4. \A i \in 0 .. PowerOfTwo[l] - 1 : T[i] = c(i)
    <2>1. ChiTable(p, l)
      BY ChiTableIs
    <2>2. \A i \in 0 .. PowerOfTwo[l] - 1 : T[i] = ProductOf(ChiFactors(p, l, i))
      BY <2>1, Zenon DEF ChiTable
    <2> HIDE DEF T
    <2> QED
      BY <1>2, <2>2, Zenon
  <1>5. Extension(f, p) = SumOf([i \in 0 .. PowerOfTwo[l] - 1 |-> Times(f[i], c(i))])
    BY <1>3
  <1> HIDE DEF c, T
  <1>6. [i \in 0 .. PowerOfTwo[l] - 1 |-> Times(f[i], c(i))] = [i \in 0 .. PowerOfTwo[l] - 1 |-> Times(f[i], T[i])]
    BY <1>4
  <1>7. Extension(f, p) = SumOf([i \in 0 .. PowerOfTwo[l] - 1 |-> Times(f[i], T[i])])
    BY <1>5, <1>6
  <1> QED
    BY <1>7, Zenon DEF Dot, T

LEMMA ExtensionInField ==
  ASSUME NEW l \in Nat, NEW p \in [1 .. l -> Field], NEW f \in Vectors(PowerOfTwo[l])
  PROVE  Extension(f, p) \in Field
  <1> DEFINE T == EvalsFromPoints(p)
             n == PowerOfTwo[l]
  <1>1. T \in Vectors(n) /\ n \in Nat
    BY EvalsSize, PowerFacts
  <1>2. Extension(f, p) = Dot(f, T, n)
    BY ExtensionIs
  <1> HIDE DEF T
  <1>3. Dot(f, T, n) \in Field
    <2> HIDE DEF n
    <2>1. f \in Vectors(n)
      BY DEF n
    <2> QED
      BY <1>1, <2>1, ProductsAre
  <1> QED
    BY <1>2, <1>3

(* x * (f * t), regrouped. *)
LEMMA ScaleMoves ==
  ASSUME NEW f \in Field, NEW x \in Field, NEW t \in Field
  PROVE  Times(f, Times(x, t)) = Times(x, Times(f, t))
  <1>1. Times(f, Times(x, t)) = Times(Times(f, x), t) /\ Times(Times(x, f), t) = Times(x, Times(f, t))
    BY FieldLaws
  <1>2. Times(f, x) = Times(x, f)
    BY FieldLaws
  <1> QED
    BY <1>1, <1>2

(* The first coordinate is between the two halves of the vector. *)
LEMMA ExtensionSplits ==
  ASSUME NEW l \in Nat, NEW p \in [1 .. l + 1 -> Field], NEW n, n = PowerOfTwo[l], NEW f \in Vectors(n + n)
  PROVE  Extension(f, p) = Plus(Times(Minus(1, p[1]), Extension(FirstPart(f, n), Others(p, l))),
                                Times(p[1], Extension(LastPart(f, n, n), Others(p, l))))
  <1> DEFINE q == Others(p, l)
             x == p[1]
             c == Minus(1, x)
             T == EvalsFromPoints(q)
             D == EvalsFromPoints(p)
             low == FirstPart(f, n)
             high == LastPart(f, n, n)
             v == [j \in 0 .. (n + n) - 1 |-> Times(f[j], D[j])]
             a == [j \in 0 .. n - 1 |-> Times(low[j], T[j])]
             b == [j \in 0 .. n - 1 |-> Times(high[j], T[j])]
  <1>1. n \in Nat /\ n + n \in Nat /\ PowerOfTwo[l + 1] = n + n /\ l + 1 \in Nat
    <2>1. PowerOfTwo[l] \in Nat
      BY PowerFacts
    <2>2. PowerOfTwo[l + 1] = 2 * PowerOfTwo[l]
      BY PowerFacts
    <2> QED
      BY <2>1, <2>2
  <1>2. q \in [1 .. l -> Field] /\ x \in Field
    BY OthersAre
  <1>3. c \in Field
    <2> HIDE DEF x
    <2> QED
      BY <1>2, Constants, FieldClosed
  <1>4. low \in Vectors(n) /\ high \in Vectors(n)
    BY <1>1, PartsAre
  <1>5. T \in Vectors(n) /\ D \in Vectors(n + n)
    <2> HIDE DEF q
    <2> QED
      BY <1>1, <1>2, EvalsSize
  <1>6. \A j \in 0 .. n - 1 : D[j] = Times(c, T[j]) /\ D[j + n] = Times(x, T[j])
    <2> SUFFICES ASSUME NEW j \in 0 .. n - 1 PROVE D[j] = Times(c, T[j]) /\ D[j + n] = Times(x, T[j])
      OBVIOUS
    <2>1. j \in 0 .. PowerOfTwo[l] - 1
      OBVIOUS
    <2> QED
      BY <2>1, TableHalves
  <1>7. Extension(low, q) = SumOf(a) /\ Extension(high, q) = SumOf(b)
    <2>1. Extension(low, q) = Dot(low, T, n) /\ Extension(high, q) = Dot(high, T, n)
      <3> HIDE DEF q
      <3> QED
        BY <1>2, ExtensionIs
    <2> HIDE DEF low, high, T, q
    <2> QED
      BY <2>1, Zenon DEF Dot
  <1>8. Extension(f, p) = SumOf(v)
    <2>1. Extension(f, p) = Dot(f, D, n + n)
      BY <1>1, ExtensionIs
    <2> HIDE DEF D
    <2> QED
      BY <2>1, Zenon DEF Dot
  <1>9. (\A j \in 0 .. n - 1 : low[j] = f[j]) /\ \A j \in 0 .. n - 1 : high[j] = f[n + j]
    BY DEF FirstPart, LastPart
  <1> HIDE DEF low, high, T, D, q, x, c
  <1>10. a \in Vectors(n) /\ b \in Vectors(n) /\ v \in Vectors(n + n)
    <2>1. a \in Vectors(n)
      BY <1>1, <1>4, <1>5, ProductsAre
    <2>2. b \in Vectors(n)
      BY <1>1, <1>4, <1>5, ProductsAre
    <2>3. v \in Vectors(n + n)
      BY <1>1, <1>5, ProductsAre
    <2> QED
      BY <2>1, <2>2, <2>3
  <1>11. ASSUME NEW j \in 0 .. n - 1
         PROVE  v[j] = Times(c, a[j]) /\ v[n + j] = Times(x, b[j])
    <2>1. j \in 0 .. (n + n) - 1 /\ n + j \in 0 .. (n + n) - 1 /\ j + n = n + j
      <3>1. n \in Nat /\ j \in 0 .. n - 1
        BY <1>1
      <3> HIDE DEF a, b, v
      <3> QED
        BY <3>1
    <2> DEFINE t == T[j]
               g == low[j]
               h == high[j]
    <2>2. t \in Field /\ g \in Field /\ h \in Field
      BY <1>1, <1>4, <1>5, VectorSize
    <2>3. v[j] = Times(g, Times(c, t)) /\ v[n + j] = Times(h, Times(x, t))
      BY <1>6, <1>9, <2>1
    <2>4. a[j] = Times(g, t) /\ b[j] = Times(h, t)
      OBVIOUS
    <2> HIDE DEF t, g, h, a, b, v
    <2> QED
      BY <1>2, <1>3, <2>2, <2>3, <2>4, ScaleMoves
  <1> HIDE DEF a, b, v
  <1>12. SumOf(FirstPart(v, n)) = Times(c, SumOf(a))
    <2>1. FirstPart(v, n) = [j \in 0 .. n - 1 |-> Times(c, a[j])]
      BY <1>11 DEF FirstPart
    <2> QED
      BY <1>1, <1>3, <1>10, <2>1, SumScales
  <1>13. SumOf(LastPart(v, n, n)) = Times(x, SumOf(b))
    <2>1. LastPart(v, n, n) = [j \in 0 .. n - 1 |-> Times(x, b[j])]
      BY <1>11 DEF LastPart
    <2> QED
      BY <1>1, <1>2, <1>10, <2>1, SumScales
  <1>14. SumOf(v) = Plus(SumOf(FirstPart(v, n)), SumOf(LastPart(v, n, n)))
    BY <1>1, <1>10, SumSplits
  <1>15. Extension(f, p) = Plus(Times(c, Extension(low, q)), Times(x, Extension(high, q)))
    BY <1>7, <1>8, <1>12, <1>13, <1>14
  <1> QED
    BY <1>15 DEF low, high, q, x, c

-----------------------------------------------------------------------------
(* Sequences of one or two entries                                          *)

(* One or two elements as a function. *)
LEMMA FewAre ==
  /\ \A a : <<a>> = [i \in 1 .. 1 |-> a]
  /\ \A a, b : <<a, b>> = [i \in 1 .. 2 |-> IF i = 1 THEN a ELSE b]
  OBVIOUS

LEMMA SequenceIsFunction ==
  ASSUME NEW n \in Nat, NEW s, IsSequence(s), Len(s) = n
  PROVE  s = [i \in 1 .. n |-> s[i]]
  <1>1. s \in Seq(Range(s))
    BY DEF IsSequence
  <1>2. s = [i \in 1 .. Len(s) |-> s[i]]
    BY <1>1, LenProperties
  <1> QED
    BY <1>2

-----------------------------------------------------------------------------
(* Sums of sums                                                             *)

(* The last entry is added to the sum of the others. *)
LEMMA SumGrows ==
  ASSUME NEW n \in Nat, NEW v \in Vectors(n + 1)
  PROVE  SumOf(v) = Plus(SumOf(FirstPart(v, n)), v[n])
  <1> DEFINE g == LastPart(v, n, 1)
  <1>1. SumOf(v) = Plus(SumOf(FirstPart(v, n)), SumOf(g))
    BY SumSplits
  <1>2. g \in Vectors(1)
    BY PartsAre
  <1>3. g[0] = v[n + 0] /\ n + 0 = n
    BY DEF LastPart
  <1>4. SumOf(g) = g[0]
    BY <1>2, SumOfOne
  <1> QED
    BY <1>1, <1>3, <1>4

(* The sum of two vectors, entry by entry. *)
LEMMA SumAdds ==
  ASSUME NEW n \in Nat, NEW v \in Vectors(n), NEW w \in Vectors(n)
  PROVE  /\ [i \in 0 .. n - 1 |-> Plus(v[i], w[i])] \in Vectors(n)
         /\ SumOf([i \in 0 .. n - 1 |-> Plus(v[i], w[i])]) = Plus(SumOf(v), SumOf(w))
  <1>1. \A i \in 0 .. n - 1 : v[i] \in Field /\ w[i] \in Field
    BY VectorSize
  <1>2. 1 \in Field /\ SumOf(v) \in Field /\ SumOf(w) \in Field
    BY Constants, SumInField
  <1>3. ASSUME NEW x \in Field, NEW y \in Field PROVE Plus(Times(1, x), Times(1, y)) = Plus(x, y)
    BY <1>3, FieldLaws
  <1>4. TwoTerms(1, v, 1, w, n) = [i \in 0 .. n - 1 |-> Plus(v[i], w[i])]
    BY <1>1, <1>3 DEF TwoTerms
  <1>5. /\ TwoTerms(1, v, 1, w, n) \in Vectors(n)
        /\ SumOf(TwoTerms(1, v, 1, w, n)) = Plus(Times(1, SumOf(v)), Times(1, SumOf(w)))
    BY <1>2, SumIsLinear
  <1> QED
    BY <1>2, <1>3, <1>4, <1>5

(* The sum of the j-th entries of the first k rows. *)
ColumnSum(f, k, j) == SumOf([i \in 0 .. k - 1 |-> f[i][j]])

LEMMA ColumnGrows ==
  ASSUME NEW n \in Nat, NEW m \in Nat, NEW f \in [0 .. n - 1 -> Vectors(m)], NEW k \in Nat, k <= n,
         NEW j \in 0 .. m - 1
  PROVE  /\ [i \in 0 .. k - 1 |-> f[i][j]] \in Vectors(k)
         /\ ColumnSum(f, k, j) \in Field
         /\ k + 1 <= n => ColumnSum(f, k + 1, j) = Plus(ColumnSum(f, k, j), f[k][j])
  <1>1. \A i \in 0 .. n - 1 : f[i][j] \in Field
    BY VectorSize
  <1> DEFINE v(q) == [i \in 0 .. q - 1 |-> f[i][j]]
  <1>2. ASSUME NEW q \in Nat, q <= n PROVE v(q) \in Vectors(q)
    BY <1>1, <1>2 DEF Vectors
  <1>3. ASSUME k + 1 <= n PROVE SumOf(v(k + 1)) = Plus(SumOf(v(k)), f[k][j])
    <2>1. v(k + 1) \in Vectors(k + 1)
      BY <1>2, <1>3
    <2>2. FirstPart(v(k + 1), k) = v(k) /\ v(k + 1)[k] = f[k][j]
      BY DEF FirstPart
    <2>3. SumOf(v(k + 1)) = Plus(SumOf(FirstPart(v(k + 1), k)), v(k + 1)[k])
      BY <2>1, SumGrows
    <2> QED
      BY <2>2, <2>3
  <1>4. v(k) \in Vectors(k)
    BY <1>2
  <1>5. SumOf(v(k)) \in Field
    BY <1>4, SumInField
  <1> QED
    BY <1>3, <1>4, <1>5 DEF ColumnSum

(* The sum of the sums of the rows is that of the sums of the columns. *)
LEMMA SumsSwap ==
  ASSUME NEW n \in Nat, NEW m \in Nat, NEW f \in [0 .. n - 1 -> Vectors(m)]
  PROVE  /\ [i \in 0 .. n - 1 |-> SumOf(f[i])] \in Vectors(n)
         /\ [j \in 0 .. m - 1 |-> ColumnSum(f, n, j)] \in Vectors(m)
         /\ SumOf([i \in 0 .. n - 1 |-> SumOf(f[i])]) = SumOf([j \in 0 .. m - 1 |-> ColumnSum(f, n, j)])
  <1> DEFINE rows(k) == [i \in 0 .. k - 1 |-> SumOf(f[i])]
             cols(k) == [j \in 0 .. m - 1 |-> ColumnSum(f, k, j)]
  <1>1. \A i \in 0 .. n - 1 : f[i] \in Vectors(m) /\ SumOf(f[i]) \in Field
    BY SumInField
  <1>2. ASSUME NEW k \in Nat, k <= n PROVE rows(k) \in Vectors(k) /\ cols(k) \in Vectors(m)
    <2>1. \A j \in 0 .. m - 1 : ColumnSum(f, k, j) \in Field
      BY <1>2, ColumnGrows
    <2>2. \A i \in 0 .. k - 1 : i \in 0 .. n - 1
      BY <1>2
    <2> QED
      BY <1>1, <2>1, <2>2 DEF Vectors
  <1> DEFINE N == {k \in Nat : k <= n => SumOf(rows(k)) = SumOf(cols(k))}
  <1>3. 0 \in N
    <2>1. rows(0) = [i \in 0 .. 0 - 1 |-> 0]
      OBVIOUS
    <2>2. ASSUME NEW j \in 0 .. m - 1 PROVE ColumnSum(f, 0, j) = 0
      <3>1. [i \in 0 .. 0 - 1 |-> f[i][j]] = [i \in 0 .. 0 - 1 |-> 0]
        OBVIOUS
      <3> QED
        BY <3>1, SumOfZeros DEF ColumnSum
    <2>3. cols(0) = [j \in 0 .. m - 1 |-> 0]
      BY <2>2
    <2> HIDE DEF rows, cols
    <2>4. SumOf(rows(0)) = 0 /\ SumOf(cols(0)) = 0
      BY <2>1, <2>3, SumOfZeros
    <2> QED
      BY <2>4
  <1>4. ASSUME NEW k \in Nat, k \in N PROVE k + 1 \in N
    <2> SUFFICES ASSUME k + 1 <= n PROVE SumOf(rows(k + 1)) = SumOf(cols(k + 1))
      OBVIOUS
    <2> DEFINE v == rows(k + 1)
               w == cols(k)
               last == f[k]
    <2>1. k <= n /\ k \in 0 .. n - 1 /\ k + 1 \in Nat
      OBVIOUS
    <2>2. v \in Vectors(k + 1) /\ w \in Vectors(m) /\ last \in Vectors(m)
      BY <1>1, <1>2, <2>1
    <2>3. FirstPart(v, k) = rows(k) /\ v[k] = SumOf(last)
      BY DEF FirstPart
    <2>4. cols(k + 1) = [j \in 0 .. m - 1 |-> Plus(w[j], last[j])]
      <3>1. \A j \in 0 .. m - 1 : ColumnSum(f, k + 1, j) = Plus(ColumnSum(f, k, j), f[k][j])
        BY <2>1, ColumnGrows
      <3> QED
        BY <3>1
    <2>5. SumOf(rows(k)) = SumOf(w)
      BY <1>4, <2>1
    <2> HIDE DEF v, w, last, rows, cols
    <2>6. SumOf(v) = Plus(SumOf(FirstPart(v, k)), v[k])
      BY <2>2, SumGrows
    <2>7. SumOf(cols(k + 1)) = Plus(SumOf(w), SumOf(last))
      BY <2>2, <2>4, SumAdds
    <2>8. SumOf(v) = SumOf(cols(k + 1))
      BY <2>3, <2>5, <2>6, <2>7
    <2> QED
      BY <2>8 DEF v
  <1> HIDE DEF N
  <1>5. \A k \in Nat : k \in N
    BY <1>3, <1>4, NatSetInduction
  <1>6. SumOf(rows(n)) = SumOf(cols(n))
    BY <1>5 DEF N
  <1> HIDE DEF rows, cols
  <1>7. rows(n) \in Vectors(n) /\ cols(n) \in Vectors(m)
    BY <1>2
  <1> QED
    BY <1>6, <1>7, Zenon DEF rows, cols

(* Rows of m entries one after the other. *)
Block(v, m, i) == [j \in 0 .. m - 1 |-> v[i * m + j]]

LEMMA BlockIs ==
  ASSUME NEW n \in Nat, NEW m \in Nat, NEW v \in Vectors(n * m), NEW i \in 0 .. n - 1
  PROVE  Block(v, m, i) \in Vectors(m) /\ \A j \in 0 .. m - 1 : i * m + j \in 0 .. n * m - 1
  <1>1. ASSUME NEW j \in 0 .. m - 1 PROVE i * m + j \in 0 .. n * m - 1
    <2>1. PICK d \in Nat : n = i + 1 + d
      <3>1. n - i - 1 \in Nat /\ n = i + 1 + (n - i - 1)
        OBVIOUS
      <3> QED
        BY <3>1
    <2>2. n * m = i * m + m + d * m /\ i * m \in Nat /\ d * m \in Nat
      BY <2>1
    <2> QED
      BY <2>2
  <1>2. n * m \in Nat
    OBVIOUS
  <1>3. \A j \in 0 .. n * m - 1 : v[j] \in Field
    BY <1>2, VectorSize
  <1> QED
    BY <1>1, <1>3 DEF Block, Vectors

(* A sum, row by row. *)
LEMMA SumBlocks ==
  ASSUME NEW n \in Nat, NEW m \in Nat, NEW v \in Vectors(n * m)
  PROVE  SumOf(v) = SumOf([i \in 0 .. n - 1 |-> SumOf(Block(v, m, i))])
  <1> DEFINE rows(k) == [i \in 0 .. k - 1 |-> SumOf(Block(v, m, i))]
             N == {k \in Nat : k <= n => SumOf(FirstPart(v, k * m)) = SumOf(rows(k))}
  <1>1. \A i \in 0 .. n - 1 : Block(v, m, i) \in Vectors(m) /\ SumOf(Block(v, m, i)) \in Field
    BY BlockIs, SumInField
  <1>2. \A k \in Nat : k * m \in Nat
    OBVIOUS
  <1>3. ASSUME NEW k \in Nat, k <= n PROVE k * m <= n * m /\ FirstPart(v, k * m) \in Vectors(k * m)
    <2>1. PICK d \in Nat : n = k + d
      <3>1. n - k \in Nat /\ n = k + (n - k)
        BY <1>3
      <3> QED
        BY <3>1
    <2>2. n * m = k * m + d * m /\ d * m \in Nat /\ k * m \in Nat
      BY <2>1
    <2> DEFINE a == k * m
               b == d * m
    <2>3. v \in Vectors(a + b) /\ a \in Nat /\ b \in Nat
      BY <2>2
    <2>4. a <= n * m
      BY <2>2
    <2> HIDE DEF a, b
    <2>5. FirstPart(v, a) \in Vectors(a)
      BY <2>3, PartsAre
    <2> QED
      BY <2>4, <2>5 DEF a
  <1>4. 0 \in N
    <2>1. 0 * m = 0
      OBVIOUS
    <2>2. FirstPart(v, 0) = [i \in 0 .. 0 - 1 |-> 0] /\ rows(0) = [i \in 0 .. 0 - 1 |-> 0]
      BY DEF FirstPart
    <2> HIDE DEF rows
    <2>3. SumOf(FirstPart(v, 0)) = 0 /\ SumOf(rows(0)) = 0
      BY <2>2, SumOfZeros
    <2> QED
      BY <2>1, <2>3
  <1>5. ASSUME NEW k \in Nat, k \in N PROVE k + 1 \in N
    <2> SUFFICES ASSUME k + 1 <= n PROVE SumOf(FirstPart(v, (k + 1) * m)) = SumOf(rows(k + 1))
      OBVIOUS
    <2> DEFINE a == k * m
               f == FirstPart(v, (k + 1) * m)
               b == Block(v, m, k)
               w == rows(k + 1)
    <2>1. (k + 1) * m = a + m /\ a \in Nat /\ k <= n /\ k \in 0 .. n - 1 /\ k + 1 \in Nat
      OBVIOUS
    <2>2. f \in Vectors(a + m)
      BY <1>3, <2>1
    <2>3. FirstPart(f, a) = FirstPart(v, a) /\ LastPart(f, a, m) = b
      BY <2>1 DEF FirstPart, LastPart, Block
    <2>4. w \in Vectors(k + 1)
      <3>1. \A i \in 0 .. k : i \in 0 .. n - 1
        BY <2>1
      <3> QED
        BY <1>1, <3>1 DEF Vectors
    <2>5. FirstPart(w, k) = rows(k) /\ w[k] = SumOf(b)
      BY DEF FirstPart
    <2>6. SumOf(FirstPart(v, a)) = SumOf(rows(k))
      BY <1>5, <2>1
    <2> HIDE DEF a, f, b, w, rows
    <2>7. SumOf(f) = Plus(SumOf(FirstPart(f, a)), SumOf(LastPart(f, a, m)))
      BY <2>1, <2>2, SumSplits
    <2>8. SumOf(w) = Plus(SumOf(FirstPart(w, k)), w[k])
      BY <2>4, SumGrows
    <2>9. SumOf(f) = SumOf(w)
      BY <2>3, <2>5, <2>6, <2>7, <2>8
    <2> QED
      BY <2>9 DEF f, w
  <1> HIDE DEF N
  <1>6. \A k \in Nat : k \in N
    BY <1>4, <1>5, NatSetInduction
  <1>7. SumOf(FirstPart(v, n * m)) = SumOf(rows(n))
    BY <1>6 DEF N
  <1>8. FirstPart(v, n * m) = v
    BY <1>2 DEF FirstPart, Vectors
  <1> QED
    BY <1>7, <1>8

-----------------------------------------------------------------------------
(* The table of a point is the outer product of those of its parts          *)

TopOf(p, a) == [k \in 1 .. a |-> p[k]]
RestOf(p, a, b) == [k \in 1 .. b |-> p[a + k]]

LEMMA PointParts ==
  ASSUME NEW a \in Nat, NEW b \in Nat, NEW p \in [1 .. a + b -> Field]
  PROVE  /\ TopOf(p, a) \in [1 .. a -> Field] /\ RestOf(p, a, b) \in [1 .. b -> Field]
         /\ TopOf(p, a) = SubSeq(p, 1, a) /\ RestOf(p, a, b) = SubSeq(p, a + 1, a + b)
  <1>1. (\A k \in 1 .. a : k \in 1 .. a + b) /\ \A k \in 1 .. b : a + k \in 1 .. a + b
    OBVIOUS
  <1>2. \A k \in 1 .. a + b : p[k] \in Field
    OBVIOUS
  <1>3. CutFrom(SubSeq(p, 0 + 1, 0 + a), p, 0, a) /\ CutFrom(SubSeq(p, a + 1, a + b), p, a, b)
    BY Cut
  <1>4. 0 + 1 = 1 /\ 0 + a = a /\ \A k \in 1 .. a : 0 + k = k
    OBVIOUS
  <1>5. ASSUME NEW c, NEW n \in Nat, IsSequence(c), Len(c) = n PROVE c = [k \in 1 .. n |-> c[k]]
    <2>1. c \in Seq(Range(c))
      BY <1>5 DEF IsSequence
    <2>2. c = [k \in 1 .. Len(c) |-> c[k]]
      BY <2>1, LenProperties
    <2> QED
      BY <1>5, <2>2
  <1> DEFINE s == SubSeq(p, 1, a)
             t == SubSeq(p, a + 1, a + b)
  <1>6. /\ IsSequence(s) /\ Len(s) = a /\ \A k \in 1 .. a : s[k] = p[k]
        /\ IsSequence(t) /\ Len(t) = b /\ \A k \in 1 .. b : t[k] = p[a + k]
    BY <1>3, <1>4 DEF CutFrom
  <1> HIDE DEF s, t
  <1>7. s = [k \in 1 .. a |-> s[k]] /\ t = [k \in 1 .. b |-> t[k]]
    BY <1>5, <1>6
  <1>8. TopOf(p, a) = s /\ RestOf(p, a, b) = t
    BY <1>6, <1>7 DEF TopOf, RestOf
  <1>9. TopOf(p, a) \in [1 .. a -> Field]
    BY <1>1, <1>2 DEF TopOf
  <1>10. RestOf(p, a, b) \in [1 .. b -> Field]
    BY <1>1, <1>2 DEF RestOf
  <1> QED
    BY <1>8, <1>9, <1>10 DEF s, t

(* The table of no coordinates. *)
LEMMA EmptyTable ==
  ASSUME NEW p \in [1 .. 0 -> Field]
  PROVE  EvalsFromPoints(p)[0] = 1
  <1> DEFINE v == ChiFactors(p, 0, 0)
  <1>1. ChiTable(p, 0)
    BY ChiTableIs
  <1>2. 0 \in 0 .. PowerOfTwo[0] - 1
    BY PowerFacts
  <1>3. EvalsFromPoints(p)[0] = ProductOf(v)
    BY <1>1, <1>2 DEF ChiTable
  <1>4. v \in Vectors(0)
    BY ChiFactorsAre
  <1> HIDE DEF v
  <1>5. PICK s : ProductsTo(v, s, 0)
    BY <1>4, ProductOfIs
  <1> QED
    BY <1>3, <1>5 DEF ProductsTo

Index(i, b, j) == i * PowerOfTwo[b] + j

(* The entry of an index is the product of those of its parts. *)
IsOuterProduct(p, a, b) ==
  \A i \in 0 .. PowerOfTwo[a] - 1, j \in 0 .. PowerOfTwo[b] - 1 :
    EvalsFromPoints(p)[Index(i, b, j)]
      = Times(EvalsFromPoints(TopOf(p, a))[i], EvalsFromPoints(RestOf(p, a, b))[j])

(* An index below 2^(a + 1) with b more bits. *)
LEMMA IndexSplits ==
  ASSUME NEW a \in Nat, NEW b \in Nat, NEW i \in 0 .. PowerOfTwo[a] - 1, NEW j \in 0 .. PowerOfTwo[b] - 1
  PROVE  /\ Index(i, b, j) \in 0 .. PowerOfTwo[a + b] - 1
         /\ Index(i + PowerOfTwo[a], b, j) = Index(i, b, j) + PowerOfTwo[a + b]
  <1> DEFINE x == PowerOfTwo[a]
             y == PowerOfTwo[b]
  <1>1. x \in Nat /\ y \in Nat /\ PowerOfTwo[a + b] = x * y /\ i \in 0 .. x - 1 /\ j \in 0 .. y - 1
    BY PowerFacts, PowerOfSum
  <1> HIDE DEF x, y
  <1>2. PICK d \in Nat : x = i + 1 + d
    <2>1. x - i - 1 \in Nat /\ x = i + 1 + (x - i - 1)
      BY <1>1
    <2> QED
      BY <2>1
  <1>3. x * y = i * y + y + d * y /\ i * y \in Nat /\ d * y \in Nat /\ (i + x) * y = i * y + x * y
    BY <1>1, <1>2
  <1>4. i * y + j \in 0 .. x * y - 1 /\ (i + x) * y + j = (i * y + j) + x * y
    BY <1>1, <1>3
  <1> QED
    BY <1>1, <1>4 DEF Index, x, y

LEMMA OuterProductGrows ==
  ASSUME NEW a \in Nat, NEW b \in Nat, NEW p \in [1 .. (a + b) + 1 -> Field],
         IsOuterProduct(Others(p, a + b), a, b)
  PROVE  IsOuterProduct(p, a + 1, b)
  <1> DEFINE q == Others(p, a + b)
             top == TopOf(p, a + 1)
             qtop == TopOf(q, a)
             R == EvalsFromPoints(RestOf(q, a, b))
             x == PowerOfTwo[a]
             y == PowerOfTwo[a + b]
  <1>1. a + b \in Nat /\ a + 1 \in Nat /\ (a + 1) + b = (a + b) + 1
    OBVIOUS
  <1>2. q \in [1 .. a + b -> Field] /\ p[1] \in Field
    BY <1>1, OthersAre
  <1>3. p \in [1 .. (a + 1) + b -> Field]
    BY <1>1, Zenon
  <1>4. top \in [1 .. a + 1 -> Field] /\ qtop \in [1 .. a -> Field] /\ RestOf(q, a, b) \in [1 .. b -> Field]
    <2> HIDE DEF q
    <2> QED
      BY <1>1, <1>2, <1>3, PointParts
  <1>5. Others(top, a) = qtop /\ top[1] = p[1]
    <2>1. (\A k \in 1 .. a : k + 1 \in 1 .. a + 1 /\ k \in 1 .. a + b) /\ 1 \in 1 .. a + 1
      OBVIOUS
    <2> QED
      BY <2>1 DEF Others, TopOf
  <1>6. RestOf(p, a + 1, b) = RestOf(q, a, b)
    <2>1. \A k \in 1 .. b : (a + 1) + k = (a + k) + 1 /\ a + k \in 1 .. a + b
      OBVIOUS
    <2> QED
      BY <2>1 DEF Others, RestOf
  <1>7. x \in Nat /\ y \in Nat /\ PowerOfTwo[a + 1] = 2 * x
    BY <1>1, PowerFacts
  <1>8. Minus(1, p[1]) \in Field
    BY <1>2, Constants, FieldClosed
  <1>9. R \in Vectors(PowerOfTwo[b])
    BY <1>4, EvalsSize
  <1>10. ASSUME NEW i \in 0 .. x - 1, NEW j \in 0 .. PowerOfTwo[b] - 1
         PROVE  /\ EvalsFromPoints(p)[Index(i, b, j)] = Times(EvalsFromPoints(top)[i], R[j])
                /\ EvalsFromPoints(p)[Index(i + x, b, j)] = Times(EvalsFromPoints(top)[i + x], R[j])
    <2> DEFINE t == EvalsFromPoints(qtop)[i]
               m == Index(i, b, j)
    <2>1. m \in 0 .. y - 1 /\ Index(i + x, b, j) = m + y
      BY IndexSplits
    <2>2. EvalsFromPoints(q)[m] = Times(t, R[j])
      BY DEF IsOuterProduct
    <2>3. /\ EvalsFromPoints(p)[m] = Times(Minus(1, p[1]), EvalsFromPoints(q)[m])
          /\ EvalsFromPoints(p)[m + y] = Times(p[1], EvalsFromPoints(q)[m])
      <3> HIDE DEF m
      <3> QED
        BY <1>1, <2>1, TableHalves
    <2>4. /\ EvalsFromPoints(top)[i] = Times(Minus(1, p[1]), t)
          /\ EvalsFromPoints(top)[i + x] = Times(p[1], t) /\ t \in Field
      <3>1. /\ EvalsFromPoints(top)[i] = Times(Minus(1, top[1]), EvalsFromPoints(Others(top, a))[i])
            /\ EvalsFromPoints(top)[i + x] = Times(top[1], EvalsFromPoints(Others(top, a))[i])
            /\ EvalsFromPoints(Others(top, a))[i] \in Field
        <4> HIDE DEF top
        <4> QED
          BY <1>4, TableHalves
      <3> HIDE DEF top, qtop
      <3> QED
        BY <1>5, <3>1
    <2>5. R[j] \in Field
      BY <1>9, PowerFacts, VectorSize
    <2> HIDE DEF t, m, R, x, y, top, q
    <2>6. ASSUME NEW c \in Field PROVE Times(c, Times(t, R[j])) = Times(Times(c, t), R[j])
      BY <2>4, <2>5, <2>6, FieldLaws
    <2>7. /\ Times(Minus(1, p[1]), Times(t, R[j])) = Times(Times(Minus(1, p[1]), t), R[j])
          /\ Times(p[1], Times(t, R[j])) = Times(Times(p[1], t), R[j])
      BY <1>2, <1>8, <2>6
    <2> QED
      BY <2>1, <2>2, <2>3, <2>4, <2>7 DEF m
  <1> HIDE DEF x, y, top, q, R, qtop
  <1>11. ASSUME NEW i \in 0 .. PowerOfTwo[a + 1] - 1, NEW j \in 0 .. PowerOfTwo[b] - 1
         PROVE  EvalsFromPoints(p)[Index(i, b, j)] = Times(EvalsFromPoints(top)[i], R[j])
    <2>1. CASE i < x
      <3>1. i \in 0 .. x - 1
        BY <1>7, <2>1
      <3> QED
        BY <1>10, <3>1
    <2>2. CASE ~(i < x)
      <3>1. i - x \in 0 .. x - 1 /\ (i - x) + x = i
        BY <1>7, <2>2
      <3> QED
        BY <1>10, <3>1
    <2> QED
      BY <2>1, <2>2
  <1> QED
    BY <1>6, <1>11 DEF IsOuterProduct, top, R

LEMMA OuterProduct ==
  ASSUME NEW b \in Nat
  PROVE  \A a \in Nat : \A p \in [1 .. a + b -> Field] : IsOuterProduct(p, a, b)
  <1> DEFINE N == {a \in Nat : \A p \in [1 .. a + b -> Field] : IsOuterProduct(p, a, b)}
  <1>1. 0 \in N
    <2>1. ASSUME NEW p \in [1 .. 0 + b -> Field], NEW i \in 0 .. PowerOfTwo[0] - 1, NEW j \in 0 .. PowerOfTwo[b] - 1
          PROVE  EvalsFromPoints(p)[Index(i, b, j)]
                   = Times(EvalsFromPoints(TopOf(p, 0))[i], EvalsFromPoints(RestOf(p, 0, b))[j])
      <3>1. i = 0 /\ PowerOfTwo[b] \in Nat
        <4>1. PowerOfTwo[0] = 1 /\ PowerOfTwo[b] \in Nat
          BY PowerFacts
        <4>2. i \in 0 .. 1 - 1
          BY <4>1
        <4> QED
          BY <4>1, <4>2
      <3>2. Index(i, b, j) = j
        BY <3>1 DEF Index
      <3>3. p \in [1 .. b -> Field] /\ 0 + b = b
        <4>1. 0 + b = b
          OBVIOUS
        <4> QED
          BY <4>1
      <3>4. RestOf(p, 0, b) = p
        <4>1. \A k \in 1 .. b : 0 + k = k
          OBVIOUS
        <4> QED
          BY <3>3, <4>1 DEF RestOf
      <3>5. TopOf(p, 0) \in [1 .. 0 -> Field]
        BY DEF TopOf
      <3>6. EvalsFromPoints(TopOf(p, 0))[0] = 1
        BY <3>5, EmptyTable
      <3>7. EvalsFromPoints(p) \in Vectors(PowerOfTwo[b])
        BY <3>3, EvalsSize
      <3>8. EvalsFromPoints(p)[j] \in Field
        BY <3>1, <3>7, VectorSize
      <3>9. Times(1, EvalsFromPoints(p)[j]) = EvalsFromPoints(p)[j]
        BY <3>8, FieldLaws
      <3> QED
        BY <3>1, <3>2, <3>4, <3>6, <3>9
    <2> QED
      BY <2>1 DEF IsOuterProduct
  <1>2. ASSUME NEW a \in Nat, a \in N PROVE a + 1 \in N
    <2>1. ASSUME NEW p \in [1 .. (a + 1) + b -> Field] PROVE IsOuterProduct(p, a + 1, b)
      <3>1. (a + 1) + b = (a + b) + 1 /\ a + b \in Nat
        OBVIOUS
      <3>2. p \in [1 .. (a + b) + 1 -> Field]
        BY <3>1, Zenon
      <3>3. Others(p, a + b) \in [1 .. a + b -> Field]
        BY <3>1, <3>2, OthersAre
      <3>4. IsOuterProduct(Others(p, a + b), a, b)
        BY <1>2, <3>3
      <3> QED
        BY <3>2, <3>4, OuterProductGrows
    <2> QED
      BY <2>1
  <1> HIDE DEF N
  <1>3. \A a \in Nat : a \in N
    BY <1>1, <1>2, NatSetInduction
  <1> QED
    BY <1>3 DEF N

-----------------------------------------------------------------------------
(* Products of vectors and of matrices                                      *)

LEMMA DotCommutes ==
  ASSUME NEW n \in Nat, NEW v \in Vectors(n), NEW w \in Vectors(n)
  PROVE  Dot(v, w, n) = Dot(w, v, n) /\ Dot(v, w, n) \in Field
  <1>1. \A j \in 0 .. n - 1 : v[j] \in Field /\ w[j] \in Field
    BY VectorSize
  <1>2. \A j \in 0 .. n - 1 : Times(v[j], w[j]) = Times(w[j], v[j])
    BY <1>1, FieldLaws
  <1>3. [j \in 0 .. n - 1 |-> Times(v[j], w[j])] = [j \in 0 .. n - 1 |-> Times(w[j], v[j])]
    BY <1>2
  <1>4. Dot(v, w, n) \in Field
    BY ProductsAre
  <1> QED
    BY <1>3, <1>4 DEF Dot

(* Only the entries count. *)
LEMMA DotOfSame ==
  ASSUME NEW n \in Nat, NEW v, NEW w, NEW x, NEW y, \A j \in 0 .. n - 1 : Times(v[j], w[j]) = Times(x[j], y[j])
  PROVE  Dot(v, w, n) = Dot(x, y, n)
  <1>1. [j \in 0 .. n - 1 |-> Times(v[j], w[j])] = [j \in 0 .. n - 1 |-> Times(x[j], y[j])]
    OBVIOUS
  <1> QED
    BY <1>1 DEF Dot

(* Entries that are zero add nothing. *)
LEMMA DotStops ==
  ASSUME NEW n \in Nat, NEW m \in Nat, m <= n, NEW v \in Vectors(n), NEW w \in Vectors(n),
         \A i \in m .. n - 1 : v[i] = 0
  PROVE  Dot(v, w, n) = Dot(v, w, m)
  <1> DEFINE p == [j \in 0 .. n - 1 |-> Times(v[j], w[j])]
  <1>1. p \in Vectors(n)
    BY ProductsAre
  <1>2. \A i \in m .. n - 1 : p[i] = 0
    <2>1. \A i \in m .. n - 1 : i \in 0 .. n - 1
      OBVIOUS
    <2>2. \A i \in m .. n - 1 : Times(0, w[i]) = 0
      <3>1. \A i \in 0 .. n - 1 : w[i] \in Field
        BY VectorSize
      <3> QED
        BY <2>1, <3>1, FieldLaws
    <2> QED
      BY <2>1, <2>2
  <1>3. FirstPart(p, m) = [j \in 0 .. m - 1 |-> Times(v[j], w[j])]
    <2>1. \A j \in 0 .. m - 1 : j \in 0 .. n - 1
      OBVIOUS
    <2> QED
      BY <2>1 DEF FirstPart
  <1> HIDE DEF p
  <1>4. SumOf(p) = SumOf(FirstPart(p, m))
    BY <1>1, <1>2, SumStops
  <1> QED
    BY <1>3, <1>4 DEF Dot, p

LEMMA DotScales ==
  ASSUME NEW n \in Nat, NEW c \in Field, NEW v \in Vectors(n), NEW w \in Vectors(n),
         NEW x, \A j \in 0 .. n - 1 : x[j] = Times(c, w[j])
  PROVE  Dot(v, x, n) = Times(c, Dot(v, w, n))
  <1> DEFINE p == [j \in 0 .. n - 1 |-> Times(v[j], w[j])]
             q == [j \in 0 .. n - 1 |-> Times(v[j], x[j])]
  <1>1. \A j \in 0 .. n - 1 : v[j] \in Field /\ w[j] \in Field
    BY VectorSize
  <1>2. p \in Vectors(n)
    BY ProductsAre
  <1>3. \A j \in 0 .. n - 1 : Times(v[j], x[j]) = Times(c, Times(v[j], w[j]))
    BY <1>1, ScaleMoves
  <1>4. q = [j \in 0 .. n - 1 |-> Times(c, p[j])]
    BY <1>3
  <1> HIDE DEF p, q
  <1>5. SumOf(q) = Times(c, SumOf(p))
    BY <1>2, <1>4, SumScales
  <1> QED
    BY <1>5 DEF Dot, p, q

(* A product in two parts. *)
LEMMA DotSplits ==
  ASSUME NEW n \in Nat, NEW m \in Nat, NEW v \in Vectors(n + m), NEW w \in Vectors(n + m)
  PROVE  Dot(v, w, n + m) = Plus(Dot(v, w, n), Dot(LastPart(v, n, m), LastPart(w, n, m), m))
  <1> DEFINE p == [j \in 0 .. (n + m) - 1 |-> Times(v[j], w[j])]
  <1>1. p \in Vectors(n + m)
    BY ProductsAre
  <1>2. FirstPart(p, n) = [j \in 0 .. n - 1 |-> Times(v[j], w[j])]
    BY DEF FirstPart
  <1>3. LastPart(p, n, m) = [j \in 0 .. m - 1 |-> Times(LastPart(v, n, m)[j], LastPart(w, n, m)[j])]
    BY DEF LastPart
  <1> HIDE DEF p
  <1>4. SumOf(p) = Plus(SumOf(FirstPart(p, n)), SumOf(LastPart(p, n, m)))
    BY <1>1, SumSplits
  <1> QED
    BY <1>2, <1>3, <1>4 DEF Dot, p

(* The rows of a matrix times a vector, and the columns weighed by one. *)
IsMatrix(M, n, m) == M \in [0 .. n - 1 -> Vectors(m)]
RowProducts(M, z, n, m) == [i \in 0 .. n - 1 |-> Dot(M[i], z, m)]
ColumnProducts(M, t, n, m) == [j \in 0 .. m - 1 |-> SumOf([i \in 0 .. n - 1 |-> Times(t[i], M[i][j])])]

(* The two ways to take t * M * z. *)
LEMMA MatrixSwaps ==
  ASSUME NEW n \in Nat, NEW m \in Nat, NEW M, IsMatrix(M, n, m), NEW t \in Vectors(n), NEW z \in Vectors(m)
  PROVE  /\ RowProducts(M, z, n, m) \in Vectors(n) /\ ColumnProducts(M, t, n, m) \in Vectors(m)
         /\ Dot(ColumnProducts(M, t, n, m), z, m) = Dot(t, RowProducts(M, z, n, m), n)
  <1> DEFINE f == [i \in 0 .. n - 1 |-> [j \in 0 .. m - 1 |-> Times(t[i], Times(M[i][j], z[j]))]]
             rows == RowProducts(M, z, n, m)
             cols == ColumnProducts(M, t, n, m)
  <1>1. /\ \A i \in 0 .. n - 1 : M[i] \in Vectors(m) /\ t[i] \in Field
        /\ \A j \in 0 .. m - 1 : z[j] \in Field
    BY VectorSize DEF IsMatrix
  <1>2. \A i \in 0 .. n - 1 : \A j \in 0 .. m - 1 : M[i][j] \in Field
    BY <1>1, VectorSize
  <1>3. \A i \in 0 .. n - 1 : \A j \in 0 .. m - 1 : Times(M[i][j], z[j]) \in Field /\ Times(t[i], M[i][j]) \in Field
    BY <1>1, <1>2, FieldClosed
  <1>4. \A i \in 0 .. n - 1 : \A j \in 0 .. m - 1 : Times(t[i], Times(M[i][j], z[j])) \in Field
    BY <1>1, <1>3, FieldClosed
  <1>5. f \in [0 .. n - 1 -> Vectors(m)]
    BY <1>4 DEF Vectors
  <1>6. \A i \in 0 .. n - 1 : Dot(M[i], z, m) \in Field
    BY <1>1, ProductsAre
  <1>7. rows \in Vectors(n)
    BY <1>6 DEF Vectors, RowProducts
  <1>8. ASSUME NEW i \in 0 .. n - 1 PROVE SumOf(f[i]) = Times(t[i], rows[i])
    <2> DEFINE row == M[i]
               c == t[i]
               p == [j \in 0 .. m - 1 |-> Times(row[j], z[j])]
               q == f[i]
    <2>1. row \in Vectors(m) /\ c \in Field /\ q = [j \in 0 .. m - 1 |-> Times(c, p[j])]
      BY <1>1
    <2>2. rows[i] = SumOf(p)
      BY DEF RowProducts, Dot
    <2>3. p \in Vectors(m)
      <3> HIDE DEF row
      <3> QED
        BY <2>1, ProductsAre
    <2> HIDE DEF row, c, p, q
    <2>4. SumOf(q) = Times(c, SumOf(p))
      BY <2>1, <2>3, SumScales
    <2> QED
      BY <2>2, <2>4 DEF q, c
  <1>9. ASSUME NEW j \in 0 .. m - 1 PROVE cols[j] \in Field /\ ColumnSum(f, n, j) = Times(cols[j], z[j])
    <2> DEFINE p == [i \in 0 .. n - 1 |-> Times(t[i], M[i][j])]
               q == [i \in 0 .. n - 1 |-> f[i][j]]
               c == z[j]
    <2>1. p \in Vectors(n)
      BY <1>3 DEF Vectors
    <2>2. q = [i \in 0 .. n - 1 |-> Times(c, p[i])]
      <3>1. ASSUME NEW i \in 0 .. n - 1 PROVE Times(t[i], Times(M[i][j], z[j])) = Times(z[j], Times(t[i], M[i][j]))
        <4>1. t[i] \in Field /\ M[i][j] \in Field /\ z[j] \in Field
          BY <1>1, <1>2
        <4> DEFINE x == t[i]
                   y == M[i][j]
                   w == z[j]
        <4> HIDE DEF x, y, w
        <4>2. x \in Field /\ y \in Field /\ w \in Field
          BY <4>1 DEF x, y, w
        <4>3. Times(y, w) = Times(w, y)
          BY <4>2, FieldLaws
        <4>4. Times(x, Times(w, y)) = Times(w, Times(x, y))
          BY <4>2, ScaleMoves
        <4> QED
          BY <4>3, <4>4 DEF x, y, w
      <3> QED
        BY <3>1
    <2>3. cols[j] = SumOf(p) /\ c \in Field
      BY <1>1 DEF ColumnProducts
    <2> HIDE DEF p, q, c
    <2>4. SumOf(q) = Times(c, SumOf(p)) /\ SumOf(p) \in Field
      BY <2>1, <2>2, <2>3, SumScales, SumInField
    <2>5. SumOf(q) = Times(SumOf(p), c)
      BY <2>3, <2>4, FieldLaws
    <2> QED
      BY <2>3, <2>4, <2>5 DEF q, c, ColumnSum
  <1>10. cols \in Vectors(m)
    BY <1>9 DEF Vectors, ColumnProducts
  <1>11. [i \in 0 .. n - 1 |-> SumOf(f[i])] = [i \in 0 .. n - 1 |-> Times(t[i], rows[i])]
    BY <1>8
  <1>12. [j \in 0 .. m - 1 |-> ColumnSum(f, n, j)] = [j \in 0 .. m - 1 |-> Times(cols[j], z[j])]
    BY <1>9
  <1> HIDE DEF f, rows, cols
  <1>13. SumOf([i \in 0 .. n - 1 |-> SumOf(f[i])]) = SumOf([j \in 0 .. m - 1 |-> ColumnSum(f, n, j)])
    BY <1>5, SumsSwap
  <1> QED
    BY <1>7, <1>10, <1>11, <1>12, <1>13 DEF Dot, rows, cols

(* The entries of a vector in rows of m, combined by weights of the rows. *)
RowsCombined(L, f, n, m) == [j \in 0 .. m - 1 |-> SumOf([i \in 0 .. n - 1 |-> Times(L[i], f[i * m + j])])]

(* A vector is evaluated at a point by combining its rows at the first      *)
(* coordinates and the entries of the result at the others.                 *)
LEMMA ExtensionByRows ==
  ASSUME NEW a \in Nat, NEW b \in Nat, NEW p \in [1 .. a + b -> Field], NEW f \in Vectors(PowerOfTwo[a + b])
  PROVE  LET n == PowerOfTwo[a]
             m == PowerOfTwo[b]
             row == RowsCombined(EvalsFromPoints(TopOf(p, a)), f, n, m)
         IN  /\ row \in Vectors(m)
             /\ Extension(f, p) = Dot(row, EvalsFromPoints(RestOf(p, a, b)), m)
  <1> DEFINE n == PowerOfTwo[a]
             m == PowerOfTwo[b]
             T == EvalsFromPoints(p)
             L == EvalsFromPoints(TopOf(p, a))
             R == EvalsFromPoints(RestOf(p, a, b))
             M == [i \in 0 .. n - 1 |-> Block(f, m, i)]
             v == [k \in 0 .. n * m - 1 |-> Times(f[k], T[k])]
             row == RowsCombined(L, f, n, m)
  <1>1. n \in Nat /\ m \in Nat /\ PowerOfTwo[a + b] = n * m /\ a + b \in Nat /\ n * m \in Nat
    <2>1. n \in Nat /\ m \in Nat /\ PowerOfTwo[a + b] = n * m
      BY PowerFacts, PowerOfSum
    <2> HIDE DEF n, m
    <2> QED
      BY <2>1
  <1>2. T \in Vectors(n * m) /\ L \in Vectors(n) /\ R \in Vectors(m)
    <2>1. TopOf(p, a) \in [1 .. a -> Field] /\ RestOf(p, a, b) \in [1 .. b -> Field]
      BY PointParts
    <2>2. T \in Vectors(PowerOfTwo[a + b])
      BY <1>1, EvalsSize
    <2> QED
      BY <1>1, <2>1, <2>2, EvalsSize
  <1>3. \A i \in 0 .. n - 1 : \A j \in 0 .. m - 1 : T[i * m + j] = Times(L[i], R[j])
    <2>1. IsOuterProduct(p, a, b)
      BY OuterProduct
    <2> QED
      BY <2>1 DEF IsOuterProduct, Index
  <1>4. f \in Vectors(n * m) /\ Extension(f, p) = SumOf(v)
    <2>1. Extension(f, p) = Dot(f, T, n * m)
      BY <1>1, ExtensionIs
    <2> QED
      BY <1>1, <2>1 DEF Dot
  <1>5. v \in Vectors(n * m)
    <2> HIDE DEF n, m, T
    <2> QED
      BY <1>1, <1>2, <1>4, ProductsAre
  <1> HIDE DEF n, m, T, L, R
  <1>6. \A i \in 0 .. n - 1 : Block(f, m, i) \in Vectors(m)
    BY <1>1, <1>4, BlockIs
  <1>7. IsMatrix(M, n, m)
    BY <1>6 DEF IsMatrix
  <1>8. ASSUME NEW i \in 0 .. n - 1 PROVE SumOf(Block(v, m, i)) = Times(L[i], Dot(M[i], R, m))
    <2> DEFINE w == M[i]
               c == L[i]
               x == [j \in 0 .. m - 1 |-> Times(c, R[j])]
    <2>1. w \in Vectors(m) /\ w = Block(f, m, i) /\ c \in Field
      BY <1>1, <1>2, <1>6, VectorSize
    <2>2. ASSUME NEW j \in 0 .. m - 1 PROVE Block(v, m, i)[j] = Times(w[j], x[j])
      <3>1. i * m + j \in 0 .. n * m - 1
        BY <1>1, <1>4, BlockIs
      <3>2. v[i * m + j] = Times(f[i * m + j], T[i * m + j])
        BY <3>1
      <3>3. T[i * m + j] = x[j]
        BY <1>3
      <3>4. w[j] = f[i * m + j] /\ Block(v, m, i)[j] = v[i * m + j]
        BY <2>1 DEF Block
      <3> QED
        BY <3>2, <3>3, <3>4
    <2>3. Block(v, m, i) = [j \in 0 .. m - 1 |-> Times(w[j], x[j])]
      BY <2>2 DEF Block
    <2>4. \A j \in 0 .. m - 1 : x[j] = Times(c, R[j])
      OBVIOUS
    <2> HIDE DEF w, c, x, v, M
    <2>5. Dot(w, x, m) = Times(c, Dot(w, R, m))
      BY <1>1, <1>2, <2>1, <2>4, DotScales
    <2> QED
      BY <2>3, <2>5 DEF Dot, w, c
  <1>9. SumOf(v) = SumOf([i \in 0 .. n - 1 |-> SumOf(Block(v, m, i))])
    <2> HIDE DEF v
    <2> QED
      BY <1>1, <1>5, SumBlocks
  <1>10. [i \in 0 .. n - 1 |-> SumOf(Block(v, m, i))] = [i \in 0 .. n - 1 |-> Times(L[i], RowProducts(M, R, n, m)[i])]
    BY <1>8 DEF RowProducts
  <1>11. row = ColumnProducts(M, L, n, m)
    <2>1. \A i \in 0 .. n - 1 : \A j \in 0 .. m - 1 : M[i][j] = f[i * m + j]
      BY DEF Block
    <2> DEFINE x(j) == [i \in 0 .. n - 1 |-> Times(L[i], f[i * m + j])]
               y(j) == [i \in 0 .. n - 1 |-> Times(L[i], M[i][j])]
    <2>2. \A j \in 0 .. m - 1 : x(j) = y(j)
      BY <2>1
    <2>3. row = [j \in 0 .. m - 1 |-> SumOf(x(j))] /\ ColumnProducts(M, L, n, m) = [j \in 0 .. m - 1 |-> SumOf(y(j))]
      BY DEF RowsCombined, ColumnProducts
    <2> HIDE DEF x, y, M, row
    <2> QED
      BY <2>2, <2>3
  <1> HIDE DEF M, v, row
  <1>12. /\ ColumnProducts(M, L, n, m) \in Vectors(m)
         /\ Dot(ColumnProducts(M, L, n, m), R, m) = Dot(L, RowProducts(M, R, n, m), n)
    BY <1>1, <1>2, <1>7, MatrixSwaps
  <1>13. SumOf(v) = Dot(L, RowProducts(M, R, n, m), n)
    BY <1>9, <1>10 DEF Dot
  <1>14. row \in Vectors(m) /\ Extension(f, p) = Dot(row, R, m)
    BY <1>4, <1>11, <1>12, <1>13
  <1> QED
    BY <1>14, Zenon DEF row, L, R, n, m

(* One row of the fold, for the entries of the two products in that row: if *)
(* the regular one is satisfied, r times the cross term is what the fold    *)
(* adds to the error, for every r.                                          *)
RowExcess(a, b, c, u) == Minus(Times(a, b), Times(u, c))
RowFolded(a, b, c, u, r, x, y, z) ==
  RowExcess(Plus(a, Times(r, x)), Plus(b, Times(r, y)), Plus(c, Times(r, z)), Plus(u, r))
    = Plus(RowExcess(a, b, c, u),
           Times(r, Minus(RowExcess(Plus(a, x), Plus(b, y), Plus(c, z), Plus(u, 1)),
                          RowExcess(a, b, c, u))))

LEMMA RowFolds ==
  ASSUME NEW a \in Field, NEW b \in Field, NEW c \in Field, NEW u \in Field, NEW r \in Field,
         NEW x \in Field, NEW y \in Field, NEW z \in Field, RowExcess(x, y, z, 1) = 0
  PROVE  RowFolded(a, b, c, u, r, x, y, z)
  <1>0. /\ a \in Int /\ b \in Int /\ c \in Int /\ u \in Int /\ r \in Int
        /\ x \in Int /\ y \in Int /\ z \in Int /\ P \in Int
    BY FieldIsInt, PrimeSize
  <1>1. /\ Is(a, a) /\ Is(b, b) /\ Is(c, c) /\ Is(u, u) /\ Is(r, r) /\ Is(x, x) /\ Is(y, y)
        /\ Is(z, z) /\ Is(1, 1) /\ Is(0, 0)
    BY IsItself, Constants
  <1>2. ASSUME NEW f, NEW g, NEW h, NEW k, NEW p, NEW q, NEW s, NEW t,
               Is(f, p), Is(g, q), Is(h, s), Is(k, t)
        PROVE  Is(RowExcess(f, g, h, k), p * q - t * s)
    <2>1. Is(Times(f, g), p * q) /\ Is(Times(k, h), t * s)
      BY <1>2, IsOps
    <2> QED
      BY <2>1, IsOps DEF RowExcess
  <1> DEFINE E == a * b - u * c
             m == x * y - 1 * z
             all == (a + x) * (b + y) - (u + 1) * (c + z)
             sum == (a + r * x) * (b + r * y) - (u + r) * (c + r * z)
  <1>3. Is(0, m)
    BY <1>1, <1>2
  <1>4. PICK q \in Int : m = q * P
    <2>1. 0 \in Int /\ m \in Int /\ Same(0, m)
      BY <1>3 DEF Is
    <2>2. Same(m, 0)
      BY <2>1, SameIs
    <2>3. PICK q \in Int : m = 0 + q * P
      BY <2>2 DEF Same
    <2> QED
      BY <1>0, <2>3
  <1>5. Is(RowExcess(a, b, c, u), E)
    BY <1>1, <1>2
  <1>6. Is(RowExcess(Plus(a, x), Plus(b, y), Plus(c, z), Plus(u, 1)), all)
    <2>1. Is(Plus(a, x), a + x) /\ Is(Plus(b, y), b + y) /\ Is(Plus(c, z), c + z) /\ Is(Plus(u, 1), u + 1)
      BY <1>1, IsOps
    <2> QED
      BY <1>2, <2>1
  <1>7. Is(RowExcess(Plus(a, Times(r, x)), Plus(b, Times(r, y)), Plus(c, Times(r, z)), Plus(u, r)), sum)
    <2>1. Is(Times(r, x), r * x) /\ Is(Times(r, y), r * y) /\ Is(Times(r, z), r * z)
      BY <1>1, IsOps
    <2>2. /\ Is(Plus(a, Times(r, x)), a + r * x) /\ Is(Plus(b, Times(r, y)), b + r * y)
          /\ Is(Plus(c, Times(r, z)), c + r * z) /\ Is(Plus(u, r), u + r)
      BY <1>1, <2>1, IsOps
    <2> QED
      BY <1>2, <2>2
  <1>8. Same(sum, E + r * (all - E))
    <2>1. sum = E + r * (all - E) + (r * r - r) * m
      <3>1. E + r * (all - E) = E + r * (a * y + x * b - u * z - c + m)
        <4>1. all - E = a * y + x * b - u * z - c + m
          BY <1>0
        <4> QED
          BY <4>1
      <3>2. r * (a * y + x * b - u * z - c + m) + (r * r - r) * m
              = r * (a * y + x * b - u * z - c) + r * r * m
        <4> DEFINE k == a * y + x * b - u * z - c
        <4>1. k \in Int /\ m \in Int
          BY <1>0
        <4> HIDE DEF k, m
        <4>2. r * (k + m) + (r * r - r) * m = r * k + r * r * m
          BY <1>0, <4>1
        <4> QED
          BY <4>2 DEF k
      <3>3. sum = E + r * (a * y + x * b - u * z - c) + r * r * m
        BY <1>0
      <3> QED
        BY <1>0, <3>1, <3>2, <3>3
    <2>2. (r * r - r) * m = ((r * r - r) * q) * P /\ (r * r - r) * q \in Int
      BY <1>0, <1>4
    <2> HIDE DEF sum, all, E, m
    <2>3. sum = (E + r * (all - E)) + ((r * r - r) * q) * P
      BY <2>1, <2>2
    <2> QED
      BY <2>2, <2>3 DEF Same
  <1> HIDE DEF sum, all, E, m
  <1> DEFINE e == RowExcess(a, b, c, u)
             f == RowExcess(Plus(a, x), Plus(b, y), Plus(c, z), Plus(u, 1))
             g == RowExcess(Plus(a, Times(r, x)), Plus(b, Times(r, y)), Plus(c, Times(r, z)), Plus(u, r))
  <1>9. Is(e, E) /\ Is(f, all) /\ Is(g, sum)
    BY <1>5, <1>6, <1>7
  <1> HIDE DEF e, f, g
  <1>10. Is(Minus(f, e), all - E)
    BY <1>9, IsOps
  <1>11. Is(Times(r, Minus(f, e)), r * (all - E))
    BY <1>1, <1>10, IsOps
  <1>12. Is(Plus(e, Times(r, Minus(f, e))), E + r * (all - E))
    BY <1>9, <1>11, IsOps
  <1>13. g = Plus(e, Times(r, Minus(f, e)))
    BY <1>8, <1>9, <1>12, IsEqual
  <1> QED
    BY <1>13, Zenon DEF e, f, g, RowFolded

-----------------------------------------------------------------------------
(* Channels *)

(* Every query of the oracle has one answer, a field element.               *)
ChannelOK(ch) ==
  /\ ch = [t |-> ch.t, oracle |-> ch.oracle, answers |-> ch.answers]
  /\ OracleOK(ch.oracle)
  /\ TranscriptOK(ch.t, ch.oracle)
  /\ ch.answers \in Seq(Field)
  /\ Len(ch.answers) = Len(ch.oracle)

(* d knows the queries of c with their answers, and maybe more. *)
Extends(c, d) ==
  /\ ChannelOK(d)
  /\ Grown(c.oracle, d.oracle)
  /\ \A i \in 1 .. Len(c.oracle) : d.answers[i] = c.answers[i]

(* What the next challenge of a channel will depend on, and what its last   *)
(* one does.                                                                *)
SeenBy(c) == Seen(c.t, c.oracle)
Fixed(c) == AbsorbedBefore(c.oracle, c.t.state)

(* d goes on where c is. *)
Follows(c, d) ==
  /\ Extends(c, d)
  /\ SeenBy(c) \subseteq SeenBy(d)
  /\ Fixed(c) \subseteq Fixed(d)

(* The transcript of c over what e knows. *)
On(c, e) == [t |-> c.t, oracle |-> e.oracle, answers |-> e.answers]

(* A channel extends itself. *)
LEMMA ExtendsReflexive ==
  ASSUME NEW c, ChannelOK(c)
  PROVE  Extends(c, c) /\ Follows(c, c) /\ On(c, c) = c
  <1>1. OracleOK(c.oracle) /\ c = [t |-> c.t, oracle |-> c.oracle, answers |-> c.answers]
    BY DEF ChannelOK
  <1>2. Grown(c.oracle, c.oracle)
    BY <1>1, GrownReflexive
  <1>3. Extends(c, c)
    BY <1>2 DEF Extends
  <1>4. On(c, c) = c
    BY <1>1, Zenon DEF On
  <1> QED
    BY <1>3, <1>4 DEF Follows

(* What extends an extension extends. *)
LEMMA ExtendsTransitive ==
  ASSUME NEW c, NEW d, NEW e, ChannelOK(c), Extends(c, d), Extends(d, e)
  PROVE  Extends(c, e)
  <1>1. /\ OracleOK(c.oracle) /\ Grown(c.oracle, d.oracle) /\ Grown(d.oracle, e.oracle)
        /\ OracleOK(d.oracle) /\ ChannelOK(e)
        /\ \A i \in 1 .. Len(c.oracle) : d.answers[i] = c.answers[i]
        /\ \A i \in 1 .. Len(d.oracle) : e.answers[i] = d.answers[i]
    BY DEF ChannelOK, Extends
  <1>2. Grown(c.oracle, e.oracle)
    BY <1>1, GrownTransitive
  <1>3. Len(c.oracle) \in Nat /\ Len(d.oracle) \in Nat /\ Len(c.oracle) <= Len(d.oracle)
    BY <1>1, SequenceFacts DEF OracleOK, Grown
  <1>4. \A i \in 1 .. Len(c.oracle) : e.answers[i] = c.answers[i]
    BY <1>1, <1>3
  <1> QED
    BY <1>1, <1>2, <1>4 DEF Extends

LEMMA FollowsTransitive ==
  ASSUME NEW c, NEW d, NEW e, ChannelOK(c), Follows(c, d), Follows(d, e)
  PROVE  Follows(c, e)
  <1>1. Extends(c, e)
    BY ExtendsTransitive DEF Follows
  <1>2. SeenBy(c) \subseteq SeenBy(e) /\ Fixed(c) \subseteq Fixed(e)
    BY DEF Follows
  <1> QED
    BY <1>1, <1>2 DEF Follows

(* What a challenge depends on stays the same as more is asked.             *)
LEMMA OnKeeps ==
  ASSUME NEW c, NEW e, ChannelOK(c), Extends(c, e)
  PROVE  ChannelOK(On(c, e)) /\ SeenBy(On(c, e)) = SeenBy(c) /\ Fixed(On(c, e)) = Fixed(c)
  <1> DEFINE d == On(c, e)
  <1>1. d.t = c.t /\ d.oracle = e.oracle /\ d.answers = e.answers
        /\ d = [t |-> d.t, oracle |-> d.oracle, answers |-> d.answers]
    BY DEF On
  <1> HIDE DEF d
  <1>2. /\ OracleOK(c.oracle) /\ TranscriptOK(c.t, c.oracle) /\ Grown(c.oracle, e.oracle)
        /\ ChannelOK(e)
    BY DEF ChannelOK, Extends
  <1>3. TranscriptOK(c.t, e.oracle) /\ Seen(c.t, e.oracle) = Seen(c.t, c.oracle)
    BY <1>2, SeenGrown
  <1>4. AbsorbedBefore(e.oracle, c.t.state) = AbsorbedBefore(c.oracle, c.t.state)
    <2>1. c.t.state \in 0 .. Len(c.oracle)
      BY <1>2 DEF TranscriptOK
    <2> QED
      BY <1>2, <2>1, SeenGrown
  <1>5. ChannelOK(d)
    BY <1>1, <1>2, <1>3 DEF ChannelOK
  <1>6. SeenBy(d) = SeenBy(c) /\ Fixed(d) = Fixed(c)
    BY <1>1, <1>3, <1>4 DEF SeenBy, Fixed
  <1> QED
    BY <1>5, <1>6 DEF d

(* What d = Put(c, label, x) is, when entry is <<label, x>>. *)
Absorbs(c, d, entry) ==
  /\ Follows(c, d)
  /\ d.oracle = c.oracle /\ d.answers = c.answers /\ d.t.state = c.t.state
  /\ SeenBy(d) = SeenBy(c) \cup {entry}
  /\ Fixed(d) = Fixed(c)

(* A message is seen by the next challenge. *)
LEMMA PutFacts ==
  ASSUME NEW c, ChannelOK(c), NEW label, NEW x
  PROVE  /\ Absorbs(c, Put(c, label, x), <<label, x>>)
         /\ \A e : Put(On(c, e), label, x) = On(Put(c, label, x), e)
  <1> DEFINE d == Put(c, label, x)
             b == Absorb(c.t, label, x)
  <1>0. /\ c = [t |-> c.t, oracle |-> c.oracle, answers |-> c.answers]
        /\ OracleOK(c.oracle) /\ TranscriptOK(c.t, c.oracle)
    BY DEF ChannelOK
  <1>1. Bound(b, c.t, <<label, x>>, c.oracle)
    BY <1>0, AbsorbFacts
  <1>2. d = [c EXCEPT !.t = b]
    BY Zenon DEF Put, Absorb
  <1> HIDE DEF b, d
  <1>3. d = [t |-> b, oracle |-> c.oracle, answers |-> c.answers]
    BY <1>0, <1>2
  <1>4. d.t = b /\ d.oracle = c.oracle /\ d.answers = c.answers
        /\ d = [t |-> d.t, oracle |-> d.oracle, answers |-> d.answers]
    BY <1>3
  <1>5. ChannelOK(d)
    BY <1>1, <1>4 DEF ChannelOK, Bound
  <1>6. Extends(c, d)
    BY <1>0, <1>4, <1>5, GrownReflexive DEF Extends
  <1>7. b.state = c.t.state /\ Range(b.absorbed) = Range(c.t.absorbed) \cup {<<label, x>>}
    BY <1>1 DEF Bound
  <1>8. SeenBy(d) = SeenBy(c) \cup {<<label, x>>}
    BY <1>4, <1>7 DEF SeenBy, Seen
  <1>9. Fixed(d) = Fixed(c)
    BY <1>4, <1>7 DEF Fixed
  <1>10. Follows(c, d)
    BY <1>6, <1>8, <1>9 DEF Follows
  <1>11. ASSUME NEW e PROVE Put(On(c, e), label, x) = On(d, e)
    <2> DEFINE o == On(c, e)
    <2>1. o.t = c.t /\ o = [t |-> o.t, oracle |-> e.oracle, answers |-> e.answers]
      BY DEF On
    <2>2. Put(o, label, x) = [o EXCEPT !.t = Absorb(o.t, label, x)]
      BY Zenon DEF Put, Absorb
    <2> HIDE DEF o
    <2>3. Put(o, label, x) = [o EXCEPT !.t = b]
      BY <2>1, <2>2 DEF b
    <2>4. [o EXCEPT !.t = b] = [t |-> b, oracle |-> e.oracle, answers |-> e.answers]
      BY <2>1
    <2>5. On(d, e) = [t |-> b, oracle |-> e.oracle, answers |-> e.answers]
      BY <1>4, Zenon DEF On
    <2>6. Put(o, label, x) = On(d, e)
      BY <2>3, <2>4, <2>5
    <2> QED
      BY <2>6 DEF o
  <1>12. Absorbs(c, d, <<label, x>>)
    BY <1>4, <1>7, <1>8, <1>9, <1>10 DEF Absorbs
  <1> QED
    BY <1>11, <1>12 DEF d

(* What d = Ask(c, label, fresh) is: its challenge depends on all c has     *)
(* seen.                                                                    *)
Asked(c, d) ==
  /\ Follows(c, d)
  /\ Fixed(d) = SeenBy(c)
  /\ d.t.state \in 1 .. Len(d.oracle)
  /\ d.oracle[d.t.state].state = c.t.state

(* Asked again over all that is known by then, it is answered the same.     *)
LEMMA AskFacts ==
  ASSUME NEW c, ChannelOK(c), NEW label, NEW fresh \in Field
  PROVE  /\ Asked(c, Ask(c, label, fresh))
         /\ \A e, other : Extends(Ask(c, label, fresh), e) =>
              Ask(On(c, e), label, other) = On(Ask(c, label, fresh), e)
  <1> DEFINE d == Ask(c, label, fresh)
             s == Squeeze(c.t, label, c.oracle)
             q == Query(c.t, label)
  <1>0. /\ c = [t |-> c.t, oracle |-> c.oracle, answers |-> c.answers]
        /\ OracleOK(c.oracle) /\ TranscriptOK(c.t, c.oracle)
        /\ c.answers \in Seq(Field) /\ Len(c.answers) = Len(c.oracle)
    BY DEF ChannelOK
  <1>1. PICK k \in Nat : Answered(s, c.t, label, c.oracle, k)
    BY <1>0, SqueezeAnswers
  <1>2. d = [t |-> s.transcript, oracle |-> s.oracle,
             answers |-> IF Len(s.oracle) = Len(c.answers) THEN c.answers
                         ELSE Append(c.answers, fresh)]
    BY Zenon DEF Ask
  <1>3. s.oracle = c.oracle \/ s.oracle = Append(c.oracle, q)
    <2>1. s = [challenge |-> <<"challenge", Position(c.oracle, q)>>,
               transcript |-> [round |-> c.t.round + 1, state |-> Position(c.oracle, q),
                               absorbed |-> <<>>],
               oracle |-> IF Position(c.oracle, q) > Len(c.oracle)
                          THEN Append(c.oracle, q) ELSE c.oracle]
      BY Zenon DEF Squeeze
    <2> HIDE DEF s, q
    <2> QED
      BY <2>1
  <1> HIDE DEF d, s, q
  <1>4. d.t = s.transcript /\ d.oracle = s.oracle
        /\ d = [t |-> d.t, oracle |-> d.oracle, answers |-> d.answers]
        /\ d.answers = IF Len(s.oracle) = Len(c.answers) THEN c.answers
                       ELSE Append(c.answers, fresh)
    BY <1>2
  <1>5. /\ s.transcript = [round |-> c.t.round + 1, state |-> k, absorbed |-> <<>>]
        /\ s.transcript.state = k
    <2>1. s = [challenge |-> <<"challenge", k>>, oracle |-> s.oracle,
               transcript |-> [round |-> c.t.round + 1, state |-> k, absorbed |-> <<>>]]
      BY <1>1 DEF Answered
    <2>2. s.transcript = [round |-> c.t.round + 1, state |-> k, absorbed |-> <<>>]
      BY <2>1
    <2> QED
      BY <2>2
  <1>6. /\ Grown(c.oracle, s.oracle) /\ k \in 1 .. Len(s.oracle) /\ s.oracle[k] = q
        /\ TranscriptOK(s.transcript, s.oracle)
    BY <1>1 DEF Answered, q
  <1>7. OracleOK(s.oracle)
    BY <1>6 DEF Grown
  <1>8. /\ d.answers \in Seq(Field) /\ Len(d.answers) = Len(d.oracle)
        /\ \A i \in 1 .. Len(c.oracle) : d.answers[i] = c.answers[i]
    <2> DEFINE n == Len(c.oracle)
    <2>0. n \in Nat
      BY <1>0, SequenceFacts DEF OracleOK
    <2>1. CASE s.oracle = c.oracle
      <3>1. d.answers = c.answers
        BY <1>0, <1>4, <2>1
      <3> QED
        BY <1>0, <1>4, <2>1, <3>1
    <2>2. CASE s.oracle # c.oracle
      <3>1. s.oracle = Append(c.oracle, q)
        BY <1>3, <2>2
      <3>2. Len(s.oracle) = n + 1
        BY <1>0, <3>1, Appended DEF OracleOK
      <3>3. d.answers = Append(c.answers, fresh)
        BY <1>0, <1>4, <2>0, <3>2
      <3>4. /\ d.answers \in Seq(Field) /\ Len(d.answers) = n + 1
            /\ \A i \in 1 .. n : d.answers[i] = c.answers[i]
        BY <1>0, <3>3, AppendProperties
      <3> QED
        BY <1>4, <3>2, <3>4
    <2> QED
      BY <2>1, <2>2
  <1>9. ChannelOK(d)
    BY <1>4, <1>6, <1>7, <1>8 DEF ChannelOK
  <1>10. Extends(c, d)
    BY <1>4, <1>6, <1>8, <1>9 DEF Extends
  <1>11. /\ AbsorbedBefore(s.oracle, k) = Seen(c.t, c.oracle)
         /\ Seen(s.transcript, s.oracle) = Seen(c.t, c.oracle)
    BY <1>0, <1>1, AnsweredSees
  <1>12. SeenBy(d) = SeenBy(c) /\ Fixed(d) = SeenBy(c)
    BY <1>4, <1>5, <1>11 DEF SeenBy, Fixed
  <1>13. Fixed(c) \subseteq SeenBy(c)
    BY DEF Fixed, SeenBy, Seen
  <1>14. Follows(c, d)
    BY <1>10, <1>12, <1>13 DEF Follows
  <1>15. q.state = c.t.state
    BY DEF q, Query
  <1>16. Asked(c, d)
    BY <1>4, <1>5, <1>6, <1>12, <1>14, <1>15 DEF Asked
  <1>17. ASSUME NEW e, NEW other, Extends(d, e)
         PROVE  Ask(On(c, e), label, other) = On(d, e)
    <2> DEFINE o == On(c, e)
    <2>1. o.t = c.t /\ o.oracle = e.oracle /\ o.answers = e.answers
      BY DEF On
    <2> DEFINE y == Squeeze(o.t, label, o.oracle)
    <2>2. Ask(o, label, other)
            = [t |-> y.transcript, oracle |-> y.oracle,
               answers |-> IF Len(y.oracle) = Len(o.answers) THEN o.answers
                           ELSE Append(o.answers, other)]
      BY Zenon DEF Ask
    <2> HIDE DEF o
    <2>3. OracleOK(e.oracle) /\ Len(e.answers) = Len(e.oracle)
      BY <1>17 DEF Extends, ChannelOK
    <2>4. k \in 1 .. Len(e.oracle) /\ e.oracle[k] = q
      <3>1. /\ Len(d.oracle) <= Len(e.oracle)
            /\ \A j \in 1 .. Len(d.oracle) : e.oracle[j] = d.oracle[j]
        BY <1>17 DEF Extends, Grown
      <3>2. Len(d.oracle) \in Nat /\ Len(e.oracle) \in Nat
        BY <1>4, <1>7, <2>3, SequenceFacts DEF OracleOK
      <3> QED
        BY <1>4, <1>6, <3>1, <3>2
    <2>5. y = [challenge |-> <<"challenge", k>>, oracle |-> e.oracle,
               transcript |-> [round |-> c.t.round + 1, state |-> k, absorbed |-> <<>>]]
      BY <2>1, <2>3, <2>4, SqueezeAgain DEF q
    <2> HIDE DEF y
    <2>6. y.oracle = e.oracle
          /\ y.transcript = [round |-> c.t.round + 1, state |-> k, absorbed |-> <<>>]
      BY <2>5
    <2>7. y.transcript = d.t
      BY <1>4, <1>5, <2>6
    <2>8. Ask(o, label, other) = [t |-> d.t, oracle |-> e.oracle, answers |-> e.answers]
      BY <2>1, <2>2, <2>3, <2>6, <2>7
    <2>9. Ask(o, label, other) = On(d, e)
      BY <2>8, Zenon DEF On
    <2> QED
      BY <2>9 DEF o
  <1> QED
    BY <1>16, <1>17 DEF d

-----------------------------------------------------------------------------
(* Several challenges in a row *)

(* a gives the channel of AskEach after each of its challenges. *)
AskTable(a, c, label, fresh, n) ==
  a = [k \in 0 .. n |-> IF k = 0 THEN c ELSE Ask(a[k - 1], label, fresh[k])]

(* Any number of challenges can be drawn. *)
LEMMA AskTablesExist ==
  ASSUME NEW c, NEW label, NEW fresh
  PROVE  \A n \in Nat : \E a : AskTable(a, c, label, fresh, n)
  <1> DEFINE N == {n \in Nat : \E a : AskTable(a, c, label, fresh, n)}
  <1>1. 0 \in N
    <2>1. AskTable([k \in 0 .. 0 |-> c], c, label, fresh, 0)
      BY DEF AskTable
    <2> QED
      BY <2>1
  <1>2. ASSUME NEW n \in Nat, n \in N PROVE n + 1 \in N
    <2>1. PICK a : AskTable(a, c, label, fresh, n)
      BY <1>2
    <2> DEFINE h == [k \in 0 .. n + 1 |->
                       IF k = n + 1 THEN Ask(a[n], label, fresh[n + 1]) ELSE a[k]]
    <2>2. ASSUME NEW k \in 0 .. n + 1
          PROVE  h[k] = IF k = 0 THEN c ELSE Ask(h[k - 1], label, fresh[k])
      <3>1. CASE k = n + 1
        BY <3>1
      <3>2. CASE k # n + 1
        <4>1. k \in 0 .. n
          BY <3>2
        <4>2. a[k] = IF k = 0 THEN c ELSE Ask(a[k - 1], label, fresh[k])
          BY <2>1, <4>1 DEF AskTable
        <4>3. h[k] = a[k] /\ (k # 0 => h[k - 1] = a[k - 1])
          BY <4>1
        <4> QED
          BY <4>2, <4>3
      <3> QED
        BY <3>1, <3>2
    <2>3. AskTable(h, c, label, fresh, n + 1)
      BY <2>2 DEF AskTable
    <2> QED
      BY <2>3
  <1> HIDE DEF N
  <1>3. \A n \in Nat : n \in N
    BY <1>1, <1>2, NatSetInduction
  <1> QED
    BY <1>3 DEF N

LEMMA AskTablesUnfold ==
  ASSUME NEW a, NEW c, NEW label, NEW fresh, NEW n \in Nat, AskTable(a, c, label, fresh, n)
  PROVE  a[0] = c /\ \A k \in 1 .. n : a[k] = Ask(a[k - 1], label, fresh[k])
  <1>1. 0 \in 0 .. n /\ \A k \in 1 .. n : k \in 0 .. n /\ k # 0
    OBVIOUS
  <1>2. \A k \in 0 .. n : a[k] = IF k = 0 THEN c ELSE Ask(a[k - 1], label, fresh[k])
    BY Zenon DEF AskTable
  <1> QED
    BY <1>1, <1>2, Zenon

(* One round of a sum-check. *)
Round(c, sc, fresh, k) == Ask(Put(c, "p", <<sc, k>>), "c", fresh[k])

(* and that of SumCheckRounds after each round. *)
RoundTable(a, c, sc, fresh, n) ==
  a = [k \in 0 .. n |-> IF k = 0 THEN c ELSE Round(a[k - 1], sc, fresh, k)]

(* There are sum-checks of every length. *)
LEMMA RoundTablesExist ==
  ASSUME NEW c, NEW sc, NEW fresh
  PROVE  \A n \in Nat : \E a : RoundTable(a, c, sc, fresh, n)
  <1> DEFINE N == {n \in Nat : \E a : RoundTable(a, c, sc, fresh, n)}
  <1>1. 0 \in N
    <2>1. RoundTable([k \in 0 .. 0 |-> c], c, sc, fresh, 0)
      BY DEF RoundTable
    <2> QED
      BY <2>1
  <1>2. ASSUME NEW n \in Nat, n \in N PROVE n + 1 \in N
    <2>1. PICK a : RoundTable(a, c, sc, fresh, n)
      BY <1>2
    <2> DEFINE h == [k \in 0 .. n + 1 |->
                       IF k = n + 1 THEN Round(a[n], sc, fresh, n + 1) ELSE a[k]]
    <2>2. ASSUME NEW k \in 0 .. n + 1
          PROVE  h[k] = IF k = 0 THEN c ELSE Round(h[k - 1], sc, fresh, k)
      <3>1. CASE k = n + 1
        BY <3>1
      <3>2. CASE k # n + 1
        <4>1. k \in 0 .. n
          BY <3>2
        <4>2. a[k] = IF k = 0 THEN c ELSE Round(a[k - 1], sc, fresh, k)
          BY <2>1, <4>1 DEF RoundTable
        <4>3. h[k] = a[k] /\ (k # 0 => h[k - 1] = a[k - 1])
          BY <4>1
        <4> QED
          BY <4>2, <4>3
      <3> QED
        BY <3>1, <3>2
    <2>3. RoundTable(h, c, sc, fresh, n + 1)
      BY <2>2 DEF RoundTable
    <2> QED
      BY <2>3
  <1> HIDE DEF N
  <1>3. \A n \in Nat : n \in N
    BY <1>1, <1>2, NatSetInduction
  <1> QED
    BY <1>3 DEF N

LEMMA RoundTablesUnfold ==
  ASSUME NEW a, NEW c, NEW sc, NEW fresh, NEW n \in Nat, RoundTable(a, c, sc, fresh, n)
  PROVE  a[0] = c /\ \A k \in 1 .. n : a[k] = Round(a[k - 1], sc, fresh, k)
  <1>1. 0 \in 0 .. n /\ \A k \in 1 .. n : k \in 0 .. n /\ k # 0
    OBVIOUS
  <1>2. \A k \in 0 .. n : a[k] = IF k = 0 THEN c ELSE Round(a[k - 1], sc, fresh, k)
    BY Zenon DEF RoundTable
  <1> QED
    BY <1>1, <1>2, Zenon

(* and that of AbsorbAll after each commitment. *)
AbsorbTable(a, c, comms, n) ==
  a = [k \in 0 .. n |-> IF k = 0 THEN c ELSE Put(a[k - 1], comms[k].label, comms[k].comm)]

(* Any number of commitments can be absorbed. *)
LEMMA AbsorbTablesExist ==
  ASSUME NEW c, NEW comms
  PROVE  \A n \in Nat : \E a : AbsorbTable(a, c, comms, n)
  <1> DEFINE N == {n \in Nat : \E a : AbsorbTable(a, c, comms, n)}
  <1>1. 0 \in N
    <2>1. AbsorbTable([k \in 0 .. 0 |-> c], c, comms, 0)
      BY DEF AbsorbTable
    <2> QED
      BY <2>1
  <1>2. ASSUME NEW n \in Nat, n \in N PROVE n + 1 \in N
    <2>1. PICK a : AbsorbTable(a, c, comms, n)
      BY <1>2
    <2> DEFINE h == [k \in 0 .. n + 1 |->
                       IF k = n + 1 THEN Put(a[n], comms[n + 1].label, comms[n + 1].comm) ELSE a[k]]
    <2>2. ASSUME NEW k \in 0 .. n + 1
          PROVE  h[k] = IF k = 0 THEN c ELSE Put(h[k - 1], comms[k].label, comms[k].comm)
      <3>1. CASE k = n + 1
        BY <3>1
      <3>2. CASE k # n + 1
        <4>1. k \in 0 .. n
          BY <3>2
        <4>2. a[k] = IF k = 0 THEN c ELSE Put(a[k - 1], comms[k].label, comms[k].comm)
          BY <2>1, <4>1 DEF AbsorbTable
        <4>3. h[k] = a[k] /\ (k # 0 => h[k - 1] = a[k - 1])
          BY <4>1
        <4> QED
          BY <4>2, <4>3
      <3> QED
        BY <3>1, <3>2
    <2>3. AbsorbTable(h, c, comms, n + 1)
      BY <2>2 DEF AbsorbTable
    <2> QED
      BY <2>3
  <1> HIDE DEF N
  <1>3. \A n \in Nat : n \in N
    BY <1>1, <1>2, NatSetInduction
  <1> QED
    BY <1>3 DEF N

LEMMA AbsorbTablesUnfold ==
  ASSUME NEW a, NEW c, NEW comms, NEW n \in Nat, AbsorbTable(a, c, comms, n)
  PROVE  a[0] = c /\ \A k \in 1 .. n : a[k] = Put(a[k - 1], comms[k].label, comms[k].comm)
  <1>1. 0 \in 0 .. n /\ \A k \in 1 .. n : k \in 0 .. n /\ k # 0
    OBVIOUS
  <1>2. \A k \in 0 .. n : a[k] = IF k = 0 THEN c ELSE Put(a[k - 1], comms[k].label, comms[k].comm)
    BY Zenon DEF AbsorbTable
  <1> QED
    BY <1>1, <1>2, Zenon

(* p gives the positions of n queries, each of which continues from the     *)
(* answer to the one before it.                                             *)
Path(o, p, n, first, last) ==
  /\ p[0] = first /\ p[n] = last
  /\ \A k \in 1 .. n : p[k] \in 1 .. Len(o) /\ o[p[k]].state = p[k - 1]

(* d is reached from c by drawing n challenges. *)
Reaches(c, d, n) ==
  /\ Follows(c, d)
  /\ n > 0 => SeenBy(c) \subseteq Fixed(d)
  /\ \E p : Path(d.oracle, p, n, c.t.state, d.t.state)

(* One challenge more, after a message or at once.                          *)
LEMMA ReachesOneMore ==
  ASSUME NEW c, ChannelOK(c), NEW m, NEW b, NEW d, NEW n \in Nat,
         Reaches(c, m, n), Follows(m, b), b.t.state = m.t.state, Asked(b, d)
  PROVE  Reaches(c, d, n + 1)
  <1>1. /\ ChannelOK(m) /\ ChannelOK(b) /\ ChannelOK(d) /\ Follows(c, m) /\ Follows(b, d)
        /\ Fixed(d) = SeenBy(b)
        /\ d.t.state \in 1 .. Len(d.oracle) /\ d.oracle[d.t.state].state = b.t.state
    BY DEF Reaches, Follows, Extends, Asked
  <1>2. Follows(c, b)
    BY <1>1, FollowsTransitive
  <1>3. Follows(c, d)
    BY <1>1, <1>2, FollowsTransitive
  <1>4. SeenBy(c) \subseteq Fixed(d)
    BY <1>1, <1>2 DEF Follows
  <1>5. Follows(m, d)
    BY <1>1, FollowsTransitive
  <1>6. PICK p : Path(m.oracle, p, n, c.t.state, m.t.state)
    BY DEF Reaches
  <1> DEFINE h == [k \in 0 .. n + 1 |-> IF k = n + 1 THEN d.t.state ELSE p[k]]
  <1>7. /\ Len(m.oracle) \in Nat /\ Len(d.oracle) \in Nat /\ Len(m.oracle) <= Len(d.oracle)
        /\ \A j \in 1 .. Len(m.oracle) : d.oracle[j] = m.oracle[j]
    BY <1>1, <1>5, SequenceFacts DEF Follows, Extends, Grown, OracleOK, ChannelOK
  <1>8. ASSUME NEW k \in 1 .. n + 1
        PROVE  h[k] \in 1 .. Len(d.oracle) /\ d.oracle[h[k]].state = h[k - 1]
    <2>1. CASE k = n + 1
      <3>1. h[k] = d.t.state /\ h[k - 1] = p[n]
        BY <2>1
      <3> QED
        BY <1>1, <1>6, <3>1 DEF Path
    <2>2. CASE k # n + 1
      <3>1. k \in 1 .. n /\ h[k] = p[k] /\ h[k - 1] = p[k - 1]
        BY <2>2
      <3>2. p[k] \in 1 .. Len(m.oracle) /\ m.oracle[p[k]].state = p[k - 1]
        BY <1>6, <3>1 DEF Path
      <3>3. p[k] \in 1 .. Len(d.oracle) /\ d.oracle[p[k]] = m.oracle[p[k]]
        BY <1>7, <3>2
      <3> QED
        BY <3>1, <3>2, <3>3
    <2> QED
      BY <2>1, <2>2
  <1>9. h[0] = c.t.state /\ h[n + 1] = d.t.state
    BY <1>6 DEF Path
  <1> HIDE DEF h
  <1>10. Path(d.oracle, h, n + 1, c.t.state, d.t.state)
    BY <1>8, <1>9 DEF Path
  <1> QED
    BY <1>3, <1>4, <1>10 DEF Reaches

LEMMA ReachesNone ==
  ASSUME NEW c, ChannelOK(c)
  PROVE  Reaches(c, c, 0)
  <1>1. Path(c.oracle, [k \in {0} |-> c.t.state], 0, c.t.state, c.t.state)
    BY DEF Path
  <1>2. Follows(c, c)
    BY ExtendsReflexive
  <1> QED
    BY <1>1, <1>2 DEF Reaches

(* d = AskEach(c, label, fresh) for n answers, and the same challenges are   *)
(* drawn from c over all that is known later.                               *)
AskedEach(c, d, label, n) ==
  /\ Reaches(c, d, n)
  /\ \A e : \A other \in [1 .. n -> Field] :
       Extends(d, e) => AskEach(On(c, e), label, other) = On(d, e)

(* AskEach draws as many challenges as it is given answers, and does so     *)
(* again on all that is known by then.                                      *)
LEMMA AskEachFacts ==
  ASSUME NEW c, ChannelOK(c), NEW label, NEW n \in Nat, NEW fresh \in [1 .. n -> Field]
  PROVE  AskedEach(c, AskEach(c, label, fresh), label, n)
  <1>1. ASSUME NEW b, NEW f \in [1 .. n -> Field]
        PROVE  \E a : AskTable(a, b, label, f, n) /\ AskEach(b, label, f) = a[n]
    <2>1. Len(f) = n
      BY FunctionIsSequence
    <2>2. \E a : AskTable(a, b, label, f, n)
      BY AskTablesExist
    <2> DEFINE g == CHOOSE a : AskTable(a, b, label, f, Len(f))
    <2>3. AskTable(g, b, label, f, Len(f)) /\ AskEach(b, label, f) = g[Len(f)]
      BY <2>1, <2>2, Zenon DEF AskEach, AskTable
    <2> HIDE DEF g
    <2> QED
      BY <2>1, <2>3
  <1>2. PICK a : AskTable(a, c, label, fresh, n) /\ AskEach(c, label, fresh) = a[n]
    BY <1>1
  <1>3. a[0] = c /\ \A k \in 1 .. n : a[k] = Ask(a[k - 1], label, fresh[k])
    BY <1>2, AskTablesUnfold
  <1> DEFINE Again(k) == \A e, other, b : AskTable(b, On(c, e), label, other, n) /\ Extends(a[k], e)
                                           => b[k] = On(a[k], e)
             N == {k \in Nat : k <= n => Reaches(c, a[k], k) /\ Again(k)}
  <1>4. 0 \in N
    <2>1. Reaches(c, a[0], 0)
      BY <1>3, ReachesNone
    <2>2. Again(0)
      BY <1>3, AskTablesUnfold
    <2> QED
      BY <2>1, <2>2
  <1>5. ASSUME NEW k \in Nat, k \in N PROVE k + 1 \in N
    <2> SUFFICES ASSUME k + 1 <= n PROVE Reaches(c, a[k + 1], k + 1) /\ Again(k + 1)
      OBVIOUS
    <2>1. k + 1 \in 1 .. n /\ (k + 1) - 1 = k /\ k <= n
      OBVIOUS
    <2>2. Reaches(c, a[k], k) /\ Again(k)
      BY <1>5, <2>1
    <2> DEFINE m == a[k]
               d == a[k + 1]
    <2>3. d = Ask(m, label, fresh[k + 1]) /\ fresh[k + 1] \in Field
      BY <1>3, <2>1
    <2>4. ChannelOK(m)
      BY <2>2 DEF Reaches, Follows, Extends
    <2> HIDE DEF m, d, Again
    <2>5. /\ Asked(m, d)
          /\ \A e, other : Extends(d, e) => Ask(On(m, e), label, other) = On(d, e)
      BY <2>3, <2>4, AskFacts
    <2>6. Reaches(c, m, k) /\ Follows(m, m)
      BY <2>2, <2>4, ExtendsReflexive DEF m
    <2>7. Reaches(c, d, k + 1)
      BY <2>5, <2>6, ReachesOneMore
    <2>8. ASSUME NEW e, NEW other, NEW b, AskTable(b, On(c, e), label, other, n), Extends(d, e)
          PROVE  b[k + 1] = On(d, e)
      <3>1. Extends(m, e)
        <4>1. Extends(m, d)
          BY <2>5 DEF Asked, Follows
        <4> QED
          BY <2>4, <2>8, <4>1, ExtendsTransitive
      <3>2. b[k] = On(m, e)
        BY <2>2, <2>8, <3>1 DEF Again, m
      <3>3. b[k + 1] = Ask(b[k], label, other[k + 1])
        <4>1. \A i \in 1 .. n : b[i] = Ask(b[i - 1], label, other[i])
          BY <2>8, AskTablesUnfold
        <4> QED
          BY <2>1, <4>1
      <3> QED
        BY <2>5, <2>8, <3>2, <3>3
    <2>9. Again(k + 1)
      BY <2>8 DEF Again, d
    <2> QED
      BY <2>7, <2>9 DEF d
  <1> HIDE DEF N
  <1>6. \A k \in Nat : k \in N
    BY <1>4, <1>5, NatSetInduction
  <1>7. Reaches(c, a[n], n) /\ Again(n)
    BY <1>6 DEF N
  <1>8. ASSUME NEW e, NEW other \in [1 .. n -> Field], Extends(a[n], e)
        PROVE  AskEach(On(c, e), label, other) = On(a[n], e)
    <2>1. PICK b : AskTable(b, On(c, e), label, other, n)
                   /\ AskEach(On(c, e), label, other) = b[n]
      BY <1>1
    <2> QED
      BY <1>7, <1>8, <2>1
  <1> QED
    BY <1>2, <1>7, <1>8 DEF AskedEach

(* d = SumCheckRounds(c, sc, fresh) for n answers. *)
RoundsDone(c, d, sc, n) ==
  /\ Reaches(c, d, n)
  /\ \A e : \A other \in [1 .. n -> Field] :
       Extends(d, e) => SumCheckRounds(On(c, e), sc, other) = On(d, e)

(* So does SumCheckRounds.                                                          *)
LEMMA RoundsFacts ==
  ASSUME NEW c, ChannelOK(c), NEW sc, NEW n \in Nat, NEW fresh \in [1 .. n -> Field]
  PROVE  RoundsDone(c, SumCheckRounds(c, sc, fresh), sc, n)
  <1>1. ASSUME NEW b, NEW f \in [1 .. n -> Field]
        PROVE  \E a : RoundTable(a, b, sc, f, n) /\ SumCheckRounds(b, sc, f) = a[n]
    <2>1. Len(f) = n
      BY FunctionIsSequence
    <2>2. \E a : RoundTable(a, b, sc, f, n)
      BY RoundTablesExist
    <2> DEFINE g == CHOOSE a : RoundTable(a, b, sc, f, Len(f))
    <2>3. RoundTable(g, b, sc, f, Len(f)) /\ SumCheckRounds(b, sc, f) = g[Len(f)]
      BY <2>1, <2>2, Zenon DEF SumCheckRounds, RoundTable, Round
    <2> HIDE DEF g
    <2> QED
      BY <2>1, <2>3
  <1>2. PICK a : RoundTable(a, c, sc, fresh, n) /\ SumCheckRounds(c, sc, fresh) = a[n]
    BY <1>1
  <1>3. a[0] = c /\ \A k \in 1 .. n : a[k] = Round(a[k - 1], sc, fresh, k)
    BY <1>2, RoundTablesUnfold
  <1> DEFINE Again(k) == \A e, other, b : RoundTable(b, On(c, e), sc, other, n) /\ Extends(a[k], e)
                                           => b[k] = On(a[k], e)
             N == {k \in Nat : k <= n => Reaches(c, a[k], k) /\ Again(k)}
  <1>4. 0 \in N
    <2>1. Reaches(c, a[0], 0)
      BY <1>3, ReachesNone
    <2>2. Again(0)
      BY <1>3, RoundTablesUnfold
    <2> QED
      BY <2>1, <2>2
  <1>5. ASSUME NEW k \in Nat, k \in N PROVE k + 1 \in N
    <2> SUFFICES ASSUME k + 1 <= n PROVE Reaches(c, a[k + 1], k + 1) /\ Again(k + 1)
      OBVIOUS
    <2>1. k + 1 \in 1 .. n /\ (k + 1) - 1 = k /\ k <= n
      OBVIOUS
    <2>2. Reaches(c, a[k], k) /\ Again(k)
      BY <1>5, <2>1
    <2> DEFINE m == a[k]
               d == a[k + 1]
    <2>3. d = Round(m, sc, fresh, k + 1) /\ fresh[k + 1] \in Field
      BY <1>3, <2>1
    <2>4. ChannelOK(m)
      BY <2>2 DEF Reaches, Follows, Extends
    <2> HIDE DEF m, d, Again
    <2> DEFINE w == Put(m, "p", <<sc, k + 1>>)
    <2>5. /\ Absorbs(m, w, <<"p", <<sc, k + 1>>>>)
           /\ \A e : Put(On(m, e), "p", <<sc, k + 1>>) = On(w, e)
      BY <2>4, PutFacts
    <2>6. d = Ask(w, "c", fresh[k + 1])
      BY <2>3 DEF Round
    <2> HIDE DEF w
    <2>7. ChannelOK(w) /\ Follows(m, w) /\ w.t.state = m.t.state
      BY <2>5 DEF Absorbs, Follows, Extends
    <2>8. /\ Asked(w, d)
           /\ \A e, other : Extends(d, e) => Ask(On(w, e), "c", other) = On(d, e)
      BY <2>3, <2>6, <2>7, AskFacts
    <2>9. \A e, other : Extends(d, e) => Round(On(m, e), sc, other, k + 1) = On(d, e)
      BY <2>5, <2>8 DEF Round
    <2>10. Reaches(c, m, k)
      BY <2>2 DEF m
    <2>11. Reaches(c, d, k + 1)
      BY <2>10, <2>7, <2>8, ReachesOneMore
    <2>12. ASSUME NEW e, NEW other, NEW b, RoundTable(b, On(c, e), sc, other, n), Extends(d, e)
          PROVE  b[k + 1] = On(d, e)
      <3>1. Extends(m, e)
        <4>1. Extends(m, d)
          <5>1. Extends(w, d) /\ Extends(m, w)
            BY <2>7, <2>8 DEF Asked, Follows
          <5> QED
            BY <2>4, <5>1, ExtendsTransitive
        <4> QED
          BY <2>4, <2>12, <4>1, ExtendsTransitive
      <3>2. b[k] = On(m, e)
        BY <2>2, <2>12, <3>1 DEF Again, m
      <3>3. b[k + 1] = Round(b[k], sc, other, k + 1)
        <4>1. \A i \in 1 .. n : b[i] = Round(b[i - 1], sc, other, i)
          BY <2>12, RoundTablesUnfold
        <4> QED
          BY <2>1, <4>1
      <3> QED
        BY <2>9, <2>12, <3>2, <3>3
    <2>13. Again(k + 1)
      BY <2>12 DEF Again, d
    <2> QED
      BY <2>11, <2>13 DEF d
  <1> HIDE DEF N
  <1>6. \A k \in Nat : k \in N
    BY <1>4, <1>5, NatSetInduction
  <1>7. Reaches(c, a[n], n) /\ Again(n)
    BY <1>6 DEF N
  <1>8. ASSUME NEW e, NEW other \in [1 .. n -> Field], Extends(a[n], e)
        PROVE  SumCheckRounds(On(c, e), sc, other) = On(a[n], e)
    <2>1. PICK b : RoundTable(b, On(c, e), sc, other, n)
                   /\ SumCheckRounds(On(c, e), sc, other) = b[n]
      BY <1>1
    <2> QED
      BY <1>7, <1>8, <2>1
  <1> QED
    BY <1>2, <1>7, <1>8 DEF RoundsDone

(* The last n answers of a channel are those of the queries on its path.    *)
Along(d, n, p) == Latest(d, n) = [i \in 1 .. n |-> d.answers[p[i]]]

LEMMA LatestIs ==
  ASSUME NEW d, ChannelOK(d), NEW n \in Nat, NEW p, NEW first,
         Path(d.oracle, p, n, first, d.t.state)
  PROVE  Along(d, n, p) /\ Latest(d, n) \in [1 .. n -> Field]
  <1> DEFINE Places(f) == f = [i \in 0 .. n |-> IF i = 0 THEN d.t.state
                                                 ELSE d.oracle[f[i - 1]].state]
             h == [i \in 0 .. n |-> p[n - i]]
             g == CHOOSE f : Places(f)
  <1>1. \A k \in 1 .. n : p[k] \in 1 .. Len(d.oracle) /\ d.oracle[p[k]].state = p[k - 1]
    BY DEF Path
  <1>2. p[n] = d.t.state
    BY DEF Path
  <1>3. ASSUME NEW i \in 0 .. n
        PROVE  h[i] = IF i = 0 THEN d.t.state ELSE d.oracle[h[i - 1]].state
    <2>1. CASE i = 0
      BY <1>2, <2>1
    <2>2. CASE i # 0
      <3>1. i - 1 \in 0 .. n /\ n - (i - 1) \in 1 .. n /\ (n - (i - 1)) - 1 = n - i
        BY <2>2
      <3>2. h[i] = p[n - i] /\ h[i - 1] = p[n - (i - 1)]
        BY <3>1
      <3>3. d.oracle[p[n - (i - 1)]].state = p[(n - (i - 1)) - 1]
        BY <1>1, <3>1
      <3> QED
        BY <2>2, <3>1, <3>2, <3>3
    <2> QED
      BY <2>1, <2>2
  <1>4. Places(h)
    <2> DEFINE w == [i \in 0 .. n |-> IF i = 0 THEN d.t.state ELSE d.oracle[h[i - 1]].state]
    <2>1. h = w
      BY <1>3
    <2> QED
      BY <2>1
  <1>5. Places(g)
    BY <1>4, Zenon
  <1>6. Latest(d, n) = [i \in 1 .. n |-> d.answers[g[n - i]]]
    BY Zenon DEF Latest
  <1> HIDE DEF g, h
  <1>7. \A i \in 0 .. n : g[i] = IF i = 0 THEN d.t.state ELSE d.oracle[g[i - 1]].state
    BY <1>5, Zenon
  <1> DEFINE N == {i \in Nat : i <= n => g[i] = h[i]}
  <1>8. 0 \in N
    BY <1>3, <1>7
  <1>9. ASSUME NEW i \in Nat, i \in N PROVE i + 1 \in N
    <2>1. i + 1 <= n => i + 1 \in 0 .. n /\ i + 1 # 0 /\ (i + 1) - 1 = i
      OBVIOUS
    <2> QED
      BY <1>3, <1>7, <1>9, <2>1
  <1> HIDE DEF N
  <1>10. \A i \in Nat : i \in N
    BY <1>8, <1>9, NatSetInduction
  <1>11. ASSUME NEW i \in 1 .. n PROVE g[n - i] = p[i]
    <2>1. n - i \in Nat /\ n - i <= n /\ n - i \in 0 .. n /\ n - (n - i) = i
      OBVIOUS
    <2>2. g[n - i] = h[n - i]
      BY <1>10, <2>1 DEF N
    <2> QED
      BY <2>1, <2>2 DEF h
  <1>12. Latest(d, n) = [i \in 1 .. n |-> d.answers[p[i]]]
    BY <1>6, <1>11
  <1>13. \A k \in 1 .. n : d.answers[p[k]] \in Field
    <2>1. d.answers \in Seq(Field) /\ Len(d.answers) = Len(d.oracle)
      BY DEF ChannelOK
    <2> QED
      BY <1>1, <2>1, ElementOfSeq
  <1> QED
    BY <1>12, <1>13 DEF Along

(* They are field elements, and the same when more is known. *)
LatestKept(d, n) ==
  /\ Latest(d, n) \in [1 .. n -> Field]
  /\ \A e : Extends(d, e) => Latest(On(d, e), n) = Latest(d, n)

LEMMA LatestFacts ==
  ASSUME NEW c, NEW d, ChannelOK(c), NEW n \in Nat, Reaches(c, d, n)
  PROVE  LatestKept(d, n)
  <1>1. PICK p : Path(d.oracle, p, n, c.t.state, d.t.state)
    BY DEF Reaches
  <1>2. ChannelOK(d)
    BY DEF Reaches, Follows, Extends
  <1>3. Latest(d, n) = [i \in 1 .. n |-> d.answers[p[i]]] /\ Latest(d, n) \in [1 .. n -> Field]
    BY <1>1, <1>2, LatestIs DEF Along
  <1>4. ASSUME NEW e, Extends(d, e) PROVE Latest(On(d, e), n) = Latest(d, n)
    <2> DEFINE o == On(d, e)
    <2>1. o.t = d.t /\ o.oracle = e.oracle /\ o.answers = e.answers
      BY DEF On
    <2>2. ChannelOK(o)
      BY <1>2, <1>4, OnKeeps
    <2> HIDE DEF o
    <2>3. /\ Len(d.oracle) \in Nat /\ Len(e.oracle) \in Nat /\ Len(d.oracle) <= Len(e.oracle)
          /\ \A j \in 1 .. Len(d.oracle) : e.oracle[j] = d.oracle[j] /\ e.answers[j] = d.answers[j]
      BY <1>2, <1>4, SequenceFacts DEF Extends, Grown, OracleOK, ChannelOK
    <2>4. \A k \in 1 .. n : p[k] \in 1 .. Len(d.oracle) /\ d.oracle[p[k]].state = p[k - 1]
      BY <1>1 DEF Path
    <2>5. \A k \in 1 .. n : /\ p[k] \in 1 .. Len(e.oracle) /\ e.oracle[p[k]].state = p[k - 1]
                            /\ e.answers[p[k]] = d.answers[p[k]]
      <3> SUFFICES ASSUME NEW k \in 1 .. n
                   PROVE  /\ p[k] \in 1 .. Len(e.oracle) /\ e.oracle[p[k]].state = p[k - 1]
                          /\ e.answers[p[k]] = d.answers[p[k]]
        OBVIOUS
      <3>1. p[k] \in 1 .. Len(d.oracle) /\ d.oracle[p[k]].state = p[k - 1]
        BY <2>4
      <3>2. e.oracle[p[k]] = d.oracle[p[k]] /\ e.answers[p[k]] = d.answers[p[k]]
        BY <2>3, <3>1
      <3>3. p[k] \in 1 .. Len(e.oracle)
        BY <2>3, <3>1
      <3> QED
        BY <3>1, <3>2, <3>3
    <2>6. Path(o.oracle, p, n, c.t.state, o.t.state)
      BY <1>1, <2>1, <2>5 DEF Path
    <2>7. Latest(o, n) = [i \in 1 .. n |-> o.answers[p[i]]]
      <3>1. Along(o, n, p)
        BY <2>2, <2>6, LatestIs
      <3> QED
        BY <3>1, Zenon DEF Along
    <2>8. [i \in 1 .. n |-> o.answers[p[i]]] = [i \in 1 .. n |-> d.answers[p[i]]]
      BY <2>1, <2>5
    <2>9. Latest(o, n) = Latest(d, n)
      BY <1>3, <2>7, <2>8
    <2> QED
      BY <2>9 DEF o
  <1> QED
    BY <1>3, <1>4 DEF LatestKept

(* So is the last one after a question. *)
LEMMA LastFacts ==
  ASSUME NEW c, NEW d, ChannelOK(c), Asked(c, d)
  PROVE  LastAnswer(d) \in Field /\ \A e : Extends(d, e) => LastAnswer(On(d, e)) = LastAnswer(d)
  <1>1. Reaches(c, c, 0) /\ Follows(c, c)
    BY ReachesNone, ExtendsReflexive
  <1>2. 0 \in Nat /\ 1 \in Nat /\ 0 + 1 = 1
    OBVIOUS
  <1>3. Reaches(c, d, 1)
    <2>1. \A n \in Nat : Reaches(c, c, n) => Reaches(c, d, n + 1)
      BY <1>1, ReachesOneMore
    <2> QED
      BY <1>1, <1>2, <2>1
  <1>4. LatestKept(d, 1)
    BY <1>2, <1>3, LatestFacts
  <1>5. Latest(d, 1)[1] \in Field /\ \A e : Extends(d, e) => Latest(On(d, e), 1)[1] = Latest(d, 1)[1]
    <2>1. 1 \in 1 .. 1
      OBVIOUS
    <2> QED
      BY <1>4, <2>1 DEF LatestKept
  <1> QED
    BY <1>5, Zenon DEF LastAnswer

(* AbsorbAll puts every commitment. *)
Fills(c, d, comms) ==
  /\ Follows(c, d)
  /\ \A i \in 1 .. Len(comms) : <<comms[i].label, comms[i].comm>> \in SeenBy(d)

LEMMA AbsorbAllFacts ==
  ASSUME NEW c, ChannelOK(c), NEW comms, IsSequence(comms)
  PROVE  /\ Fills(c, AbsorbAll(c, comms), comms)
         /\ \A e : AbsorbAll(On(c, e), comms) = On(AbsorbAll(c, comms), e)
  <1> DEFINE n == Len(comms)
  <1>0. n \in Nat
    BY SequenceFacts
  <1> HIDE DEF n
  <1>1. ASSUME NEW b
        PROVE  \E a : AbsorbTable(a, b, comms, n) /\ AbsorbAll(b, comms) = a[n]
    <2>1. \E a : AbsorbTable(a, b, comms, n)
      BY <1>0, AbsorbTablesExist
    <2> DEFINE g == CHOOSE a : AbsorbTable(a, b, comms, n)
    <2>2. AbsorbTable(g, b, comms, n) /\ AbsorbAll(b, comms) = g[n]
      BY <2>1, Zenon DEF AbsorbAll, AbsorbTable, n
    <2> QED
      BY <2>2, Zenon
  <1>2. PICK a : AbsorbTable(a, c, comms, n) /\ AbsorbAll(c, comms) = a[n]
    BY <1>1
  <1> DEFINE entry(i) == <<comms[i].label, comms[i].comm>>
  <1>3. a[0] = c /\ \A k \in 1 .. n : a[k] = Put(a[k - 1], comms[k].label, comms[k].comm)
    BY <1>0, <1>2, AbsorbTablesUnfold
  <1> DEFINE Again(k) == \A e, b : AbsorbTable(b, On(c, e), comms, n) => b[k] = On(a[k], e)
             Filled(k) == Follows(c, a[k]) /\ \A i \in 1 .. k : entry(i) \in SeenBy(a[k])
             N == {k \in Nat : k <= n => Filled(k) /\ Again(k)}
  <1>4. 0 \in N
    <2>1. Filled(0)
      BY <1>3, ExtendsReflexive
    <2>2. Again(0)
      BY <1>0, <1>3, AbsorbTablesUnfold
    <2> QED
      BY <2>1, <2>2
  <1>5. ASSUME NEW k \in Nat, k \in N PROVE k + 1 \in N
    <2> SUFFICES ASSUME k + 1 <= n PROVE Filled(k + 1) /\ Again(k + 1)
      OBVIOUS
    <2>1. k + 1 \in 1 .. n /\ (k + 1) - 1 = k /\ k <= n
      BY <1>0
    <2>2. Filled(k) /\ Again(k)
      BY <1>5, <2>1
    <2> DEFINE m == a[k]
               d == a[k + 1]
    <2>3. d = Put(m, comms[k + 1].label, comms[k + 1].comm)
      BY <1>3, <2>1
    <2>4. ChannelOK(m) /\ Follows(c, m) /\ \A i \in 1 .. k : entry(i) \in SeenBy(m)
      BY <2>2 DEF Follows, Extends
    <2> HIDE DEF m, d, Again
    <2>5. /\ Absorbs(m, d, entry(k + 1))
          /\ \A e : Put(On(m, e), comms[k + 1].label, comms[k + 1].comm) = On(d, e)
      BY <2>3, <2>4, PutFacts
    <2> HIDE DEF entry
    <2>6. Follows(c, d)
      BY <2>4, <2>5, FollowsTransitive DEF Absorbs
    <2>7. \A i \in 1 .. k + 1 : entry(i) \in SeenBy(d)
      <3>1. \A i \in 1 .. k + 1 : i = k + 1 \/ i \in 1 .. k
        OBVIOUS
      <3> QED
        BY <2>4, <2>5, <3>1 DEF Absorbs
    <2>8. Filled(k + 1)
      BY <2>6, <2>7 DEF d
    <2>9. ASSUME NEW e, NEW b, AbsorbTable(b, On(c, e), comms, n) PROVE b[k + 1] = On(d, e)
      <3>1. b[k] = On(m, e)
        BY <2>2, <2>9 DEF Again, m
      <3>2. b[k + 1] = Put(b[k], comms[k + 1].label, comms[k + 1].comm)
        <4>1. \A i \in 1 .. n : b[i] = Put(b[i - 1], comms[i].label, comms[i].comm)
          BY <1>0, <2>9, AbsorbTablesUnfold
        <4> QED
          BY <2>1, <4>1
      <3> QED
        BY <2>5, <3>1, <3>2
    <2>10. Again(k + 1)
      BY <2>9 DEF Again, d
    <2> QED
      BY <2>8, <2>10
  <1> HIDE DEF N
  <1>6. \A k \in Nat : k \in N
    BY <1>4, <1>5, NatSetInduction
  <1>7. Filled(n) /\ Again(n)
    BY <1>0, <1>6 DEF N
  <1>8. ASSUME NEW e PROVE AbsorbAll(On(c, e), comms) = On(a[n], e)
    <2>1. PICK b : AbsorbTable(b, On(c, e), comms, n) /\ AbsorbAll(On(c, e), comms) = b[n]
      BY <1>1
    <2> QED
      BY <1>7, <2>1
  <1>9. Fills(c, a[n], comms)
    BY <1>7 DEF Fills, n
  <1> QED
    BY <1>2, <1>8, <1>9

(* d is reached from c by questions of which the last one, whose challenge  *)
(* depends on all c has seen and on entries, is the last step.              *)
AsksFor(c, d, entries) ==
  /\ Follows(c, d)
  /\ SeenBy(c) \cup entries \subseteq Fixed(d)
  /\ LastAnswer(d) \in Field
  /\ \A e : Extends(d, e) => LastAnswer(On(d, e)) = LastAnswer(d)

LEMMA AsksAfter ==
  ASSUME NEW c, ChannelOK(c), NEW b, Follows(c, b), NEW d, Asked(b, d),
         NEW entries, entries \subseteq SeenBy(b)
  PROVE  AsksFor(c, d, entries)
  <1>1. ChannelOK(b) /\ Follows(b, d) /\ Fixed(d) = SeenBy(b)
    BY DEF Follows, Extends, Asked
  <1>2. Follows(c, d)
    BY <1>1, FollowsTransitive
  <1>3. SeenBy(c) \subseteq SeenBy(b)
    BY DEF Follows
  <1>4. LastAnswer(d) \in Field /\ \A e : Extends(d, e) => LastAnswer(On(d, e)) = LastAnswer(d)
    BY <1>1, LastFacts
  <1> QED
    BY <1>1, <1>2, <1>3, <1>4 DEF AsksFor

(* Two messages in a row. *)

PutsTwo(c, d, l, x, m, y) ==
  /\ Follows(c, d) /\ ChannelOK(d)
  /\ {<<l, x>>, <<m, y>>} \subseteq SeenBy(d)
  /\ \A e : Put(Put(On(c, e), l, x), m, y) = On(d, e)
  /\ d.oracle = c.oracle /\ Fixed(d) = Fixed(c)

LEMMA PutTwoFacts ==
  ASSUME NEW c, ChannelOK(c), NEW l, NEW x, NEW m, NEW y
  PROVE  PutsTwo(c, Put(Put(c, l, x), m, y), l, x, m, y)
  <1> DEFINE a == Put(c, l, x)
             b == Put(a, m, y)
  <1>1. /\ Absorbs(c, a, <<l, x>>)
        /\ \A e : Put(On(c, e), l, x) = On(a, e)
    BY PutFacts
  <1> HIDE DEF a
  <1>2. ChannelOK(a) /\ Follows(c, a) /\ <<l, x>> \in SeenBy(a) /\ a.oracle = c.oracle
        /\ Fixed(a) = Fixed(c)
    BY <1>1 DEF Absorbs, Follows, Extends
  <1>3. /\ Absorbs(a, b, <<m, y>>)
        /\ \A e : Put(On(a, e), m, y) = On(b, e)
    BY <1>2, PutFacts
  <1> HIDE DEF b
  <1>4. ChannelOK(b) /\ Follows(a, b) /\ SeenBy(b) = SeenBy(a) \cup {<<m, y>>} /\ b.oracle = a.oracle
        /\ Fixed(b) = Fixed(a)
    BY <1>3 DEF Absorbs, Follows, Extends
  <1>5. Follows(c, b)
    BY <1>2, <1>4, FollowsTransitive
  <1>6. \A e : Put(Put(On(c, e), l, x), m, y) = On(b, e)
    BY <1>1, <1>3
  <1>7. {<<l, x>>, <<m, y>>} \subseteq SeenBy(b)
    BY <1>2, <1>4
  <1>8. b.oracle = c.oracle /\ Fixed(b) = Fixed(c)
    BY <1>2, <1>4
  <1> QED
    BY <1>4, <1>5, <1>6, <1>7, <1>8, Zenon DEF PutsTwo, b, a

(* A new transcript on any oracle. *)
LEMMA NewChannelOK ==
  ASSUME NEW o, OracleOK(o), NEW answers \in Seq(Field), Len(answers) = Len(o)
  PROVE  ChannelOK(NewChannel(o, answers))
  <1> DEFINE t == NewTranscript
             c == NewChannel(o, answers)
  <1>1. t = [round |-> 0, state |-> 0, absorbed |-> <<>>]
    BY Zenon DEF NewTranscript
  <1>2. c = [t |-> t, oracle |-> o, answers |-> answers]
    BY Zenon DEF NewChannel
  <1> HIDE DEF t, c
  <1>3. Len(o) \in Nat
    BY SequenceFacts DEF OracleOK
  <1>4. t.state = 0 /\ t.absorbed = <<>> /\ t.round = 0
    BY <1>1
  <1>5. TranscriptOK(t, o)
    BY <1>1, <1>3, <1>4, EmptyIsSequence DEF TranscriptOK
  <1>6. c.t = t /\ c.oracle = o /\ c.answers = answers
    BY <1>2
  <1>7. ChannelOK(c)
    BY <1>2, <1>5, <1>6 DEF ChannelOK
  <1> QED
    BY <1>7 DEF c

(* A new transcript without an oracle. *)
LEMMA StartOK == ChannelOK(NewChannel(<<>>, <<>>))
  <1>1. OracleOK(<<>>) /\ <<>> \in Seq(Field) /\ Len(<<>>) = Len(<<>>)
    BY EmptyIsSequence DEF OracleOK
  <1> QED
    BY <1>1, NewChannelOK

-----------------------------------------------------------------------------
(* Vectors: folded, joined, padded and evaluated                            *)

(* The sum of the j-th entries of k vectors with their weights. *)
SumWeighted(weights, vectors, k, j) == SumOf([i \in 0 .. k - 1 |-> Times(weights[i + 1], vectors[i + 1][j])])

(* A vector for each of k weights. *)
Weighed(weights, vectors, k, n) ==
  /\ \A i \in 1 .. k : weights[i] \in Field
  /\ vectors \in [1 .. k -> Vectors(n)]

LEMMA WeightedSumInField ==
  ASSUME NEW k \in Nat, NEW n \in Nat, NEW weights, NEW vectors, Weighed(weights, vectors, k, n),
         NEW j \in 0 .. n - 1
  PROVE  SumWeighted(weights, vectors, k, j) \in Field
  <1> DEFINE v == [i \in 0 .. k - 1 |-> Times(weights[i + 1], vectors[i + 1][j])]
  <1>1. ASSUME NEW i \in 0 .. k - 1 PROVE Times(weights[i + 1], vectors[i + 1][j]) \in Field
    <2>1. i + 1 \in 1 .. k
      OBVIOUS
    <2>2. weights[i + 1] \in Field /\ vectors[i + 1] \in Vectors(n)
      BY <2>1 DEF Weighed
    <2>3. vectors[i + 1][j] \in Field
      BY <2>2 DEF Vectors
    <2> QED
      BY <2>2, <2>3, FieldClosed
  <1>2. v \in Vectors(k)
    BY <1>1 DEF Vectors
  <1> HIDE DEF v
  <1>3. SumOf(v) \in Field
    BY <1>2, SumInField
  <1> QED
    BY <1>3 DEF v, SumWeighted

(* What fold_vectors and fold_blinds return. *)
LEMMA FoldVectorsIs ==
  ASSUME NEW k \in Nat \ {0}, NEW n \in Nat, NEW weights, NEW vectors, Weighed(weights, vectors, k, n)
  PROVE  /\ fold_vectors(vectors, weights) = [j \in 0 .. n - 1 |-> SumWeighted(weights, vectors, k, j)]
         /\ fold_vectors(vectors, weights) \in Vectors(n)
  <1>1. vectors \in [1 .. k -> Vectors(n)]
    BY DEF Weighed
  <1>2. Len(vectors) = k
    BY <1>1, FunctionIsSequence
  <1>3. DOMAIN vectors[1] = 0 .. n - 1
    <2>1. vectors[1] \in Vectors(n)
      BY <1>1
    <2> QED
      BY <2>1, VectorSize
  <1>4. fold_vectors(vectors, weights) = [j \in 0 .. n - 1 |-> SumWeighted(weights, vectors, k, j)]
    BY <1>2, <1>3, Zenon DEF fold_vectors, SumWeighted
  <1>5. \A j \in 0 .. n - 1 : SumWeighted(weights, vectors, k, j) \in Field
    BY WeightedSumInField
  <1> QED
    BY <1>4, <1>5 DEF Vectors

(* An entry beyond the end, and one that is zero in all vectors. *)
LEMMA WeightedZeros ==
  ASSUME NEW k \in Nat, NEW weights, \A i \in 1 .. k : weights[i] \in Field,
         NEW v, v = [i \in 0 .. k - 1 |-> Times(weights[i + 1], 0)]
  PROVE  SumOf(v) = 0
  <1>1. \A i \in 0 .. k - 1 : Times(weights[i + 1], 0) = 0
    <2>1. \A i \in 0 .. k - 1 : i + 1 \in 1 .. k
      OBVIOUS
    <2>2. \A i \in 0 .. k - 1 : weights[i + 1] \in Field
      BY <2>1
    <2> QED
      BY <2>2, Constants, FieldLaws
  <1>2. v = [i \in 0 .. k - 1 |-> 0]
    BY <1>1
  <1> QED
    BY <1>2, SumOfZeros

(* Folding what is before the zeros and padding the fold is folding it all. *)
LEMMA PaddedFold ==
  ASSUME NEW k \in Nat \ {0}, NEW n \in Nat, NEW weights, NEW vectors, Weighed(weights, vectors, k, n),
         NEW len \in Nat, \A i \in 1 .. k : \A j \in len .. n - 1 : vectors[i][j] = 0
  PROVE  Padded(fold_vectors([i \in 1 .. k |-> Padded(vectors[i], len)], weights), n)
           = fold_vectors(vectors, weights)
  <1> DEFINE P_ == [i \in 1 .. k |-> Padded(vectors[i], len)]
             F == fold_vectors(vectors, weights)
             G == fold_vectors(P_, weights)
  <1>1. ASSUME NEW i \in 1 .. k
        PROVE  /\ DOMAIN vectors[i] = 0 .. n - 1 /\ Size(vectors[i]) = n
               /\ \A j \in 0 .. n - 1 : vectors[i][j] \in Field
    <2>1. vectors[i] \in Vectors(n)
      BY DEF Weighed
    <2> QED
      BY <2>1, VectorSize
  <1>2. ASSUME NEW i \in 1 .. k
        PROVE  /\ P_[i] = [j \in 0 .. len - 1 |-> At(vectors[i], j)]
               /\ P_[i] \in Vectors(len)
    <2>1. P_[i] = [j \in 0 .. len - 1 |-> At(vectors[i], j)]
      BY Zenon DEF Padded
    <2>2. ASSUME NEW j \in 0 .. len - 1 PROVE At(vectors[i], j) \in Field
      <3>1. CASE j < n
        <4>1. j \in 0 .. n - 1
          BY <3>1
        <4>2. At(vectors[i], j) = vectors[i][j]
          BY <1>1, <3>1 DEF At
        <4> QED
          BY <1>1, <4>1, <4>2
      <3>2. CASE ~(j < n)
        <4>1. At(vectors[i], j) = 0
          BY <1>1, <3>2 DEF At
        <4> QED
          BY <4>1, Constants
      <3> QED
        BY <3>1, <3>2
    <2> QED
      BY <2>1, <2>2 DEF Vectors
  <1>3. \A i \in 1 .. k : weights[i] \in Field
    BY DEF Weighed
  <1>4. Weighed(weights, P_, k, len)
    <2>1. P_ = [i \in 1 .. k |-> P_[i]] /\ \A i \in 1 .. k : P_[i] \in Vectors(len)
      BY <1>2
    <2> HIDE DEF P_
    <2>2. P_ \in [1 .. k -> Vectors(len)]
      BY <2>1
    <2> QED
      BY <1>3, <2>2 DEF Weighed
  <1> HIDE DEF P_
  <1>5. F = [j \in 0 .. n - 1 |-> SumWeighted(weights, vectors, k, j)] /\ F \in Vectors(n)
    BY FoldVectorsIs
  <1>6. G = [j \in 0 .. len - 1 |-> SumWeighted(weights, P_, k, j)] /\ G \in Vectors(len)
    BY <1>4, FoldVectorsIs
  <1> HIDE DEF F, G
  <1>7. Size(G) = len
    BY <1>6, VectorSize
  <1>8. ASSUME NEW j \in 0 .. n - 1 PROVE At(G, j) = F[j]
    <2>0. \A i \in 0 .. k - 1 : i + 1 \in 1 .. k
      OBVIOUS
    <2>1. CASE j < len
      <3>1. j \in 0 .. len - 1
        BY <2>1
      <3>2. At(G, j) = SumWeighted(weights, P_, k, j)
        BY <1>6, <1>7, <2>1, <3>1 DEF At
      <3>3. ASSUME NEW i \in 1 .. k PROVE P_[i][j] = vectors[i][j]
        <4>1. P_[i][j] = At(vectors[i], j)
          BY <1>2, <3>1
        <4>2. At(vectors[i], j) = vectors[i][j]
          BY <1>1 DEF At
        <4> QED
          BY <4>1, <4>2
      <3>4. [i \in 0 .. k - 1 |-> Times(weights[i + 1], P_[i + 1][j])]
              = [i \in 0 .. k - 1 |-> Times(weights[i + 1], vectors[i + 1][j])]
        BY <2>0, <3>3
      <3>5. SumWeighted(weights, P_, k, j) = SumWeighted(weights, vectors, k, j)
        BY <3>4, Zenon DEF SumWeighted
      <3> QED
        BY <1>5, <3>2, <3>5
    <2>2. CASE ~(j < len)
      <3>1. At(G, j) = 0 /\ j \in len .. n - 1
        BY <1>7, <2>2 DEF At
      <3>2. \A i \in 0 .. k - 1 : vectors[i + 1][j] = 0
        BY <2>0, <3>1
      <3>3. [i \in 0 .. k - 1 |-> Times(weights[i + 1], vectors[i + 1][j])]
              = [i \in 0 .. k - 1 |-> Times(weights[i + 1], 0)]
        BY <3>2
      <3>4. SumWeighted(weights, vectors, k, j) = 0
        BY <1>3, <3>3, WeightedZeros DEF SumWeighted
      <3> QED
        BY <1>5, <3>1, <3>4
    <2> QED
      BY <2>1, <2>2
  <1>9. Padded(G, n) = [j \in 0 .. n - 1 |-> F[j]]
    BY <1>8 DEF Padded
  <1>10. F = [j \in 0 .. n - 1 |-> F[j]]
    BY <1>5
  <1>11. Padded(G, n) = F
    BY <1>9, <1>10
  <1> QED
    BY <1>11 DEF F, G, P_

LEMMA AsVecIs ==
  ASSUME NEW n \in Nat, NEW s, IsSequence(s), Len(s) = n
  PROVE  /\ AsVec(s) = [i \in 0 .. n - 1 |-> s[i + 1]]
         /\ DOMAIN AsVec(s) = 0 .. n - 1 /\ Size(AsVec(s)) = n
  <1>1. AsVec(s) = [i \in 0 .. n - 1 |-> s[i + 1]]
    BY Zenon DEF AsVec
  <1>2. DOMAIN AsVec(s) = 0 .. n - 1
    BY <1>1
  <1> QED
    BY <1>1, <1>2, SizeIs

LEMMA AsSeqIs ==
  ASSUME NEW n \in Nat, NEW v, DOMAIN v = 0 .. n - 1
  PROVE  /\ AsSeq(v) = [i \in 1 .. n |-> v[i - 1]]
         /\ IsSequence(AsSeq(v)) /\ Len(AsSeq(v)) = n
         /\ \A i \in 0 .. n - 1 : AsSeq(v)[i + 1] = v[i]
         /\ v = [i \in 0 .. n - 1 |-> v[i]] => AsVec(AsSeq(v)) = v
  <1> DEFINE s == AsSeq(v)
  <1>1. s = [i \in 1 .. n |-> v[i - 1]]
    <2>1. Size(v) = n
      BY SizeIs
    <2> QED
      BY <2>1, Zenon DEF AsSeq
  <1> HIDE DEF s
  <1>2. IsSequence(s) /\ Len(s) = n
    BY <1>1, FunctionIsSequence
  <1>3. \A i \in 0 .. n - 1 : i + 1 \in 1 .. n /\ (i + 1) - 1 = i
    OBVIOUS
  <1>4. \A i \in 0 .. n - 1 : s[i + 1] = v[i]
    BY <1>1, <1>3
  <1>5. AsVec(s) = [i \in 0 .. n - 1 |-> s[i + 1]]
    BY <1>2, AsVecIs
  <1>6. v = [i \in 0 .. n - 1 |-> v[i]] => AsVec(s) = v
    BY <1>4, <1>5
  <1> QED
    BY <1>1, <1>2, <1>4, <1>6 DEF s

(* Joined goes through a table of concatenations. *)
JoinTable(g, parts, n) ==
  /\ g[1] = AsSeq(parts[1])
  /\ \A i \in 1 .. n : g[i + 1] = g[i] \o AsSeq(parts[i + 1])
  /\ Joined(parts) = AsVec(g[n + 1])

LEMMA JoinTables ==
  ASSUME NEW n \in Nat, NEW parts, DOMAIN parts = 1 .. n + 1
  PROVE  \E g : JoinTable(g, parts, n)
  <1> DEFINE s == [i \in 1 .. n + 1 |-> AsSeq(parts[i])]
             m == n + 1
  <1>1. m \in Nat /\ m # 0 /\ DOMAIN s = 1 .. m /\ s = [i \in 1 .. m |-> s[i]]
    OBVIOUS
  <1>2. \A i \in 1 .. m : s[i] = AsSeq(parts[i])
    OBVIOUS
  <1>3. Joined(parts) = AsVec(SeqExt!FlattenSeq(s))
    BY Zenon DEF Joined
  <1> HIDE DEF s
  <1>4. Len(s) = m
    <2> HIDE DEF m
    <2> QED
      BY <1>1, FunctionIsSequence
  <1>5. \E h : Flattens(h, s, m)
    <2> HIDE DEF m
    <2> QED
      BY <1>1, FlattensExist
  <1> DEFINE g == CHOOSE h : Flattens(h, s, m)
  <1>6. SeqExt!FlattenSeq(s) = g[m]
    <2> HIDE DEF m
    <2> QED
      BY <1>1, <1>4, Zenon DEF SeqExt!FlattenSeq, Flattens
  <1>7. Flattens(g, s, m)
    BY <1>5
  <1> HIDE DEF g
  <1>8. g = [i \in 1 .. m |-> IF i = 1 THEN s[i] ELSE g[i - 1] \o s[i]]
    BY <1>7 DEF Flattens
  <1>9. g[1] = s[1]
    BY <1>8
  <1>10. ASSUME NEW i \in 1 .. n PROVE g[i + 1] = g[i] \o s[i + 1]
    <2>1. i + 1 \in 1 .. m /\ i + 1 # 1 /\ (i + 1) - 1 = i
      OBVIOUS
    <2> QED
      BY <1>8, <2>1
  <1>11. \A i \in 1 .. n : i + 1 \in 1 .. m
    OBVIOUS
  <1>12. 1 \in 1 .. m
    OBVIOUS
  <1>13. JoinTable(g, parts, n)
    BY <1>2, <1>3, <1>6, <1>9, <1>10, <1>11, <1>12 DEF JoinTable, m
  <1> QED
    BY <1>13

(* An assignment is made of the variables, u and the public values. *)
MadeOf(z, W, u, X, n, k) ==
  /\ z \in Vectors(n + 1 + k)
  /\ \A i \in 0 .. n - 1 : z[i] = W[i]
  /\ z[n] = u
  /\ \A j \in 0 .. k - 1 : z[n + 1 + j] = X[j]

LEMMA JoinIs ==
  ASSUME NEW n \in Nat, NEW k \in Nat, NEW W \in Vectors(n), NEW X \in Vectors(k), NEW u \in Field
  PROVE  MadeOf(Join(W, u, X), W, u, X, n, k)
  <1> DEFINE z == Join(W, u, X)
  <1>1. Size(W) = n /\ Size(X) = k /\ (\A i \in 0 .. n - 1 : W[i] \in Field)
        /\ \A i \in 0 .. k - 1 : X[i] \in Field
    BY VectorSize
  <1>2. z = [i \in 0 .. n + k |-> IF i < n THEN W[i] ELSE IF i = n THEN u ELSE X[i - n - 1]]
    BY <1>1, Zenon DEF Join
  <1> HIDE DEF z
  <1>3. 0 .. n + k = 0 .. (n + 1 + k) - 1
    OBVIOUS
  <1>4. ASSUME NEW i \in 0 .. n + k PROVE z[i] \in Field
    <2>1. i < n => z[i] = W[i] /\ i \in 0 .. n - 1
      BY <1>2
    <2>2. i = n => z[i] = u
      BY <1>2
    <2>3. ~(i < n) /\ i # n => z[i] = X[i - n - 1] /\ i - n - 1 \in 0 .. k - 1
      BY <1>2
    <2> QED
      BY <1>1, <2>1, <2>2, <2>3
  <1>5. z \in Vectors(n + 1 + k)
    BY <1>2, <1>3, <1>4 DEF Vectors
  <1>6. \A i \in 0 .. n - 1 : z[i] = W[i]
    BY <1>2
  <1>7. z[n] = u
    BY <1>2
  <1>8. ASSUME NEW j \in 0 .. k - 1 PROVE z[n + 1 + j] = X[j]
    <2>1. n + 1 + j \in 0 .. n + k /\ ~(n + 1 + j < n) /\ n + 1 + j # n /\ (n + 1 + j) - n - 1 = j
      OBVIOUS
    <2> QED
      BY <1>2, <2>1
  <1> QED
    BY <1>5, <1>6, <1>7, <1>8 DEF z, MadeOf

LEMMA TwoFold ==
  ASSUME NEW n \in Nat, NEW v \in Vectors(n), NEW w \in Vectors(n), NEW r \in Field
  PROVE  Weighed(<<1, r>>, <<v, w>>, 2, n) /\ fold_vectors(<<v, w>>, <<1, r>>) = Scaled(v, w, r)
  <1> DEFINE x == <<1, r>>
             V == <<v, w>>
  <1>1. \A i \in 1 .. 2 : i = 1 \/ i = 2
    OBVIOUS
  <1>2. 1 \in Field /\ x[1] = 1 /\ x[2] = r /\ V[1] = v /\ V[2] = w
    BY Constants
  <1>3. V \in [1 .. 2 -> Vectors(n)]
    BY <1>1, FewAre
  <1> HIDE DEF x, V
  <1>4. Weighed(x, V, 2, n)
    BY <1>1, <1>2, <1>3 DEF Weighed
  <1>5. fold_vectors(V, x) = [j \in 0 .. n - 1 |-> SumWeighted(x, V, 2, j)]
    BY <1>4, FoldVectorsIs
  <1>6. ASSUME NEW j \in 0 .. n - 1 PROVE SumWeighted(x, V, 2, j) = Plus(v[j], Times(r, w[j]))
    <2> DEFINE t == [i \in 0 .. 2 - 1 |-> Times(x[i + 1], V[i + 1][j])]
               a == v[j]
               b == w[j]
    <2>1. a \in Field /\ b \in Field
      BY VectorSize
    <2>2. t[0] = Times(1, a) /\ t[1] = Times(r, b) /\ DOMAIN t = 0 .. 2 - 1 /\ t = [i \in 0 .. 2 - 1 |-> t[i]]
      BY <1>2
    <2> HIDE DEF t, a, b
    <2>3. t[0] = a /\ t[0] \in Field /\ t[1] \in Field
      BY <2>1, <2>2, FieldLaws, FieldClosed
    <2>4. t \in Vectors(2)
      <3>1. \A i \in 0 .. 2 - 1 : i = 0 \/ i = 1
        OBVIOUS
      <3> QED
        BY <2>2, <2>3, <3>1 DEF Vectors
    <2>5. SumOf(t) = Plus(t[0], t[1])
      BY <2>4, SumOfTwo
    <2>6. SumWeighted(x, V, 2, j) = SumOf(t)
      BY Zenon DEF SumWeighted, t
    <2> QED
      BY <2>2, <2>3, <2>5, <2>6 DEF a, b
  <1>7. DOMAIN v = 0 .. n - 1
    BY VectorSize
  <1>8. fold_vectors(V, x) = Scaled(v, w, r)
    BY <1>5, <1>6, <1>7 DEF Scaled
  <1> QED
    BY <1>4, <1>8 DEF x, V

(* The extension of a fold is the fold of the extensions. *)
LEMMA ExtensionFolds ==
  ASSUME NEW l \in Nat, NEW p \in [1 .. l -> Field], NEW v \in Vectors(PowerOfTwo[l]),
         NEW w \in Vectors(PowerOfTwo[l]), NEW r \in Field
  PROVE  Extension(Scaled(v, w, r), p) = Plus(Extension(v, p), Times(r, Extension(w, p)))
  <1> DEFINE n == PowerOfTwo[l]
             T == EvalsFromPoints(p)
             f == Shifted(v, w, r, n)
  <1>1. n \in Nat /\ T \in Vectors(n)
    BY EvalsSize, PowerFacts
  <1>2. Scaled(v, w, r) = f /\ f \in Vectors(n)
    <2> HIDE DEF n
    <2>1. v \in Vectors(n) /\ w \in Vectors(n)
      BY DEF n
    <2> QED
      BY <1>1, <2>1, ShiftedIs
  <1>3. Extension(f, p) = Dot(f, T, n) /\ Extension(v, p) = Dot(v, T, n) /\ Extension(w, p) = Dot(w, T, n)
    BY ExtensionIs
  <1> HIDE DEF T
  <1>4. ASSUME NEW g \in Vectors(n) PROVE Dot(g, T, n) = Dot(T, g, n)
    <2> HIDE DEF n
    <2>1. \A j \in 0 .. n - 1 : g[j] \in Field /\ T[j] \in Field
      BY <1>1, <1>4, VectorSize
    <2>2. \A j \in 0 .. n - 1 : Times(g[j], T[j]) = Times(T[j], g[j])
      BY <2>1, FieldLaws
    <2>3. [j \in 0 .. n - 1 |-> Times(g[j], T[j])] = [j \in 0 .. n - 1 |-> Times(T[j], g[j])]
      BY <2>2
    <2> QED
      BY <2>3, Zenon DEF Dot
  <1>5. Dot(T, f, n) = Plus(Dot(T, v, n), Times(r, Dot(T, w, n)))
    <2> HIDE DEF n
    <2>1. v \in Vectors(n) /\ w \in Vectors(n)
      BY DEF n
    <2> QED
      BY <1>1, <2>1, DotIsLinear DEF f
  <1>6. /\ Dot(f, T, n) = Dot(T, f, n) /\ Dot(v, T, n) = Dot(T, v, n) /\ Dot(w, T, n) = Dot(T, w, n)
    <2> HIDE DEF n, f
    <2>1. v \in Vectors(n) /\ w \in Vectors(n)
      BY DEF n
    <2> QED
      BY <1>2, <1>4, <2>1
  <1> QED
    BY <1>2, <1>3, <1>5, <1>6

(* An assignment, taken apart and put together. *)
LEMMA JoinUndoes ==
  ASSUME NEW n \in Nat, NEW k \in Nat, NEW z \in Vectors(n + 1 + k)
  PROVE  /\ [i \in 0 .. n - 1 |-> z[i]] \in Vectors(n) /\ [j \in 0 .. k - 1 |-> z[n + 1 + j]] \in Vectors(k)
         /\ z[n] \in Field
         /\ Join([i \in 0 .. n - 1 |-> z[i]], z[n], [j \in 0 .. k - 1 |-> z[n + 1 + j]]) = z
  <1> DEFINE W == [i \in 0 .. n - 1 |-> z[i]]
             X == [j \in 0 .. k - 1 |-> z[n + 1 + j]]
             N == n + 1 + k
  <1>1. N \in Nat /\ \A i \in 0 .. N - 1 : z[i] \in Field
    <2>1. N \in Nat /\ z \in Vectors(N)
      OBVIOUS
    <2> HIDE DEF N
    <2> QED
      BY <2>1, VectorSize
  <1>2. n \in 0 .. N - 1 /\ (\A i \in 0 .. n - 1 : i \in 0 .. N - 1) /\ \A j \in 0 .. k - 1 : n + 1 + j \in 0 .. N - 1
    OBVIOUS
  <1>3. W \in Vectors(n) /\ X \in Vectors(k) /\ z[n] \in Field
    <2> HIDE DEF N
    <2> QED
      BY <1>1, <1>2 DEF Vectors
  <1>4. DOMAIN z = 0 .. N - 1 /\ z = [i \in 0 .. N - 1 |-> z[i]]
    BY DEF Vectors
  <1>5. MadeOf(Join(W, z[n], X), W, z[n], X, n, k)
    <2> DEFINE u == z[n]
    <2>1. u \in Field
      BY <1>3
    <2> HIDE DEF u, W, X
    <2>2. MadeOf(Join(W, u, X), W, u, X, n, k)
      BY <1>3, <2>1, JoinIs
    <2> QED
      BY <2>2 DEF u
  <1> DEFINE y == Join(W, z[n], X)
  <1> HIDE DEF y
  <1>6. /\ y \in Vectors(N) /\ y[n] = z[n]
        /\ \A i \in 0 .. n - 1 : y[i] = z[i]
        /\ \A j \in 0 .. k - 1 : y[n + 1 + j] = z[n + 1 + j]
    BY <1>5 DEF MadeOf, y
  <1>7. ASSUME NEW i \in 0 .. N - 1 PROVE y[i] = z[i]
    <2>1. CASE i < n
      BY <1>6, <2>1
    <2>2. CASE i = n
      BY <1>6, <2>2
    <2>3. CASE i > n
      <3>1. i - n - 1 \in 0 .. k - 1 /\ n + 1 + (i - n - 1) = i
        BY <2>3
      <3> QED
        BY <1>6, <3>1
    <2> QED
      BY <2>1, <2>2, <2>3
  <1>8. y = [i \in 0 .. N - 1 |-> y[i]]
    BY <1>6 DEF Vectors
  <1>9. y = z
    <2> HIDE DEF N
    <2> QED
      BY <1>4, <1>7, <1>8
  <1> QED
    BY <1>3, <1>9 DEF y

LEMMA OneFold ==
  ASSUME NEW n \in Nat, NEW v \in Vectors(n)
  PROVE  fold_vectors(<<v>>, <<1>>) = v
  <1> DEFINE x == <<1>>
             V == <<v>>
  <1>1. \A i \in 1 .. 1 : i = 1
    OBVIOUS
  <1>2. 1 \in Field /\ x[1] = 1 /\ V[1] = v
    BY Constants
  <1>3. V \in [1 .. 1 -> Vectors(n)]
    BY <1>1, FewAre
  <1> HIDE DEF x, V
  <1>4. Weighed(x, V, 1, n) /\ 1 \in Nat \ {0}
    BY <1>1, <1>2, <1>3 DEF Weighed
  <1>5. fold_vectors(V, x) = [j \in 0 .. n - 1 |-> SumWeighted(x, V, 1, j)]
    BY <1>4, FoldVectorsIs
  <1>6. ASSUME NEW j \in 0 .. n - 1 PROVE SumWeighted(x, V, 1, j) = v[j]
    <2> DEFINE t == [i \in 0 .. 1 - 1 |-> Times(x[i + 1], V[i + 1][j])]
               a == v[j]
    <2>1. a \in Field
      BY VectorSize
    <2>2. t[0] = Times(1, a) /\ t = [i \in 0 .. 1 - 1 |-> t[0]]
      BY <1>2
    <2> HIDE DEF t, a
    <2>3. t[0] = a
      BY <2>1, <2>2, FieldLaws
    <2>4. t \in Vectors(1)
      BY <2>1, <2>2, <2>3 DEF Vectors
    <2>5. SumWeighted(x, V, 1, j) = SumOf(t)
      BY Zenon DEF SumWeighted, t
    <2> QED
      BY <2>3, <2>4, <2>5, SumOfOne DEF a
  <1>7. v = [j \in 0 .. n - 1 |-> v[j]]
    BY DEF Vectors
  <1>8. fold_vectors(V, x) = v
    BY <1>5, <1>6, <1>7
  <1> QED
    BY <1>8 DEF x, V

(* A padded vector is evaluated without its padding. *)
LEMMA PaddedEvaluates ==
  ASSUME NEW l \in Nat, NEW p \in [1 .. l -> Field], NEW n \in Nat, n <= PowerOfTwo[l], NEW v \in Vectors(n)
  PROVE  /\ FirstPart(EvalsFromPoints(p), n) \in Vectors(n)
         /\ Padded(v, PowerOfTwo[l]) \in Vectors(PowerOfTwo[l])
         /\ Extension(Padded(v, PowerOfTwo[l]), p) = Dot(v, FirstPart(EvalsFromPoints(p), n), n)
         /\ Extension(Padded(v, PowerOfTwo[l]), p) = Dot(v, EvalsFromPoints(p), n)
  <1> DEFINE N == PowerOfTwo[l]
             T == EvalsFromPoints(p)
             w == Padded(v, N)
  <1>1. N \in Nat /\ n <= N /\ T \in Vectors(N)
    BY PowerFacts, EvalsSize
  <1>2. Extension(w, p) = Dot(w, T, N)
    BY ExtensionIs
  <1> HIDE DEF N, T
  <1>3. Size(v) = n /\ \A i \in 0 .. n - 1 : v[i] \in Field
    BY VectorSize
  <1>4. ASSUME NEW i \in 0 .. N - 1 PROVE w[i] \in Field /\ (i < n => w[i] = v[i]) /\ (~(i < n) => w[i] = 0)
    <2>1. w[i] = IF i < n THEN v[i] ELSE 0
      BY <1>3 DEF Padded, At
    <2> QED
      BY <1>1, <1>3, <2>1, Constants
  <1>5. w \in Vectors(N)
    BY <1>4 DEF Vectors, Padded
  <1>6. \A i \in n .. N - 1 : w[i] = 0
    BY <1>1, <1>4
  <1>7. \A i \in 0 .. n - 1 : w[i] = v[i] /\ i \in 0 .. N - 1
    BY <1>1, <1>4
  <1>8. \A i \in 0 .. n - 1 : T[i] \in Field
    BY <1>1, <1>7, VectorSize
  <1> DEFINE f == FirstPart(T, n)
  <1>9. f \in Vectors(n) /\ \A i \in 0 .. n - 1 : f[i] = T[i]
    BY <1>8 DEF FirstPart, Vectors
  <1> HIDE DEF w, f
  <1>10. Dot(w, T, N) = Dot(w, T, n)
    BY <1>1, <1>5, <1>6, DotStops
  <1>11. \A i \in 0 .. n - 1 : Times(w[i], T[i]) = Times(v[i], T[i]) /\ Times(v[i], T[i]) = Times(v[i], f[i])
    BY <1>7, <1>9
  <1>12. Dot(w, T, n) = Dot(v, T, n)
    BY <1>11, DotOfSame
  <1>13. Dot(v, T, n) = Dot(v, f, n)
    BY <1>11, DotOfSame
  <1> QED
    BY <1>2, <1>5, <1>9, <1>10, <1>12, <1>13 DEF w, f, N, T

(* The total of the inner sum-check, and the value of its first polynomial  *)
(* at the point: both are poly_ABC times a vector.                          *)
InnerTotal(poly_ABC, poly_z) == SumOf([j \in DOMAIN poly_z |-> Times(poly_ABC[j], poly_z[j])])

LEMMA InnerTotalIs ==
  ASSUME NEW n \in Nat, NEW N \in Nat, n <= N, NEW bc \in Vectors(n), NEW z \in Vectors(n)
  PROVE  InnerTotal(Padded(bc, N), Padded(z, N)) = Dot(bc, z, n)
  <1> DEFINE a == Padded(bc, N)
             b == Padded(z, N)
  <1>1. /\ Size(bc) = n /\ Size(z) = n
        /\ \A i \in 0 .. n - 1 : bc[i] \in Field /\ z[i] \in Field
    BY VectorSize
  <1>2. a = [i \in 0 .. N - 1 |-> IF i < n THEN bc[i] ELSE 0] /\ b = [i \in 0 .. N - 1 |-> IF i < n THEN z[i] ELSE 0]
    BY <1>1 DEF Padded, At
  <1> HIDE DEF a, b
  <1>3. \A i \in 0 .. N - 1 : (IF i < n THEN bc[i] ELSE 0) \in Field /\ (IF i < n THEN z[i] ELSE 0) \in Field
    BY <1>1, Constants
  <1>4. a \in Vectors(N) /\ b \in Vectors(N) /\ DOMAIN b = 0 .. N - 1
    BY <1>2, <1>3 DEF Vectors
  <1>5. (\A i \in n .. N - 1 : a[i] = 0) /\ \A i \in 0 .. n - 1 : a[i] = bc[i] /\ b[i] = z[i]
    BY <1>2
  <1>6. InnerTotal(a, b) = Dot(a, b, N)
    BY <1>4 DEF InnerTotal, Dot
  <1>7. Dot(a, b, N) = Dot(a, b, n)
    BY <1>4, <1>5, DotStops
  <1>8. Dot(a, b, n) = Dot(bc, z, n)
    BY <1>5, DotOfSame
  <1> QED
    BY <1>6, <1>7, <1>8 DEF a, b

(* A vector without the rest, and padded again. *)
LEMMA PaddedIs ==
  ASSUME NEW n \in Nat, NEW v \in Vectors(n), NEW m \in Nat
  PROVE  /\ Padded(v, m) \in Vectors(m)
         /\ \A i \in 0 .. m - 1 : Padded(v, m)[i] = IF i < n THEN v[i] ELSE 0
         /\ \A i \in Nat : At(v, i) = IF i < n THEN v[i] ELSE 0
         /\ Padded(Padded(v, m), m) = Padded(v, m)
  <1>1. Size(v) = n /\ \A i \in 0 .. n - 1 : v[i] \in Field
    BY VectorSize
  <1>2. \A i \in Nat : At(v, i) = IF i < n THEN v[i] ELSE 0
    BY <1>1 DEF At
  <1>3. \A i \in 0 .. m - 1 : i \in Nat
    OBVIOUS
  <1>4. \A i \in 0 .. m - 1 : Padded(v, m)[i] = IF i < n THEN v[i] ELSE 0
    BY <1>2, <1>3 DEF Padded
  <1>5. Padded(v, m) \in Vectors(m)
    <2>1. ASSUME NEW i \in 0 .. m - 1 PROVE (IF i < n THEN v[i] ELSE 0) \in Field
      <3>1. i < n => i \in 0 .. n - 1
        OBVIOUS
      <3> QED
        BY <1>1, <3>1, Constants
    <2> DEFINE p == Padded(v, m)
    <2>2. p = [i \in 0 .. m - 1 |-> p[i]]
      BY DEF Padded
    <2>3. \A i \in 0 .. m - 1 : p[i] \in Field
      BY <1>4, <2>1
    <2> HIDE DEF p
    <2>4. p \in Vectors(m)
      BY <2>2, <2>3 DEF Vectors
    <2> QED
      BY <2>4 DEF p
  <1> DEFINE w == Padded(v, m)
  <1>6. w = [i \in 0 .. m - 1 |-> w[i]]
    BY DEF Padded
  <1> HIDE DEF w
  <1>7. Size(w) = m
    BY <1>5, VectorSize DEF w
  <1>8. \A i \in 0 .. m - 1 : At(w, i) = w[i]
    BY <1>7 DEF At
  <1>9. Padded(w, m) = w
    <2>1. Padded(w, m) = [i \in 0 .. m - 1 |-> w[i]]
      BY <1>8 DEF Padded
    <2> QED
      BY <1>6, <2>1
  <1> QED
    BY <1>2, <1>4, <1>5, <1>9 DEF w

(* r * v + d *)
Answering(r, v, d, n) == [j \in 0 .. n - 1 |-> Plus(Times(r, v[j]), d[j])]

LEMMA AnsweringIs ==
  ASSUME NEW n \in Nat, NEW v \in Vectors(n), NEW d \in Vectors(n), NEW b \in Vectors(n), NEW r \in Field
  PROVE  /\ Answering(r, v, d, n) \in Vectors(n)
         /\ Dot(Answering(r, v, d, n), b, n) = Plus(Times(r, Dot(v, b, n)), Dot(d, b, n))
  <1> DEFINE z == Answering(r, v, d, n)
             s == Shifted(d, v, r, n)
  <1>1. \A j \in 0 .. n - 1 : v[j] \in Field /\ d[j] \in Field
    BY VectorSize
  <1>2. \A j \in 0 .. n - 1 : Times(r, v[j]) \in Field
    BY <1>1, FieldClosed
  <1>3. \A j \in 0 .. n - 1 : Plus(Times(r, v[j]), d[j]) = Plus(d[j], Times(r, v[j]))
    BY <1>1, <1>2, FieldLaws
  <1>4. z = s
    BY <1>3 DEF Answering, Shifted
  <1>5. s \in Vectors(n)
    BY ShiftedIs
  <1>6. Dot(b, s, n) = Plus(Dot(b, d, n), Times(r, Dot(b, v, n)))
    BY DotIsLinear
  <1> HIDE DEF z, s
  <1>7. Dot(z, b, n) = Dot(b, s, n)
    BY <1>4, <1>5, DotCommutes
  <1>8. Dot(b, d, n) = Dot(d, b, n) /\ Dot(b, v, n) = Dot(v, b, n) /\ Dot(d, b, n) \in Field /\ Dot(v, b, n) \in Field
    BY DotCommutes
  <1>9. Times(r, Dot(v, b, n)) \in Field
    BY <1>8, FieldClosed
  <1>10. Plus(Dot(d, b, n), Times(r, Dot(v, b, n))) = Plus(Times(r, Dot(v, b, n)), Dot(d, b, n))
    BY <1>8, <1>9, FieldLaws
  <1> QED
    BY <1>4, <1>5, <1>6, <1>7, <1>8, <1>10 DEF z

IsMask(mask, n) == mask.d \in Vectors(n) /\ mask.r_delta \in Field /\ mask.r_beta \in Field

(* Padding a vector to its length. *)
LEMMA PaddedSame ==
  ASSUME NEW n \in Nat, NEW v \in Vectors(n)
  PROVE  Padded(v, n) = v
  <1> DEFINE q == Padded(v, n)
  <1>1. q \in Vectors(n) /\ \A i \in 0 .. n - 1 : q[i] = IF i < n THEN v[i] ELSE 0
    BY PaddedIs
  <1> HIDE DEF q
  <1>2. \A i \in 0 .. n - 1 : q[i] = v[i]
    BY <1>1
  <1>3. q = v
    BY <1>1, <1>2 DEF Vectors
  <1> QED
    BY <1>3 DEF q

LEMMA FoldOfTwo ==
  ASSUME NEW n \in Nat, NEW v \in Vectors(n), NEW w \in Vectors(n), NEW r \in Field
  PROVE  Scaled(v, w, r) \in Vectors(n) /\ fold_vectors(<<v, w>>, <<1, r>>) \in Vectors(n)
  <1>1. fold_vectors(<<v, w>>, <<1, r>>) = Scaled(v, w, r)
    BY TwoFold
  <1>2. DOMAIN v = 0 .. n - 1 /\ \A i \in 0 .. n - 1 : v[i] \in Field /\ w[i] \in Field
    BY VectorSize
  <1>3. \A i \in 0 .. n - 1 : Plus(v[i], Times(r, w[i])) \in Field
    BY <1>2, FieldClosed
  <1>4. Scaled(v, w, r) \in Vectors(n)
    BY <1>2, <1>3 DEF Scaled, Vectors
  <1> QED
    BY <1>1, <1>4

-----------------------------------------------------------------------------
(* The relation, of one assignment and of two that are folded               *)

LEMMA MultiplyIs ==
  ASSUME NEW m \in Nat, NEW n \in Nat, NEW M \in [0 .. m - 1 -> Vectors(n)], NEW z \in Vectors(n)
  PROVE  Multiply(M, z) = [i \in 0 .. m - 1 |-> Dot(M[i], z, n)] /\ Multiply(M, z) \in Vectors(m)
  <1>1. DOMAIN M = 0 .. m - 1 /\ DOMAIN z = 0 .. n - 1
    BY VectorSize
  <1>2. Multiply(M, z) = [i \in 0 .. m - 1 |-> Dot(M[i], z, n)]
    BY <1>1, Zenon DEF Multiply, Dot
  <1>3. \A i \in 0 .. m - 1 : Dot(M[i], z, n) \in Field
    <2> SUFFICES ASSUME NEW i \in 0 .. m - 1 PROVE Dot(M[i], z, n) \in Field
      OBVIOUS
    <2>1. M[i] \in Vectors(n)
      OBVIOUS
    <2> QED
      BY <2>1, ProductsAre
  <1> QED
    BY <1>2, <1>3 DEF Vectors

(* Az * Bz - u * Cz, row by row. *)
ExcessAt(shape, z, u, i, n) == RowExcess(Dot(shape.A[i], z, n), Dot(shape.B[i], z, n), Dot(shape.C[i], z, n), u)
Columns(shape) == shape.num_vars + 1 + shape.num_io

LEMMA ShapeTypes ==
  ASSUME NEW shape, IsShape(shape)
  PROVE  /\ shape.num_cons \in Nat /\ shape.num_vars \in Nat /\ shape.num_io \in Nat
         /\ Columns(shape) \in Nat
         /\ shape.A \in [0 .. shape.num_cons - 1 -> Vectors(Columns(shape))]
         /\ shape.B \in [0 .. shape.num_cons - 1 -> Vectors(Columns(shape))]
         /\ shape.C \in [0 .. shape.num_cons - 1 -> Vectors(Columns(shape))]
         /\ \A i \in 0 .. shape.num_cons - 1 :
              /\ shape.A[i] \in Vectors(Columns(shape)) /\ shape.B[i] \in Vectors(Columns(shape))
              /\ shape.C[i] \in Vectors(Columns(shape))
  <1> DEFINE m == shape.num_cons
             n == Columns(shape)
             A == shape.A
             B == shape.B
             C == shape.C
  <1>1. /\ shape.num_cons \in Nat /\ shape.num_vars \in Nat /\ shape.num_io \in Nat
        /\ A \in [0 .. m - 1 -> Vectors(n)] /\ B \in [0 .. m - 1 -> Vectors(n)]
        /\ C \in [0 .. m - 1 -> Vectors(n)]
    BY Zenon DEF IsShape, Columns
  <1>2. n \in Nat
    BY <1>1 DEF Columns
  <1> HIDE DEF n, A, B, C
  <1>3. \A i \in 0 .. m - 1 : A[i] \in Vectors(n) /\ B[i] \in Vectors(n) /\ C[i] \in Vectors(n)
    BY <1>1
  <1> QED
    BY <1>1, <1>2, <1>3, Zenon DEF n, A, B, C

LEMMA ExcessIs ==
  ASSUME NEW shape, IsShape(shape), NEW z \in Vectors(Columns(shape)), NEW u \in Field
  PROVE  /\ Excess(shape, z, u)
              = [i \in 0 .. shape.num_cons - 1 |-> ExcessAt(shape, z, u, i, Columns(shape))]
         /\ Excess(shape, z, u) \in Vectors(shape.num_cons)
  <1> DEFINE m == shape.num_cons
             n == Columns(shape)
             A == shape.A
             B == shape.B
             C == shape.C
             az == Multiply(A, z)
             bz == Multiply(B, z)
             cz == Multiply(C, z)
             e == Excess(shape, z, u)
  <1>0. /\ m \in Nat /\ n \in Nat
        /\ A \in [0 .. m - 1 -> Vectors(n)] /\ B \in [0 .. m - 1 -> Vectors(n)]
        /\ C \in [0 .. m - 1 -> Vectors(n)]
    BY ShapeTypes
  <1>1. z \in Vectors(n)
    OBVIOUS
  <1>2. e = [i \in DOMAIN az |-> Minus(Times(az[i], bz[i]), Times(u, cz[i]))]
    BY Zenon DEF Excess
  <1>3. \A i : ExcessAt(shape, z, u, i, n) = RowExcess(Dot(A[i], z, n), Dot(B[i], z, n), Dot(C[i], z, n), u)
    BY Zenon DEF ExcessAt
  <1> HIDE DEF m, n, A, B, C, e
  <1>4. az = [i \in 0 .. m - 1 |-> Dot(A[i], z, n)] /\ az \in Vectors(m)
    BY <1>0, <1>1, MultiplyIs
  <1>5. bz = [i \in 0 .. m - 1 |-> Dot(B[i], z, n)] /\ bz \in Vectors(m)
    BY <1>0, <1>1, MultiplyIs
  <1>6. cz = [i \in 0 .. m - 1 |-> Dot(C[i], z, n)] /\ cz \in Vectors(m)
    BY <1>0, <1>1, MultiplyIs
  <1> HIDE DEF az, bz, cz
  <1>7. DOMAIN az = 0 .. m - 1 /\ \A i \in 0 .. m - 1 : az[i] \in Field /\ bz[i] \in Field /\ cz[i] \in Field
    BY <1>0, <1>4, <1>5, <1>6, VectorSize
  <1>8. ASSUME NEW i \in 0 .. m - 1
        PROVE  /\ Minus(Times(az[i], bz[i]), Times(u, cz[i])) = ExcessAt(shape, z, u, i, n)
               /\ Minus(Times(az[i], bz[i]), Times(u, cz[i])) \in Field
    <2>1. az[i] = Dot(A[i], z, n) /\ bz[i] = Dot(B[i], z, n) /\ cz[i] = Dot(C[i], z, n)
      BY <1>4, <1>5, <1>6
    <2>2. Times(az[i], bz[i]) \in Field /\ Times(u, cz[i]) \in Field
      BY <1>7, FieldClosed
    <2>3. Minus(Times(az[i], bz[i]), Times(u, cz[i])) = ExcessAt(shape, z, u, i, n)
      BY <1>3, <2>1 DEF RowExcess
    <2> QED
      BY <2>2, <2>3, FieldClosed
  <1>9. e = [i \in 0 .. m - 1 |-> ExcessAt(shape, z, u, i, n)]
    BY <1>2, <1>7, <1>8
  <1>10. \A i \in 0 .. m - 1 : ExcessAt(shape, z, u, i, n) \in Field
    BY <1>8
  <1>11. e \in Vectors(m)
    BY <1>9, <1>10 DEF Vectors
  <1> QED
    BY <1>9, <1>11 DEF m, n, e

(* The assignment of a fold is the fold of the assignments.                 *)
LEMMA JoinFolds ==
  ASSUME NEW n \in Nat, NEW k \in Nat, NEW V \in Vectors(n), NEW W \in Vectors(n),
         NEW X \in Vectors(k), NEW Y \in Vectors(k), NEW u \in Field, NEW r \in Field
  PROVE  Join(Scaled(V, W, r), Plus(u, r), Scaled(X, Y, r))
           = Shifted(Join(V, u, X), Join(W, 1, Y), r, n + 1 + k)
  <1> DEFINE N == n + 1 + k
             f == Scaled(V, W, r)
             g == Scaled(X, Y, r)
             z == Join(V, u, X)
             w == Join(W, 1, Y)
             j == Join(f, Plus(u, r), g)
             s == Shifted(z, w, r, N)
  <1>0. 1 \in Field /\ Plus(u, r) \in Field /\ Times(r, 1) = r
    <2>1. 1 \in Field
      BY Constants
    <2>2. Times(r, 1) = Times(1, r) /\ Times(1, r) = r
      BY <2>1, FieldLaws
    <2> QED
      BY <2>1, <2>2, FieldClosed
  <1>1. f = Shifted(V, W, r, n) /\ f \in Vectors(n) /\ g = Shifted(X, Y, r, k) /\ g \in Vectors(k)
    BY ShiftedIs
  <1>2. MadeOf(z, V, u, X, n, k)
    BY JoinIs
  <1>3. MadeOf(w, W, 1, Y, n, k)
    BY <1>0, JoinIs
  <1> HIDE DEF f, g, z, w
  <1>4. MadeOf(j, f, Plus(u, r), g, n, k)
    BY <1>0, <1>1, JoinIs
  <1> HIDE DEF j
  <1>5. N \in Nat
    OBVIOUS
  <1>6. s = [i \in 0 .. N - 1 |-> Plus(z[i], Times(r, w[i]))]
    BY DEF Shifted
  <1>7. ASSUME NEW i \in 0 .. N - 1 PROVE j[i] = Plus(z[i], Times(r, w[i]))
    <2>1. CASE i < n
      <3>1. i \in 0 .. n - 1
        BY <2>1
      <3>2. f[i] = Plus(V[i], Times(r, W[i]))
        BY <1>1, <3>1 DEF Shifted
      <3> QED
        BY <1>2, <1>3, <1>4, <3>1, <3>2 DEF MadeOf
    <2>2. CASE i = n
      BY <1>0, <1>2, <1>3, <1>4, <2>2 DEF MadeOf
    <2>3. CASE i > n
      <3> DEFINE l == i - n - 1
      <3>1. l \in 0 .. k - 1 /\ i = n + 1 + l
        BY <2>3
      <3> HIDE DEF l
      <3>2. g[l] = Plus(X[l], Times(r, Y[l]))
        BY <1>1, <3>1 DEF Shifted
      <3>3. j[n + 1 + l] = g[l] /\ z[n + 1 + l] = X[l] /\ w[n + 1 + l] = Y[l]
        BY <1>2, <1>3, <1>4, <3>1 DEF MadeOf
      <3> QED
        BY <3>1, <3>2, <3>3
    <2> QED
      BY <2>1, <2>2, <2>3
  <1>8. j = [i \in 0 .. N - 1 |-> j[i]]
    BY <1>4 DEF Vectors, MadeOf
  <1> HIDE DEF N, s
  <1>9. j = s
    BY <1>6, <1>7, <1>8
  <1> QED
    BY <1>9 DEF j, s, z, w, f, g, N

(* One row of a sum of assignments. *)
RowOfSum(shape, z, w, r, v, i, n) ==
  RowExcess(Plus(Dot(shape.A[i], z, n), Times(r, Dot(shape.A[i], w, n))),
            Plus(Dot(shape.B[i], z, n), Times(r, Dot(shape.B[i], w, n))),
            Plus(Dot(shape.C[i], z, n), Times(r, Dot(shape.C[i], w, n))), v)

LEMMA RowOfSumIs ==
  ASSUME NEW shape, IsShape(shape), NEW z \in Vectors(Columns(shape)), NEW w \in Vectors(Columns(shape)),
         NEW r \in Field, NEW v, NEW i \in 0 .. shape.num_cons - 1
  PROVE  ExcessAt(shape, Shifted(z, w, r, Columns(shape)), v, i, Columns(shape))
           = RowOfSum(shape, z, w, r, v, i, Columns(shape))
  <1> DEFINE n == Columns(shape)
             a == shape.A[i]
             b == shape.B[i]
             c == shape.C[i]
             s == Shifted(z, w, r, n)
  <1>1. n \in Nat /\ a \in Vectors(n) /\ b \in Vectors(n) /\ c \in Vectors(n)
    BY ShapeTypes
  <1>2. z \in Vectors(n) /\ w \in Vectors(n)
    OBVIOUS
  <1>3. ExcessAt(shape, s, v, i, n) = RowExcess(Dot(a, s, n), Dot(b, s, n), Dot(c, s, n), v)
    BY Zenon DEF ExcessAt
  <1>4. RowOfSum(shape, z, w, r, v, i, n)
          = RowExcess(Plus(Dot(a, z, n), Times(r, Dot(a, w, n))), Plus(Dot(b, z, n), Times(r, Dot(b, w, n))),
                      Plus(Dot(c, z, n), Times(r, Dot(c, w, n))), v)
    BY Zenon DEF RowOfSum
  <1> HIDE DEF n, a, b, c
  <1>5. Dot(a, s, n) = Plus(Dot(a, z, n), Times(r, Dot(a, w, n)))
    BY <1>1, <1>2, DotIsLinear
  <1>6. Dot(b, s, n) = Plus(Dot(b, z, n), Times(r, Dot(b, w, n)))
    BY <1>1, <1>2, DotIsLinear
  <1>7. Dot(c, s, n) = Plus(Dot(c, z, n), Times(r, Dot(c, w, n)))
    BY <1>1, <1>2, DotIsLinear
  <1> HIDE DEF s
  <1>8. ExcessAt(shape, s, v, i, n) = RowOfSum(shape, z, w, r, v, i, n)
    BY <1>3, <1>4, <1>5, <1>6, <1>7
  <1> QED
    BY <1>8 DEF n, s

(* A satisfied relaxed witness, and a satisfied regular one. *)
IsRelaxed(w, shape) ==
  /\ w.W \in Vectors(shape.num_vars) /\ w.X \in Vectors(shape.num_io) /\ w.u \in Field
  /\ Excess(shape, Join(w.W, w.u, w.X), w.u) = w.E
IsRegular(w, shape) ==
  /\ w.W \in Vectors(shape.num_vars) /\ w.X \in Vectors(shape.num_io)
  /\ \A i \in 0 .. shape.num_cons - 1 : Excess(shape, Join(w.W, 1, w.X), 1)[i] = 0

(* What a fold does in one row, for all that goes into it. *)
LEMMA ExcessFolds ==
  ASSUME NEW shape, IsShape(shape), NEW z \in Vectors(Columns(shape)), NEW w \in Vectors(Columns(shape)),
         NEW u \in Field, NEW r \in Field, NEW i \in 0 .. shape.num_cons - 1,
         ExcessAt(shape, w, 1, i, Columns(shape)) = 0
  PROVE  ExcessAt(shape, Shifted(z, w, r, Columns(shape)), Plus(u, r), i, Columns(shape))
           = Plus(ExcessAt(shape, z, u, i, Columns(shape)),
                  Times(r, Minus(ExcessAt(shape, Shifted(z, w, 1, Columns(shape)), Plus(u, 1), i, Columns(shape)),
                                 ExcessAt(shape, z, u, i, Columns(shape)))))
  <1> DEFINE n == Columns(shape)
             a == Dot(shape.A[i], z, n)
             b == Dot(shape.B[i], z, n)
             c == Dot(shape.C[i], z, n)
             x == Dot(shape.A[i], w, n)
             y == Dot(shape.B[i], w, n)
             t == Dot(shape.C[i], w, n)
             e == ExcessAt(shape, z, u, i, n)
             f == ExcessAt(shape, Shifted(z, w, 1, n), Plus(u, 1), i, n)
             g == ExcessAt(shape, Shifted(z, w, r, n), Plus(u, r), i, n)
  <1>1. /\ a \in Field /\ b \in Field /\ c \in Field
        /\ x \in Field /\ y \in Field /\ t \in Field
    <2>1. n \in Nat /\ shape.A[i] \in Vectors(n) /\ shape.B[i] \in Vectors(n) /\ shape.C[i] \in Vectors(n)
      BY ShapeTypes
    <2> QED
      BY <2>1, ProductsAre
  <1>2. e = RowExcess(a, b, c, u) /\ RowExcess(x, y, t, 1) = 0
    BY Zenon DEF ExcessAt
  <1>3. 1 \in Field /\ Times(1, x) = x /\ Times(1, y) = y /\ Times(1, t) = t
    BY <1>1, Constants, FieldLaws
  <1>4. f = RowExcess(Plus(a, Times(1, x)), Plus(b, Times(1, y)), Plus(c, Times(1, t)), Plus(u, 1))
    <2>1. f = RowOfSum(shape, z, w, 1, Plus(u, 1), i, n)
      BY <1>3, RowOfSumIs
    <2> QED
      BY <2>1, Zenon DEF RowOfSum
  <1>5. g = RowExcess(Plus(a, Times(r, x)), Plus(b, Times(r, y)), Plus(c, Times(r, t)), Plus(u, r))
    <2>1. g = RowOfSum(shape, z, w, r, Plus(u, r), i, n)
      BY RowOfSumIs
    <2> QED
      BY <2>1, Zenon DEF RowOfSum
  <1> HIDE DEF n, a, b, c, x, y, t, e, f, g
  <1>6. f = RowExcess(Plus(a, x), Plus(b, y), Plus(c, t), Plus(u, 1))
    BY <1>3, <1>4
  <1>7. g = Plus(e, Times(r, Minus(f, e)))
    <2>1. RowFolded(a, b, c, u, r, x, y, t)
      BY <1>1, <1>2, RowFolds
    <2> QED
      BY <1>2, <1>5, <1>6, <2>1, Zenon DEF RowFolded
  <1> QED
    BY <1>7 DEF n, e, f, g

(* What is taken away can be added back. *)
LEMMA TakenAway ==
  ASSUME NEW a \in Field, NEW b \in Field
  PROVE  Plus(b, Minus(a, b)) = a /\ Minus(Plus(b, a), b) = a /\ Minus(a, a) = 0
  <1>1. Is(a, a) /\ Is(b, b)
    BY IsItself
  <1>2. Is(Minus(a, b), a - b) /\ Is(Plus(b, a), b + a)
    BY <1>1, IsOps
  <1>3. Is(Plus(b, Minus(a, b)), b + (a - b)) /\ Is(Minus(Plus(b, a), b), (b + a) - b)
    BY <1>1, <1>2, IsOps
  <1>4. a \in Int /\ b \in Int
    BY FieldIsInt
  <1>5. b + (a - b) = a /\ (b + a) - b = a
    BY <1>4
  <1>6. Same(a, a) /\ Minus(a, a) = 0
    BY <1>4, SameIs, FieldLaws
  <1> QED
    BY <1>1, <1>3, <1>5, <1>6, IsEqual

(* The total of the outer sum-check of a relation that holds. *)
OuterTotal(eq, Az, Bz, Cz) == SumOf([i \in DOMAIN Az |-> Times(eq[i], Minus(Times(Az[i], Bz[i]), Cz[i]))])

LEMMA OuterTotalIsZero ==
  ASSUME NEW m \in Nat, NEW eq \in Vectors(m), NEW Az \in Vectors(m), NEW Bz \in Vectors(m), NEW Cz \in Vectors(m),
         \A i \in 0 .. m - 1 : Times(Az[i], Bz[i]) = Cz[i]
  PROVE  OuterTotal(eq, Az, Bz, Cz) = 0
  <1>1. /\ DOMAIN Az = 0 .. m - 1
        /\ \A i \in 0 .. m - 1 : eq[i] \in Field /\ Cz[i] \in Field
    BY VectorSize
  <1>2. \A i \in 0 .. m - 1 : Minus(Times(Az[i], Bz[i]), Cz[i]) = 0
    BY <1>1, TakenAway
  <1>3. \A i \in 0 .. m - 1 : Times(eq[i], Minus(Times(Az[i], Bz[i]), Cz[i])) = 0
    BY <1>1, <1>2, FieldLaws
  <1>4. [i \in DOMAIN Az |-> Times(eq[i], Minus(Times(Az[i], Bz[i]), Cz[i]))] = [i \in 0 .. m - 1 |-> 0]
    BY <1>1, <1>3
  <1> QED
    BY <1>4, SumOfZeros DEF OuterTotal

(* What the prover takes for Cz, from a relaxed witness. *)
WithError(u, Cz, E) == [i \in DOMAIN Cz |-> Plus(Times(u, Cz[i]), E[i])]

EvalZAt(eval_W, u, X, y, n) ==
  Plus(Times(Minus(1, y[1]), eval_W),
       Plus(Times(u, EvalsFromPoints(y)[n]),
            SumOf([j \in DOMAIN X |-> Times(X[j], EvalsFromPoints(y)[n + 1 + j])])))

(* u and X follow the variables as they are, and only the variables are     *)
(* evaluated at the other coordinates (spartan_relaxed.rs:276-291).         *)
LEMMA EvalZAtIs ==
  ASSUME NEW l \in Nat, NEW y \in [1 .. l + 1 -> Field], NEW n \in Nat, n <= PowerOfTwo[l],
         NEW k \in Nat, n + 1 + k <= 2 * PowerOfTwo[l],
         NEW W \in Vectors(n), NEW u \in Field, NEW X \in Vectors(k)
  PROVE  EvalZAt(Extension(Padded(W, PowerOfTwo[l]), Others(y, l)), u, X, y, n)
           = Dot(Join(W, u, X), EvalsFromPoints(y), n + (1 + k))
  <1> DEFINE m == PowerOfTwo[l]
             q == Others(y, l)
             T == EvalsFromPoints(y)
             D == EvalsFromPoints(q)
             z == Join(W, u, X)
             x == Minus(1, y[1])
             N == n + (1 + k)
  <1>1. m \in Nat /\ N \in Nat /\ N <= m + m /\ PowerOfTwo[l + 1] = m + m /\ N = n + 1 + k
    <2>1. PowerOfTwo[l] \in Nat /\ PowerOfTwo[l + 1] = 2 * PowerOfTwo[l]
      BY PowerFacts
    <2> HIDE DEF m
    <2>2. m \in Nat /\ PowerOfTwo[l + 1] = 2 * m /\ n + 1 + k <= 2 * m
      BY <2>1 DEF m
    <2> QED
      BY <2>2
  <1>2. q \in [1 .. l -> Field] /\ y[1] \in Field
    BY OthersAre
  <1>3. x \in Field
    BY <1>2, Constants, FieldClosed
  <1>4. T \in Vectors(m + m) /\ D \in Vectors(m)
    <2>1. T \in Vectors(PowerOfTwo[l + 1])
      BY EvalsSize
    <2> HIDE DEF q
    <2>2. D \in Vectors(m)
      BY <1>2, EvalsSize
    <2> HIDE DEF T, D, m
    <2> QED
      BY <1>1, <2>1, <2>2
  <1>5. \A i \in 0 .. m - 1 : T[i] = Times(x, D[i])
    BY TableHalves
  <1>6. Extension(Padded(W, m), q) = Dot(W, D, n) /\ FirstPart(D, n) \in Vectors(n)
        /\ Extension(Padded(W, m), q) = Dot(W, FirstPart(D, n), n)
    <2> HIDE DEF q
    <2> QED
      BY <1>2, PaddedEvaluates
  <1> DEFINE e == Extension(Padded(W, m), q)
  <1>7. MadeOf(z, W, u, X, n, k)
    BY JoinIs
  <1>8. EvalZAt(e, u, X, y, n) = Plus(Times(x, e), Plus(Times(u, T[n]),
                              SumOf([j \in DOMAIN X |-> Times(X[j], T[n + 1 + j])])))
    BY Zenon DEF EvalZAt
  <1>9. DOMAIN X = 0 .. k - 1
    BY VectorSize
  <1> HIDE DEF m, q, T, D, z, x, N, e
  <1>10. z \in Vectors(N) /\ (\A i \in 0 .. n - 1 : z[i] = W[i]) /\ z[n] = u
         /\ \A j \in 0 .. k - 1 : z[n + 1 + j] = X[j]
    <2>1. z \in Vectors(n + 1 + k)
      BY <1>7 DEF MadeOf
    <2>2. z \in Vectors(N)
      BY <1>1, <2>1
    <2> QED
      BY <1>7, <2>2 DEF MadeOf
  <1> DEFINE t == FirstPart(T, N)
  <1>11. t \in Vectors(N) /\ \A i \in 0 .. N - 1 : t[i] = T[i]
    <2>1. \A i \in 0 .. N - 1 : i \in 0 .. (m + m) - 1
      BY <1>1
    <2>2. \A i \in 0 .. (m + m) - 1 : T[i] \in Field
      BY <1>1, <1>4, VectorSize
    <2> QED
      BY <2>1, <2>2 DEF FirstPart, Vectors
  <1> HIDE DEF t
  <1>12. Dot(z, T, N) = Dot(z, t, N)
    BY <1>1, <1>11, DotOfSame
  <1> DEFINE zz == LastPart(z, n, 1 + k)
             tt == LastPart(t, n, 1 + k)
  <1>13. Dot(z, t, N) = Plus(Dot(z, t, n), Dot(zz, tt, 1 + k)) /\ zz \in Vectors(1 + k) /\ tt \in Vectors(1 + k)
    <2>1. 1 + k \in Nat /\ z \in Vectors(n + (1 + k)) /\ t \in Vectors(n + (1 + k))
      <3>1. 1 + k \in Nat
        OBVIOUS
      <3> QED
        BY <1>10, <1>11, <3>1 DEF N
    <2>2. Dot(z, t, n + (1 + k)) = Plus(Dot(z, t, n), Dot(zz, tt, 1 + k))
      BY <2>1, DotSplits
    <2>3. zz \in Vectors(1 + k) /\ tt \in Vectors(1 + k)
      BY <2>1, PartsAre
    <2> QED
      BY <2>2, <2>3 DEF N
  <1>14. zz[0] = u /\ tt[0] = T[n] /\ \A j \in 0 .. k - 1 : zz[1 + j] = X[j] /\ tt[1 + j] = T[n + 1 + j]
    <2>1. 0 \in 0 .. (1 + k) - 1 /\ n + 0 = n /\ n \in 0 .. N - 1
      BY <1>1
    <2>2. \A j \in 0 .. k - 1 : /\ 1 + j \in 0 .. (1 + k) - 1 /\ n + (1 + j) = n + 1 + j
                                /\ n + 1 + j \in 0 .. N - 1
      BY <1>1
    <2> QED
      BY <1>10, <1>11, <2>1, <2>2 DEF LastPart
  <1> HIDE DEF zz, tt
  <1> DEFINE zx == LastPart(zz, 1, k)
             tx == LastPart(tt, 1, k)
  <1>15. Dot(zz, tt, 1 + k) = Plus(Dot(zz, tt, 1), Dot(zx, tx, k))
    BY <1>13, DotSplits
  <1>16. Dot(zz, tt, 1) = Times(u, T[n])
    <2> DEFINE v == [j \in 0 .. 1 - 1 |-> Times(zz[j], tt[j])]
    <2>1. T[n] \in Field
      <3>1. n \in 0 .. N - 1
        BY <1>1
      <3>2. \A i \in 0 .. N - 1 : t[i] \in Field
        BY <1>1, <1>11, VectorSize
      <3> QED
        BY <1>11, <3>1, <3>2
    <2>2. Times(u, T[n]) \in Field
      BY <2>1, FieldClosed
    <2>3. v[0] = Times(u, T[n]) /\ v \in Vectors(1)
      <3>1. \A j \in 0 .. 1 - 1 : j = 0
        OBVIOUS
      <3> QED
        BY <1>14, <2>2, <3>1 DEF Vectors
    <2> HIDE DEF v
    <2>4. SumOf(v) = Times(u, T[n])
      BY <2>3, SumOfOne
    <2> QED
      BY <2>4, Zenon DEF Dot, v
  <1>17. Dot(zx, tx, k) = SumOf([j \in DOMAIN X |-> Times(X[j], T[n + 1 + j])])
    <2>1. \A j \in 0 .. k - 1 : zx[j] = X[j] /\ tx[j] = T[n + 1 + j]
      BY <1>14 DEF LastPart
    <2> HIDE DEF zx, tx
    <2>2. [j \in 0 .. k - 1 |-> Times(zx[j], tx[j])] = [j \in 0 .. k - 1 |-> Times(X[j], T[n + 1 + j])]
      BY <2>1
    <2>3. SumOf([j \in 0 .. k - 1 |-> Times(zx[j], tx[j])]) = SumOf([j \in DOMAIN X |-> Times(X[j], T[n + 1 + j])])
      BY <1>9, <2>2
    <2> QED
      BY <2>3, Zenon DEF Dot
  <1>18. Dot(z, t, n) = Times(x, e)
    <2> DEFINE a == FirstPart(t, n)
               d == FirstPart(D, n)
    <2>0. n <= m
      BY DEF m
    <2>1. \A i \in 0 .. n - 1 : i \in 0 .. N - 1 /\ i \in 0 .. m - 1
      BY <1>1, <2>0
    <2>2. \A i \in 0 .. n - 1 : a[i] = Times(x, d[i])
      <3>1. \A i \in 0 .. n - 1 : t[i] = T[i] /\ T[i] = Times(x, D[i])
        BY <1>5, <1>11, <2>1
      <3> QED
        BY <3>1 DEF FirstPart
    <2>3. \A i \in 0 .. n - 1 : Times(z[i], t[i]) = Times(W[i], a[i])
      BY <1>10 DEF FirstPart
    <2> HIDE DEF a
    <2>4. Dot(z, t, n) = Dot(W, a, n)
      BY <2>3, DotOfSame
    <2>5. Dot(W, a, n) = Times(x, Dot(W, d, n))
      <3>1. d \in Vectors(n)
        BY <1>6
      <3> HIDE DEF d
      <3> QED
        BY <1>3, <2>2, <3>1, DotScales
    <2> QED
      BY <1>6, <2>4, <2>5 DEF e
  <1>19. EvalZAt(e, u, X, y, n) = Dot(z, T, N)
    BY <1>8, <1>12, <1>13, <1>15, <1>16, <1>17, <1>18
  <1> QED
    BY <1>19 DEF e, z, T, N, m, q

-----------------------------------------------------------------------------
(* The exchanges of the provers and the verifiers                           *)

(* The fold. *)
FoldEntries(U1, U2, comm_T) == {<<"U1", U1>>, <<"U2", U2>>, <<"comm_T", comm_T>>}

LEMMA FoldChallengeFacts ==
  ASSUME NEW c, ChannelOK(c), NEW U1, NEW U2, NEW comm_T, NEW fresh \in Field
  PROVE  /\ AsksFor(c, FoldChallenge(c, U1, U2, comm_T, fresh), FoldEntries(U1, U2, comm_T))
         /\ \A e, other : Extends(FoldChallenge(c, U1, U2, comm_T, fresh), e) =>
              FoldChallenge(On(c, e), U1, U2, comm_T, other)
                = On(FoldChallenge(c, U1, U2, comm_T, fresh), e)
  <1> DEFINE a == Put(Put(c, "U1", U1), "U2", U2)
             b == Put(a, "comm_T", comm_T)
             d == Ask(b, "r", fresh)
  <1>1. /\ Follows(c, a) /\ ChannelOK(a) /\ {<<"U1", U1>>, <<"U2", U2>>} \subseteq SeenBy(a)
        /\ \A e : Put(Put(On(c, e), "U1", U1), "U2", U2) = On(a, e)
    <2>1. PutsTwo(c, a, "U1", U1, "U2", U2)
      BY PutTwoFacts
    <2> HIDE DEF a
    <2> QED
      BY <2>1 DEF PutsTwo
  <1> HIDE DEF a
  <1>2. /\ Absorbs(a, b, <<"comm_T", comm_T>>)
        /\ \A e : Put(On(a, e), "comm_T", comm_T) = On(b, e)
    BY <1>1, PutFacts
  <1> HIDE DEF b
  <1>3. ChannelOK(b) /\ Follows(a, b) /\ SeenBy(b) = SeenBy(a) \cup {<<"comm_T", comm_T>>}
    BY <1>2 DEF Absorbs, Follows, Extends
  <1>4. /\ Asked(b, d)
        /\ \A e, other : Extends(d, e) => Ask(On(b, e), "r", other) = On(d, e)
    BY <1>3, AskFacts
  <1>5. Follows(c, b)
    BY <1>1, <1>3, FollowsTransitive
  <1>6. FoldEntries(U1, U2, comm_T) \subseteq SeenBy(b)
    BY <1>1, <1>3 DEF FoldEntries
  <1> HIDE DEF d
  <1>7. AsksFor(c, d, FoldEntries(U1, U2, comm_T))
    BY <1>4, <1>5, <1>6, AsksAfter
  <1>8. d = FoldChallenge(c, U1, U2, comm_T, fresh)
    BY DEF FoldChallenge, d, b, a
  <1>9. ASSUME NEW e, NEW other, Extends(d, e)
        PROVE  FoldChallenge(On(c, e), U1, U2, comm_T, other) = On(d, e)
    <2>1. FoldChallenge(On(c, e), U1, U2, comm_T, other)
            = Ask(Put(Put(Put(On(c, e), "U1", U1), "U2", U2), "comm_T", comm_T), "r", other)
      BY Zenon DEF FoldChallenge
    <2> QED
      BY <1>1, <1>2, <1>4, <1>9, <2>1
  <1> QED
    BY <1>7, <1>8, <1>9

(* The outer sum-check: where it starts, where its rounds end and where it  *)
(* ends, from c.                                                            *)
OuterStart(c, tau) == AskEach(c, "t", tau)
OuterRounds(c, tau, x) == SumCheckRounds(OuterStart(c, tau), "outer", x)
OuterEnd(c, claims, tau, x, fresh) ==
  Ask(Put(OuterRounds(c, tau, x), "claims_outer", claims), "r", fresh)

OuterKept(c, claims, tau, x, fresh, n) ==
  LET start == OuterStart(c, tau)
      rounds == OuterRounds(c, tau, x)
      d == OuterEnd(c, claims, tau, x, fresh)
  IN  /\ AsksFor(c, d, {})
      /\ LatestKept(start, n) /\ LatestKept(rounds, n)
      /\ \A e : Extends(d, e) =>
           /\ Extends(start, e) /\ Extends(rounds, e)
           /\ \A other_tau, other_x \in [1 .. n -> Field] : \A other :
                /\ OuterStart(On(c, e), other_tau) = On(start, e)
                /\ OuterRounds(On(c, e), other_tau, other_x) = On(rounds, e)
                /\ OuterEnd(On(c, e), claims, other_tau, other_x, other) = On(d, e)

LEMMA OuterFacts ==
  ASSUME NEW c, ChannelOK(c), NEW claims, NEW n \in Nat,
         NEW tau \in [1 .. n -> Field], NEW x \in [1 .. n -> Field], NEW fresh \in Field
  PROVE  OuterKept(c, claims, tau, x, fresh, n)
  <1> DEFINE start == OuterStart(c, tau)
             rounds == OuterRounds(c, tau, x)
             b == Put(rounds, "claims_outer", claims)
             d == OuterEnd(c, claims, tau, x, fresh)
  <1>1. /\ Reaches(c, start, n)
        /\ \A e : \A other \in [1 .. n -> Field] :
             Extends(start, e) => AskEach(On(c, e), "t", other) = On(start, e)
    <2>1. AskedEach(c, start, "t", n)
      BY AskEachFacts DEF OuterStart
    <2> HIDE DEF start
    <2> QED
      BY <2>1 DEF AskedEach
  <1>2. rounds = SumCheckRounds(start, "outer", x) /\ d = Ask(b, "r", fresh)
    BY Zenon DEF OuterRounds, OuterEnd
  <1> HIDE DEF start, rounds, d
  <1>3. ChannelOK(start) /\ Follows(c, start)
    BY <1>1 DEF Reaches, Follows, Extends
  <1>4. /\ Reaches(start, rounds, n)
        /\ \A e : \A other \in [1 .. n -> Field] :
             Extends(rounds, e) => SumCheckRounds(On(start, e), "outer", other) = On(rounds, e)
    <2>1. RoundsDone(start, rounds, "outer", n)
      BY <1>2, <1>3, RoundsFacts
    <2> QED
      BY <2>1 DEF RoundsDone
  <1>5. ChannelOK(rounds) /\ Follows(start, rounds)
    BY <1>4 DEF Reaches, Follows, Extends
  <1>6. /\ Absorbs(rounds, b, <<"claims_outer", claims>>)
        /\ \A e : Put(On(rounds, e), "claims_outer", claims) = On(b, e)
    BY <1>5, PutFacts
  <1> HIDE DEF b
  <1>7. ChannelOK(b) /\ Follows(rounds, b)
    BY <1>6 DEF Absorbs, Follows, Extends
  <1>8. /\ Asked(b, d)
        /\ \A e, other : Extends(d, e) => Ask(On(b, e), "r", other) = On(d, e)
    BY <1>2, <1>7, AskFacts
  <1>9. Follows(c, rounds)
    BY <1>3, <1>5, FollowsTransitive
  <1>10. Follows(c, b)
    BY <1>7, <1>9, FollowsTransitive
  <1>11. AsksFor(c, d, {})
    BY <1>8, <1>10, AsksAfter
  <1>12. LatestKept(start, n) /\ LatestKept(rounds, n)
    BY <1>1, <1>3, <1>4, LatestFacts
  <1>13. ASSUME NEW e, Extends(d, e)
         PROVE  /\ Extends(start, e) /\ Extends(rounds, e)
                /\ \A other_tau, other_x \in [1 .. n -> Field] : \A other :
                     /\ OuterStart(On(c, e), other_tau) = On(start, e)
                     /\ OuterRounds(On(c, e), other_tau, other_x) = On(rounds, e)
                     /\ OuterEnd(On(c, e), claims, other_tau, other_x, other) = On(d, e)
    <2>1. Follows(b, d)
      BY <1>8 DEF Asked
    <2>2. Follows(rounds, d)
      BY <1>5, <1>7, <2>1, FollowsTransitive
    <2>3. Follows(start, d)
      BY <1>3, <1>5, <2>2, FollowsTransitive
    <2>4. Extends(start, e) /\ Extends(rounds, e)
      BY <1>3, <1>5, <1>13, <2>2, <2>3, ExtendsTransitive DEF Follows
    <2>5. ASSUME NEW other_tau \in [1 .. n -> Field], NEW other_x \in [1 .. n -> Field], NEW other
          PROVE  /\ OuterStart(On(c, e), other_tau) = On(start, e)
                 /\ OuterRounds(On(c, e), other_tau, other_x) = On(rounds, e)
                 /\ OuterEnd(On(c, e), claims, other_tau, other_x, other) = On(d, e)
      <3>1. OuterStart(On(c, e), other_tau) = On(start, e)
        BY <1>1, <2>4 DEF OuterStart
      <3>2. OuterRounds(On(c, e), other_tau, other_x) = On(rounds, e)
        BY <1>4, <2>4, <3>1 DEF OuterRounds
      <3>3. OuterEnd(On(c, e), claims, other_tau, other_x, other) = On(d, e)
        BY <1>6, <1>8, <1>13, <3>2 DEF OuterEnd
      <3> QED
        BY <3>1, <3>2, <3>3
    <2> QED
      BY <2>4, <2>5
  <1> QED
    BY <1>11, <1>12, <1>13, Zenon DEF OuterKept, start, rounds, d

(* The messages of an opening. *)
OpeningEntries(messages) == {<<"delta", messages.delta>>, <<"beta", messages.beta>>}

(* The rounds of the inner sum-check, and the openings after them. *)
InnerRounds(c, y) == SumCheckRounds(c, "inner", y)
InnerEnd(c, y, v, w) == Put(Put(InnerRounds(c, y), "v_W", v), "v_E", w)

InnerKept(c, y, v, w, n) ==
  LET rounds == InnerRounds(c, y)
      d == InnerEnd(c, y, v, w)
  IN  /\ Follows(c, rounds) /\ Follows(rounds, d) /\ Follows(c, d)
      /\ LatestKept(rounds, n)
      /\ n > 0 => SeenBy(c) \subseteq Fixed(rounds)
      /\ \A e : \A other \in [1 .. n -> Field] : Extends(rounds, e) =>
           InnerRounds(On(c, e), other) = On(rounds, e)
      /\ \A e : \A other \in [1 .. n -> Field] : Extends(d, e) =>
           Extends(rounds, e) /\ InnerEnd(On(c, e), other, v, w) = On(d, e)

LEMMA InnerFacts ==
  ASSUME NEW c, ChannelOK(c), NEW n \in Nat, NEW y \in [1 .. n -> Field], NEW v, NEW w
  PROVE  InnerKept(c, y, v, w, n)
  <1> DEFINE rounds == InnerRounds(c, y)
             d == InnerEnd(c, y, v, w)
  <1>1. /\ Reaches(c, rounds, n)
        /\ \A e : \A other \in [1 .. n -> Field] :
             Extends(rounds, e) => SumCheckRounds(On(c, e), "inner", other) = On(rounds, e)
    <2>1. RoundsDone(c, rounds, "inner", n)
      BY RoundsFacts DEF InnerRounds
    <2> HIDE DEF rounds
    <2> QED
      BY <2>1 DEF RoundsDone
  <1>2. d = Put(Put(rounds, "v_W", v), "v_E", w)
    BY Zenon DEF InnerEnd
  <1> HIDE DEF rounds, d
  <1>3. ChannelOK(rounds) /\ Follows(c, rounds) /\ (n > 0 => SeenBy(c) \subseteq Fixed(rounds))
    BY <1>1 DEF Reaches, Follows, Extends
  <1>4. /\ Follows(rounds, d)
        /\ \A e : Put(Put(On(rounds, e), "v_W", v), "v_E", w) = On(d, e)
    <2>1. PutsTwo(rounds, d, "v_W", v, "v_E", w)
      BY <1>2, <1>3, PutTwoFacts
    <2> QED
      BY <2>1 DEF PutsTwo
  <1>5. LatestKept(rounds, n)
    BY <1>1, LatestFacts
  <1>6. ASSUME NEW e, NEW other \in [1 .. n -> Field], Extends(rounds, e)
        PROVE  InnerRounds(On(c, e), other) = On(rounds, e)
    BY <1>1, <1>6 DEF InnerRounds
  <1>7. ASSUME NEW e, NEW other \in [1 .. n -> Field], Extends(d, e)
        PROVE  Extends(rounds, e) /\ InnerEnd(On(c, e), other, v, w) = On(d, e)
    <2>1. Extends(rounds, e)
      BY <1>3, <1>4, <1>7, ExtendsTransitive DEF Follows
    <2>2. InnerRounds(On(c, e), other) = On(rounds, e)
      BY <1>6, <2>1
    <2>3. InnerEnd(On(c, e), other, v, w) = On(d, e)
      BY <1>4, <2>2 DEF InnerEnd
    <2> QED
      BY <2>1, <2>3
  <1>8. Follows(c, d)
    BY <1>3, <1>4, FollowsTransitive
  <1> QED
    BY <1>3, <1>4, <1>5, <1>6, <1>7, <1>8, Zenon DEF InnerKept, rounds, d

(* The challenges of the circuit, after the early commitments. *)
ChallengedKept(c, comms, fresh, n) ==
  LET d == Challenged(c, comms, fresh)
  IN  /\ Follows(c, d) /\ LatestKept(d, n)
      /\ n > 0 => SeenBy(c) \subseteq Fixed(d)
      /\ \A i \in 1 .. Len(comms) : LET entry == <<comms[i].label, comms[i].comm>>
                                    IN  entry \in SeenBy(d) /\ (n > 0 => entry \in Fixed(d))
      /\ \A e : \A other \in [1 .. n -> Field] : Extends(d, e) =>
           Challenged(On(c, e), comms, other) = On(d, e)

LEMMA ChallengedFacts ==
  ASSUME NEW c, ChannelOK(c), NEW comms, IsSequence(comms),
         NEW n \in Nat, NEW fresh \in [1 .. n -> Field]
  PROVE  ChallengedKept(c, comms, fresh, n)
  <1> DEFINE b == AbsorbAll(c, comms)
             d == Challenged(c, comms, fresh)
  <1>1. /\ Fills(c, b, comms)
        /\ \A e : AbsorbAll(On(c, e), comms) = On(b, e)
    BY AbsorbAllFacts
  <1>2. d = AskEach(b, "challenge", fresh)
    BY Zenon DEF Challenged
  <1> HIDE DEF b, d
  <1>3. /\ ChannelOK(b) /\ Follows(c, b)
        /\ \A i \in 1 .. Len(comms) : <<comms[i].label, comms[i].comm>> \in SeenBy(b)
    BY <1>1 DEF Fills, Follows, Extends
  <1>4. /\ Reaches(b, d, n)
        /\ \A e : \A other \in [1 .. n -> Field] :
             Extends(d, e) => AskEach(On(b, e), "challenge", other) = On(d, e)
    <2>1. AskedEach(b, d, "challenge", n)
      BY <1>2, <1>3, AskEachFacts
    <2> QED
      BY <2>1 DEF AskedEach
  <1>5. Follows(b, d) /\ (n > 0 => SeenBy(b) \subseteq Fixed(d)) /\ SeenBy(b) \subseteq SeenBy(d)
        /\ SeenBy(c) \subseteq SeenBy(b)
    BY <1>3, <1>4 DEF Reaches, Follows
  <1>6. Follows(c, d)
    BY <1>3, <1>5, FollowsTransitive
  <1>7. LatestKept(d, n)
    BY <1>3, <1>4, LatestFacts
  <1>8. ASSUME NEW e, NEW other \in [1 .. n -> Field], Extends(d, e)
        PROVE  Challenged(On(c, e), comms, other) = On(d, e)
    BY <1>1, <1>4, <1>8 DEF Challenged
  <1>9. ASSUME NEW i \in 1 .. Len(comms)
        PROVE  LET entry == <<comms[i].label, comms[i].comm>>
               IN  entry \in SeenBy(d) /\ (n > 0 => entry \in Fixed(d))
    BY <1>3, <1>5
  <1>10. n > 0 => SeenBy(c) \subseteq Fixed(d)
    BY <1>5
  <1> QED
    BY <1>6, <1>7, <1>8, <1>9, <1>10, Zenon DEF ChallengedKept, d

(* What an opening absorbs before its challenge. *)
OpenedAt(c, comm, comm_a, comm_c, messages, fresh) ==
  IpaChallenge(Put(c, "poly_com", comm), comm_a, comm_c, messages, fresh)

OpenKept(c, d, comm, comm_a, comm_c, messages) ==
  /\ AsksFor(c, d, {<<"poly_com", comm>>} \cup OpeningEntries(messages))
  /\ \A e, other : Extends(d, e) => OpenedAt(On(c, e), comm, comm_a, comm_c, messages, other) = On(d, e)

(* d is a channel that goes on where c is.                                  *)
LeadsTo(c, d) == ChannelOK(d) /\ Follows(c, d)

(* The fold. *)
FoldTaken(sent, c, d) ==
  \E fresh \in Field : d = FoldChallenge(c, sent.random_U, sent.U2, sent.comm_T, fresh)
FoldAgain(sent, c, d) ==
  /\ LeadsTo(c, d)
  /\ LastAnswer(d) \in Field
  /\ \A e : Extends(d, e) =>
       /\ LastAnswer(On(d, e)) = LastAnswer(d)
       /\ \A f : FoldTaken(sent, On(c, e), f) => f = On(d, e)

LEMMA FoldRepeats ==
  ASSUME NEW c, ChannelOK(c), NEW sent, NEW d, FoldTaken(sent, c, d)
  PROVE  FoldAgain(sent, c, d)
  <1> DEFINE A == sent.random_U
             B == sent.U2
             T == sent.comm_T
  <1>1. PICK fresh \in Field : d = FoldChallenge(c, A, B, T, fresh)
    BY DEF FoldTaken
  <1> HIDE DEF A, B, T
  <1>2. /\ AsksFor(c, d, FoldEntries(A, B, T))
        /\ \A e, other : Extends(d, e) => FoldChallenge(On(c, e), A, B, T, other) = On(d, e)
    BY <1>1, FoldChallengeFacts
  <1>3. /\ Follows(c, d) /\ ChannelOK(d) /\ LastAnswer(d) \in Field
        /\ \A e : Extends(d, e) => LastAnswer(On(d, e)) = LastAnswer(d)
    BY <1>2 DEF AsksFor, Follows, Extends
  <1>4. ASSUME NEW e, Extends(d, e), NEW f, FoldTaken(sent, On(c, e), f) PROVE f = On(d, e)
    <2>1. PICK other \in Field : f = FoldChallenge(On(c, e), A, B, T, other)
      BY <1>4 DEF FoldTaken, A, B, T
    <2> QED
      BY <1>2, <1>4, <2>1
  <1> QED
    BY <1>3, <1>4 DEF FoldAgain, LeadsTo

(* u and X of the folded instance are absorbed before it. *)
LEMMA OpenedRepeats ==
  ASSUME NEW c, ChannelOK(c), NEW u, NEW X
  PROVE  /\ ChannelOK(Opened(c, u, X)) /\ Follows(c, Opened(c, u, X))
         /\ \A e : Opened(On(c, e), u, X) = On(Opened(c, u, X), e)
  <1>1. PutsTwo(c, Opened(c, u, X), "u_relaxed", u, "X_relaxed", X)
    BY PutTwoFacts, Zenon DEF Opened
  <1> QED
    BY <1>1 DEF PutsTwo, Opened

(* The folded u and X, from the messages of the fold and its challenge.     *)
FoldedU(sent, c) == Plus(sent.random_U.u, LastAnswer(c))
FoldedX(sent, c) == Scaled(sent.random_U.X, sent.U2.X, LastAnswer(c))

=============================================================================
