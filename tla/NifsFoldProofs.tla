--------------------------- MODULE NifsFoldProofs ---------------------------
(***************************************************************************)
(* Proofs about module NifsFold, for every number of instances: the        *)
(* in-place folding keeps, at every step of every interleaving of its      *)
(* workers, the layers that the rounds to come need, and the loop sends    *)
(* and returns what module FoldSpec promises.                              *)
(*                                                                         *)
(* Indices of layers and strings of bits are two views of the same thing;  *)
(* the first part of the module relates them.  The second part evaluates   *)
(* the folds of one round on layers of a known form, the third the loops   *)
(* that move layers, and the last is the invariant of the loop.            *)
(***************************************************************************)
EXTENDS NifsFold, OperatorFacts

-----------------------------------------------------------------------------
(* Strings of bits *)

Strings(len) == [1 .. len -> {0, 1}]

(* A string of a known length is a sequence. *)
LEMMA StringsAreSequences ==
  ASSUME NEW len \in Nat, NEW s \in Strings(len)
  PROVE  s \in Seq({0, 1}) /\ Len(s) = len /\ s \in Seq(Nat)
  <1>1. s \in Seq({0, 1}) /\ Len(s) = len
    BY SeqDef DEF Strings
  <1>2. s \in Seq(Nat)
    BY <1>1, SeqMonotonic, {0, 1} \subseteq Nat
  <1> QED
    BY <1>1, <1>2

(* Concatenation adds lengths, and puts one string behind the other. *)
LEMMA StringConcat ==
  ASSUME NEW p \in Nat, NEW q \in Nat, NEW a \in Strings(p), NEW b \in Strings(q)
  PROVE  /\ a \o b \in Strings(p + q)
         /\ \A i \in 1 .. p + q : (a \o b)[i] = IF i <= p THEN a[i] ELSE b[i - p]
  <1>1. a \in Seq({0, 1}) /\ Len(a) = p /\ b \in Seq({0, 1}) /\ Len(b) = q
    BY StringsAreSequences
  <1>2. /\ a \o b \in Seq({0, 1})
        /\ Len(a \o b) = p + q
        /\ \A i \in 1 .. p + q : (a \o b)[i] = IF i <= p THEN a[i] ELSE b[i - p]
    BY <1>1, ConcatProperties
  <1>3. a \o b \in [1 .. p + q -> {0, 1}]
    BY <1>2, LenProperties
  <1> QED
    BY <1>2, <1>3 DEF Strings

(* The singletons and the empty string. *)
LEMMA ShortStrings ==
  /\ <<>> \in Strings(0)
  /\ \A s \in Strings(0) : s = <<>>
  /\ \A b \in {0, 1} : <<b>> \in Strings(1) /\ <<b>>[1] = b
  <1>1. <<>> \in Strings(0)
    BY DEF Strings
  <1>2. \A s \in Strings(0) : s = <<>>
    BY DEF Strings
  <1>3. ASSUME NEW b \in {0, 1} PROVE <<b>> \in Strings(1) /\ <<b>>[1] = b
    BY DEF Strings
  <1> QED
    BY <1>1, <1>2, <1>3

(* Strings that agree at every position. *)
LEMMA StringsEqual ==
  ASSUME NEW len \in Nat, NEW a \in Strings(len), NEW b \in Strings(len),
         \A i \in 1 .. len : a[i] = b[i]
  PROVE  a = b
  BY DEF Strings

(* Halves of numbers, and of the powers of two. *)
LEMMA Halving ==
  ASSUME NEW k \in Nat, NEW b \in {0, 1}, NEW p \in Nat \ {0}
  PROVE  /\ (2 * k + b) \div (2 * p) = k \div p
         /\ (2 * k + b) % 2 = b
         /\ (2 * k + b) \div 1 = 2 * k + b
  OBVIOUS

LEMMA Halves ==
  ASSUME NEW v \in Nat
  PROVE  \E k \in Nat, b \in {0, 1} : v = 2 * k + b
  <1>1. v \div 2 \in Nat /\ v % 2 \in {0, 1} /\ v = 2 * (v \div 2) + (v % 2)
    OBVIOUS
  <1> QED
    BY <1>1

(* Powers are positive. *)
LEMMA PowersArePositive == \A k \in Nat : PowerOfTwo[k] \in Nat \ {0}
  BY PowerFacts

(* Bits reads a number as a string. *)
LEMMA BitsType ==
  ASSUME NEW k \in Nat, NEW len \in Nat
  PROVE  Bits(k, len) \in Strings(len)
  <1>1. ASSUME NEW s \in 1 .. len PROVE (k \div PowerOfTwo[s - 1]) % 2 \in {0, 1}
    <2>1. s - 1 \in Nat
      OBVIOUS
    <2>2. PowerOfTwo[s - 1] \in Nat \ {0}
      BY <2>1, PowersArePositive
    <2>3. k \div PowerOfTwo[s - 1] \in Nat
      BY <2>2, Division
    <2> QED
      BY <2>3
  <1> QED
    BY <1>1 DEF Bits, Strings

LEMMA BitsCons ==
  ASSUME NEW k \in Nat, NEW b \in {0, 1}, NEW len \in Nat
  PROVE  Bits(2 * k + b, len + 1) = <<b>> \o Bits(k, len)
  <1> DEFINE x == Bits(2 * k + b, len + 1)
             y == <<b>> \o Bits(k, len)
  <1>1. x \in Strings(len + 1)
    BY BitsType
  <1>2. Bits(k, len) \in Strings(len) /\ <<b>> \in Strings(1) /\ <<b>>[1] = b
    BY BitsType, ShortStrings
  <1>3. /\ y \in Strings(1 + len)
        /\ \A i \in 1 .. 1 + len : y[i] = IF i <= 1 THEN <<b>>[i] ELSE Bits(k, len)[i - 1]
    <2> HIDE DEF y
    <2>1. y = <<b>> \o Bits(k, len)
      BY DEF y
    <2> QED
      BY <1>2, <2>1, StringConcat
  <1>4. ASSUME NEW i \in 1 .. len + 1 PROVE x[i] = y[i]
    <2>1. x[i] = ((2 * k + b) \div PowerOfTwo[i - 1]) % 2
      BY DEF Bits
    <2>2. CASE i = 1
      <3>1. PowerOfTwo[i - 1] = 1
        <4>1. i - 1 = 0
          BY <2>2
        <4> QED
          BY <4>1, PowerFacts
      <3>2. ((2 * k + b) \div 1) % 2 = b
        OBVIOUS
      <3>3. x[i] = b
        BY <2>1, <3>1, <3>2
      <3>4. y[i] = <<b>>[1]
        <4> HIDE DEF y
        <4>1. 1 \in 1 .. 1 + len
          OBVIOUS
        <4> QED
          BY <1>3, <2>2, <4>1
      <3> QED
        BY <3>3, <3>4, <1>2
    <2>3. CASE i # 1
      <3>1. i - 1 \in 1 .. len /\ i - 2 \in Nat /\ i - 1 = (i - 2) + 1 /\ (i - 1) - 1 = i - 2
        BY <2>3
      <3>2. PowerOfTwo[i - 1] = 2 * PowerOfTwo[i - 2] /\ PowerOfTwo[i - 2] \in Nat \ {0}
        BY <3>1, PowerFacts, PowersArePositive
      <3>3. (2 * k + b) \div PowerOfTwo[i - 1] = k \div PowerOfTwo[i - 2]
        BY ZenonT(60), <3>2, Halving
      <3>4. Bits(k, len)[i - 1] = (k \div PowerOfTwo[i - 2]) % 2
        BY <3>1 DEF Bits
      <3>5. y[i] = Bits(k, len)[i - 1]
        <4> HIDE DEF y
        <4> QED
          BY <1>3, <3>1
      <3> QED
        BY <2>1, <3>3, <3>4, <3>5
    <2> QED
      BY <2>2, <2>3
  <1> HIDE DEF x, y
  <1>5. x = y
    BY <1>1, <1>3, <1>4, StringsEqual
  <1> QED
    BY <1>5 DEF x, y

(* The string of no bits, and of one. *)
LEMMA FewBits ==
  /\ \A k \in Nat : Bits(k, 0) = <<>>
  /\ \A b \in {0, 1} : Bits(b, 1) = <<b>>
  <1>1. ASSUME NEW k \in Nat PROVE Bits(k, 0) = <<>>
    BY BitsType, ShortStrings
  <1>2. ASSUME NEW b \in {0, 1} PROVE Bits(b, 1) = <<b>>
    <2>1. Bits(b, 1) \in Strings(1) /\ <<b>> \in Strings(1) /\ <<b>>[1] = b
      BY BitsType, ShortStrings
    <2>2. Bits(b, 1)[1] = (b \div PowerOfTwo[0]) % 2
      BY DEF Bits
    <2>3. (b \div 1) % 2 = b
      OBVIOUS
    <2>4. Bits(b, 1)[1] = b
      BY <2>2, <2>3, PowerFacts
    <2> QED
      BY <2>1, <2>4, StringsEqual
  <1> QED
    BY <1>1, <1>2

(* A number below P[x + 1] is one below P[x], doubled, and a bit. *)
LEMMA HalfBelow ==
  ASSUME NEW x \in Nat, NEW v \in 0 .. PowerOfTwo[x + 1] - 1
  PROVE  \E k \in 0 .. PowerOfTwo[x] - 1, b \in {0, 1} : v = 2 * k + b
  <1>1. PowerOfTwo[x + 1] = 2 * PowerOfTwo[x] /\ PowerOfTwo[x] \in Nat
    BY PowerFacts
  <1>2. PICK k \in Nat, b \in {0, 1} : v = 2 * k + b
    <2>1. v \in Nat
      BY <1>1
    <2> QED
      BY <2>1, Halves
  <1>3. k \in 0 .. PowerOfTwo[x] - 1
    BY <1>1, <1>2
  <1> QED
    BY <1>2, <1>3

LEMMA DoubleBelow ==
  ASSUME NEW x \in Nat, NEW k \in 0 .. PowerOfTwo[x] - 1, NEW b \in {0, 1}
  PROVE  2 * k + b \in 0 .. PowerOfTwo[x + 1] - 1
  <1>1. PowerOfTwo[x + 1] = 2 * PowerOfTwo[x] /\ PowerOfTwo[x] \in Nat
    BY PowerFacts
  <1> QED
    BY <1>1

(* The lowest x bits of v + P[x] * k are those of v, the others those of k. *)
BitsSplitAt(x) ==
  \A len \in Nat, k \in Nat, v \in 0 .. PowerOfTwo[x] - 1 :
    Bits(v + PowerOfTwo[x] * k, x + len) = Bits(v, x) \o Bits(k, len)

LEMMA BitsSplit == \A x \in Nat : BitsSplitAt(x)
  <1> DEFINE S == {x \in Nat : BitsSplitAt(x)}
  <1>1. 0 \in S
    <2>1. ASSUME NEW len \in Nat, NEW k \in Nat, NEW v \in 0 .. PowerOfTwo[0] - 1
          PROVE  Bits(v + PowerOfTwo[0] * k, 0 + len) = Bits(v, 0) \o Bits(k, len)
      <3>1. v = 0 /\ v + PowerOfTwo[0] * k = k /\ 0 + len = len
        BY PowerFacts
      <3>2. Bits(v, 0) = <<>>
        BY <3>1, FewBits
      <3>3. Bits(k, len) \in Seq({0, 1})
        BY BitsType, StringsAreSequences
      <3>4. <<>> \o Bits(k, len) = Bits(k, len)
        BY <3>3, ConcatEmptySeq
      <3> QED
        BY <3>1, <3>2, <3>4
    <2> QED
      BY <2>1 DEF BitsSplitAt
  <1>2. ASSUME NEW x \in Nat, x \in S PROVE x + 1 \in S
    <2>1. ASSUME NEW len \in Nat, NEW k \in Nat, NEW v \in 0 .. PowerOfTwo[x + 1] - 1
          PROVE  Bits(v + PowerOfTwo[x + 1] * k, (x + 1) + len) = Bits(v, x + 1) \o Bits(k, len)
      <3>1. PICK w \in 0 .. PowerOfTwo[x] - 1, b \in {0, 1} : v = 2 * w + b
        BY HalfBelow
      <3>2. PowerOfTwo[x + 1] = 2 * PowerOfTwo[x] /\ PowerOfTwo[x] \in Nat
        BY PowerFacts
      <3>3. PowerOfTwo[x] * k \in Nat /\ (2 * PowerOfTwo[x]) * k = 2 * (PowerOfTwo[x] * k)
        BY <3>2
      <3> DEFINE u == w + PowerOfTwo[x] * k
      <3>4. u \in Nat /\ v + PowerOfTwo[x + 1] * k = 2 * u + b /\ (x + 1) + len = (x + len) + 1
            /\ x + len \in Nat /\ w \in Nat
        BY <3>1, <3>2, <3>3
      <3>5. Bits(u, x + len) = Bits(w, x) \o Bits(k, len)
        <4>1. BitsSplitAt(x)
          BY <1>2
        <4> QED
          BY <4>1 DEF BitsSplitAt
      <3> HIDE DEF u
      <3>6. Bits(v + PowerOfTwo[x + 1] * k, (x + 1) + len) = <<b>> \o Bits(u, x + len)
        <4>1. Bits(2 * u + b, (x + len) + 1) = <<b>> \o Bits(u, x + len)
          BY <3>4, BitsCons
        <4> QED
          BY <3>4, <4>1, Zenon
      <3>7. Bits(v, x + 1) = <<b>> \o Bits(w, x)
        BY <3>1, <3>4, BitsCons
      <3>8. <<b>> \in Seq({0, 1}) /\ Bits(w, x) \in Seq({0, 1}) /\ Bits(k, len) \in Seq({0, 1})
        BY <3>4, BitsType, ShortStrings, StringsAreSequences
      <3>9. (<<b>> \o Bits(w, x)) \o Bits(k, len) = <<b>> \o (Bits(w, x) \o Bits(k, len))
        BY <3>8, ConcatAssociative
      <3>10. Bits(v + PowerOfTwo[x + 1] * k, (x + 1) + len) = <<b>> \o (Bits(w, x) \o Bits(k, len))
        BY <3>5, <3>6, Zenon
      <3>11. Bits(v, x + 1) \o Bits(k, len) = <<b>> \o (Bits(w, x) \o Bits(k, len))
        BY <3>7, <3>9, Zenon
      <3> QED
        BY <3>10, <3>11, Zenon
    <2>2. BitsSplitAt(x + 1)
      BY <2>1, Zenon DEF BitsSplitAt
    <2> QED
      BY <2>2
  <1> HIDE DEF S
  <1>3. \A x \in Nat : x \in S
    BY <1>1, <1>2, NatSetInduction
  <1> QED
    BY <1>3 DEF S

(* Every string is the bits of a number below the power of its length. *)
StringsAreBitsAt(len) ==
  \A s \in Strings(len) : \E k \in 0 .. PowerOfTwo[len] - 1 : s = Bits(k, len)

LEMMA StringsAreBits == \A len \in Nat : StringsAreBitsAt(len)
  <1> DEFINE S == {len \in Nat : StringsAreBitsAt(len)}
  <1>1. 0 \in S
    <2>1. ASSUME NEW s \in Strings(0) PROVE \E k \in 0 .. PowerOfTwo[0] - 1 : s = Bits(k, 0)
      <3>1. s = Bits(0, 0) /\ 0 \in 0 .. PowerOfTwo[0] - 1
        BY ShortStrings, FewBits, PowerFacts
      <3> QED
        BY <3>1
    <2> QED
      BY <2>1 DEF StringsAreBitsAt
  <1>2. ASSUME NEW len \in Nat, len \in S PROVE len + 1 \in S
    <2>1. ASSUME NEW s \in Strings(len + 1)
          PROVE  \E k \in 0 .. PowerOfTwo[len + 1] - 1 : s = Bits(k, len + 1)
      <3> DEFINE rest == [i \in 1 .. len |-> s[i + 1]]
      <3>1. s[1] \in {0, 1} /\ rest \in Strings(len)
        <4>1. \A i \in 1 .. len : i + 1 \in 1 .. len + 1
          OBVIOUS
        <4>2. 1 \in 1 .. len + 1
          OBVIOUS
        <4> QED
          BY <4>1, <4>2 DEF Strings
      <3>2. PICK k \in 0 .. PowerOfTwo[len] - 1 : rest = Bits(k, len)
        <4> HIDE DEF rest
        <4> QED
          BY <1>2, <3>1 DEF StringsAreBitsAt
      <3>3. k \in Nat /\ PowerOfTwo[len] \in Nat
        BY PowerFacts
      <3>4. Bits(2 * k + s[1], len + 1) = <<s[1]>> \o rest
        BY ZenonT(60), <3>1, <3>2, <3>3, BitsCons
      <3>5. <<s[1]>> \in Strings(1) /\ <<s[1]>>[1] = s[1]
        BY <3>1, ShortStrings
      <3>6. /\ <<s[1]>> \o rest \in Strings(1 + len)
            /\ \A i \in 1 .. 1 + len :
                 (<<s[1]>> \o rest)[i] = IF i <= 1 THEN <<s[1]>>[i] ELSE rest[i - 1]
        <4> HIDE DEF rest
        <4> QED
          BY <3>1, <3>5, StringConcat
      <3>7. ASSUME NEW i \in 1 .. len + 1 PROVE (<<s[1]>> \o rest)[i] = s[i]
        <4> DEFINE q == <<s[1]>> \o rest
        <4>1. q[i] = IF i <= 1 THEN <<s[1]>>[i] ELSE rest[i - 1]
          BY <3>6
        <4>2. i # 1 => i - 1 \in 1 .. len /\ (i - 1) + 1 = i
          OBVIOUS
        <4> HIDE DEF q
        <4>3. q[i] = s[i]
          BY <3>5, <4>1, <4>2
        <4> QED
          BY <4>3 DEF q
      <3>8. s = Bits(2 * k + s[1], len + 1)
        <4> HIDE DEF rest
        <4>1. <<s[1]>> \o rest \in Strings(len + 1)
          BY <3>6
        <4> DEFINE q == <<s[1]>> \o rest
        <4>2. q \in Strings(len + 1) /\ s \in Strings(len + 1) /\ len + 1 \in Nat
          BY <4>1
        <4>3. \A i \in 1 .. len + 1 : q[i] = s[i]
          BY <3>7
        <4> HIDE DEF q
        <4>4. q = s
          BY <4>2, <4>3, StringsEqual
        <4> QED
          BY <3>4, <4>4, Zenon DEF q
      <3>9. 2 * k + s[1] \in 0 .. PowerOfTwo[len + 1] - 1
        BY <3>1, DoubleBelow
      <3> QED
        BY <3>8, <3>9
    <2> QED
      BY <2>1 DEF StringsAreBitsAt
  <1> HIDE DEF S
  <1>3. \A len \in Nat : len \in S
    BY <1>1, <1>2, NatSetInduction
  <1> QED
    BY <1>3 DEF S

(* And of one number only. *)
BitsInjectiveAt(len) ==
  \A j \in 0 .. PowerOfTwo[len] - 1, k \in 0 .. PowerOfTwo[len] - 1 :
    Bits(j, len) = Bits(k, len) => j = k

LEMMA ConsCancels ==
  ASSUME NEW len \in Nat, NEW x \in Strings(len), NEW y \in Strings(len),
         NEW a \in {0, 1}, NEW b \in {0, 1}, <<a>> \o x = <<b>> \o y
  PROVE  a = b /\ x = y
  <1> DEFINE f == <<a>> \o x
             g == <<b>> \o y
  <1>1. <<a>> \in Strings(1) /\ <<b>> \in Strings(1) /\ <<a>>[1] = a /\ <<b>>[1] = b
    BY ShortStrings
  <1>2. /\ \A i \in 1 .. 1 + len : f[i] = IF i <= 1 THEN <<a>>[i] ELSE x[i - 1]
        /\ \A i \in 1 .. 1 + len : g[i] = IF i <= 1 THEN <<b>>[i] ELSE y[i - 1]
    <2>1. \A i \in 1 .. 1 + len : (<<a>> \o x)[i] = IF i <= 1 THEN <<a>>[i] ELSE x[i - 1]
      BY <1>1, StringConcat
    <2>2. \A i \in 1 .. 1 + len : (<<b>> \o y)[i] = IF i <= 1 THEN <<b>>[i] ELSE y[i - 1]
      BY <1>1, StringConcat
    <2> QED
      BY <2>1, <2>2
  <1>3. f = g
    OBVIOUS
  <1> HIDE DEF f, g
  <1>4. a = b
    <2>1. 1 \in 1 .. 1 + len
      OBVIOUS
    <2>2. f[1] = <<a>>[1] /\ g[1] = <<b>>[1]
      BY <1>2, <2>1
    <2> QED
      BY <1>1, <1>3, <2>2
  <1>5. ASSUME NEW i \in 1 .. len PROVE x[i] = y[i]
    <2>1. i + 1 \in 1 .. 1 + len /\ ~ (i + 1 <= 1) /\ (i + 1) - 1 = i
      OBVIOUS
    <2>2. f[i + 1] = x[i] /\ g[i + 1] = y[i]
      BY <1>2, <2>1
    <2> QED
      BY <1>3, <2>2
  <1> QED
    BY <1>4, <1>5, StringsEqual

LEMMA BitsInjective == \A len \in Nat : BitsInjectiveAt(len)
  <1> DEFINE S == {len \in Nat : BitsInjectiveAt(len)}
  <1>1. 0 \in S
    BY PowerFacts DEF BitsInjectiveAt
  <1>2. ASSUME NEW len \in Nat, len \in S PROVE len + 1 \in S
    <2>1. ASSUME NEW j \in 0 .. PowerOfTwo[len + 1] - 1, NEW k \in 0 .. PowerOfTwo[len + 1] - 1,
                 Bits(j, len + 1) = Bits(k, len + 1)
          PROVE  j = k
      <3>1. PICK x \in 0 .. PowerOfTwo[len] - 1, a \in {0, 1} : j = 2 * x + a
        BY HalfBelow
      <3>2. PICK y \in 0 .. PowerOfTwo[len] - 1, b \in {0, 1} : k = 2 * y + b
        BY HalfBelow
      <3>3. x \in Nat /\ y \in Nat
        BY PowerFacts
      <3>4. <<a>> \o Bits(x, len) = <<b>> \o Bits(y, len)
        <4>1. Bits(2 * x + a, len + 1) = <<a>> \o Bits(x, len)
          BY <3>3, BitsCons
        <4>2. Bits(2 * y + b, len + 1) = <<b>> \o Bits(y, len)
          BY <3>3, BitsCons
        <4> QED
          BY <2>1, <3>1, <3>2, <4>1, <4>2, Zenon
      <3>5. Bits(x, len) \in Strings(len) /\ Bits(y, len) \in Strings(len)
        BY <3>3, BitsType
      <3>6. a = b /\ Bits(x, len) = Bits(y, len)
        BY <3>4, <3>5, ConsCancels
      <3>7. x = y
        BY <1>2, <3>6 DEF BitsInjectiveAt
      <3> QED
        BY <3>1, <3>2, <3>6, <3>7
    <2> QED
      BY <2>1 DEF BitsInjectiveAt
  <1> HIDE DEF S
  <1>3. \A len \in Nat : len \in S
    BY <1>1, <1>2, NatSetInduction
  <1> QED
    BY <1>3 DEF S

-----------------------------------------------------------------------------
(* The index that a string stands for *)

Value(s) == CHOOSE k \in 0 .. PowerOfTwo[Len(s)] - 1 : s = Bits(k, Len(s))

LEMMA ValueOfBits ==
  ASSUME NEW len \in Nat, NEW k \in 0 .. PowerOfTwo[len] - 1
  PROVE  Value(Bits(k, len)) = k
  <1>1. k \in Nat
    BY PowerFacts
  <1>2. Bits(k, len) \in Strings(len)
    BY <1>1, BitsType
  <1> DEFINE s == Bits(k, len)
  <1>3. Len(s) = len
    BY <1>2, StringsAreSequences
  <1>4. \A j \in 0 .. PowerOfTwo[len] - 1 : s = Bits(j, len) => j = k
    <2>1. BitsInjectiveAt(len)
      BY BitsInjective
    <2> QED
      BY <2>1 DEF BitsInjectiveAt
  <1>5. s = Bits(k, len)
    OBVIOUS
  <1> HIDE DEF s
  <1>6. Value(s) = CHOOSE j \in 0 .. PowerOfTwo[len] - 1 : s = Bits(j, len)
    BY <1>3, Zenon DEF Value
  <1>7. Value(s) = k
    BY <1>4, <1>5, <1>6
  <1> QED
    BY <1>7 DEF s

(* The parts of a string with a bit in front. *)
LEMMA ConsParts ==
  ASSUME NEW len \in Nat, NEW x \in Strings(len), NEW b \in {0, 1}
  PROVE  /\ (<<b>> \o x)[1] = b
         /\ Tail(<<b>> \o x) = x
         /\ <<b>> \o x # <<>>
         /\ <<b>> \o x \in Strings(len + 1)
  <1> DEFINE y == <<b>> \o x
  <1>1. <<b>> \in Strings(1) /\ <<b>>[1] = b
    BY ShortStrings
  <1>2. /\ y \in Strings(1 + len)
        /\ \A i \in 1 .. 1 + len : y[i] = IF i <= 1 THEN <<b>>[i] ELSE x[i - 1]
    <2>1. 1 \in Nat
      OBVIOUS
    <2> QED
      BY <1>1, <2>1, StringConcat
  <1> HIDE DEF y
  <1>3. 1 + len = len + 1 /\ 1 \in 1 .. 1 + len /\ 1 + len \in Nat
    OBVIOUS
  <1>4. y[1] = b
    BY <1>1, <1>2, <1>3
  <1>5. y \in Seq({0, 1}) /\ Len(y) = len + 1
    <2>1. y \in Strings(len + 1) /\ len + 1 \in Nat
      BY <1>2, <1>3
    <2> QED
      BY <2>1, StringsAreSequences
  <1>6. y # <<>>
    BY <1>5, EmptySeq
  <1>7. /\ Tail(y) \in Seq({0, 1}) /\ Len(Tail(y)) = len
        /\ \A i \in 1 .. len : Tail(y)[i] = y[i + 1]
    BY <1>5, <1>6, HeadTailProperties
  <1>8. \A i \in 1 .. len : Tail(y)[i] = x[i]
    <2>1. ASSUME NEW i \in 1 .. len PROVE Tail(y)[i] = x[i]
      <3>1. i + 1 \in 1 .. 1 + len /\ ~ (i + 1 <= 1) /\ (i + 1) - 1 = i
        OBVIOUS
      <3>2. y[i + 1] = x[i]
        BY <1>2, <3>1
      <3> QED
        BY <1>7, <3>2
    <2> QED
      BY <2>1
  <1>9. x \in Seq({0, 1}) /\ Len(x) = len
    BY StringsAreSequences
  <1>10. Tail(y) = x
    BY <1>7, <1>8, <1>9, SeqEqual
  <1>11. y \in Strings(len + 1)
    BY <1>2, <1>3
  <1> QED
    BY <1>4, <1>6, <1>10, <1>11 DEF y

(* The recursive definition of IndexOf defines a function. *)
LEMMA IndexUnfolds ==
  Promise!IndexOf =
    [s \in Seq({0, 1}) |-> IF s = <<>> THEN 0 ELSE s[1] + 2 * Promise!IndexOf[Tail(s)]]
  <1> DEFINE f == [s \in Seq({0, 1}) |-> Value(s)]
  <1>1. ASSUME NEW s \in Seq({0, 1})
        PROVE  f[s] = IF s = <<>> THEN 0 ELSE s[1] + 2 * f[Tail(s)]
    <2>1. Len(s) \in Nat /\ s \in Strings(Len(s))
      BY LenProperties DEF Strings
    <2>2. CASE Len(s) = 0
      <3>1. s = <<>> /\ s = Bits(0, 0) /\ 0 \in 0 .. PowerOfTwo[0] - 1
        BY <2>1, <2>2, ShortStrings, FewBits, PowerFacts
      <3>2. Value(Bits(0, 0)) = 0
        BY <3>1, ValueOfBits
      <3> QED
        BY <3>1, <3>2
    <2>3. CASE Len(s) # 0
      <3>1. PICK len \in Nat : Len(s) = len + 1
        <4>1. Len(s) - 1 \in Nat /\ Len(s) = (Len(s) - 1) + 1
          BY <2>1, <2>3
        <4> QED
          BY <4>1
      <3>2. PICK j \in 0 .. PowerOfTwo[len + 1] - 1 : s = Bits(j, len + 1)
        <4>1. StringsAreBitsAt(len + 1) /\ s \in Strings(len + 1)
          BY <2>1, <3>1, StringsAreBits
        <4> QED
          BY <4>1 DEF StringsAreBitsAt
      <3>3. PICK k \in 0 .. PowerOfTwo[len] - 1, b \in {0, 1} : j = 2 * k + b
        BY HalfBelow
      <3>4. k \in Nat
        BY PowerFacts
      <3>5. s = <<b>> \o Bits(k, len)
        BY <3>2, <3>3, <3>4, BitsCons
      <3>6. s[1] = b /\ Tail(s) = Bits(k, len) /\ s # <<>>
        <4>1. Bits(k, len) \in Strings(len)
          BY <3>4, BitsType
        <4> HIDE DEF f
        <4> QED
          BY <3>5, <4>1, ConsParts
      <3>7. Value(s) = j
        <4>1. len + 1 \in Nat
          OBVIOUS
        <4> QED
          BY <3>2, <4>1, ValueOfBits
      <3>8. Value(Tail(s)) = k
        BY <3>6, ValueOfBits
      <3>9. Tail(s) \in Seq({0, 1})
        BY <3>4, <3>6, BitsType, StringsAreSequences
      <3>10. f[s] = j /\ f[Tail(s)] = k
        BY <3>7, <3>8, <3>9
      <3> HIDE DEF f
      <3> QED
        BY <3>3, <3>6, <3>10
    <2> QED
      BY <2>2, <2>3
  <1>2. f = [s \in Seq({0, 1}) |-> IF s = <<>> THEN 0 ELSE s[1] + 2 * f[Tail(s)]]
    <2>1. f = [s \in Seq({0, 1}) |-> f[s]]
      OBVIOUS
    <2> HIDE DEF f
    <2> QED
      BY <1>1, <2>1
  <1>3. \E g : g = [s \in Seq({0, 1}) |-> IF s = <<>> THEN 0 ELSE s[1] + 2 * g[Tail(s)]]
    <2> HIDE DEF f
    <2> QED
      BY <1>2
  <1> QED
    BY <1>3, Zenon DEF Promise!IndexOf

(* The index of the string of an index. *)
IndexIsValueAt(len) == \A k \in 0 .. PowerOfTwo[len] - 1 : Promise!IndexOf[Bits(k, len)] = k

LEMMA IndexIsValue == \A len \in Nat : IndexIsValueAt(len)
  <1> DEFINE S == {len \in Nat : IndexIsValueAt(len)}
  <1>1. 0 \in S
    <2>1. ASSUME NEW k \in 0 .. PowerOfTwo[0] - 1 PROVE Promise!IndexOf[Bits(k, 0)] = k
      <3>1. k = 0
        BY PowerFacts
      <3>2. Bits(k, 0) = <<>> /\ <<>> \in Seq({0, 1})
        BY <3>1, FewBits, EmptySeq
      <3> QED
        BY <3>1, <3>2, IndexUnfolds
    <2>2. IndexIsValueAt(0)
      BY <2>1, Zenon DEF IndexIsValueAt
    <2> QED
      BY <2>2
  <1>2. ASSUME NEW len \in Nat, len \in S PROVE len + 1 \in S
    <2>1. ASSUME NEW j \in 0 .. PowerOfTwo[len + 1] - 1
          PROVE  Promise!IndexOf[Bits(j, len + 1)] = j
      <3>1. PICK k \in 0 .. PowerOfTwo[len] - 1, b \in {0, 1} : j = 2 * k + b
        BY HalfBelow
      <3>2. k \in Nat
        BY PowerFacts
      <3>3. Bits(k, len) \in Strings(len)
        BY <3>2, BitsType
      <3> DEFINE s == <<b>> \o Bits(k, len)
      <3>4. Bits(j, len + 1) = s
        BY <3>1, <3>2, BitsCons
      <3>5. s[1] = b /\ Tail(s) = Bits(k, len) /\ s # <<>> /\ s \in Strings(len + 1)
        BY <3>3, ConsParts
      <3> HIDE DEF s
      <3>6. s \in Seq({0, 1})
        <4>1. len + 1 \in Nat
          OBVIOUS
        <4> QED
          BY <3>5, <4>1, StringsAreSequences
      <3>7. Promise!IndexOf[s] = s[1] + 2 * Promise!IndexOf[Tail(s)]
        BY <3>5, <3>6, IndexUnfolds
      <3>8. Promise!IndexOf[Tail(s)] = k
        <4>1. IndexIsValueAt(len)
          BY <1>2
        <4> QED
          BY <3>5, <4>1 DEF IndexIsValueAt
      <3> QED
        BY <3>1, <3>4, <3>5, <3>7, <3>8
    <2>2. IndexIsValueAt(len + 1)
      BY <2>1, Zenon DEF IndexIsValueAt
    <2> QED
      BY <2>2
  <1> HIDE DEF S
  <1>3. \A len \in Nat : len \in S
    BY <1>1, <1>2, NatSetInduction
  <1> QED
    BY <1>3 DEF S

-----------------------------------------------------------------------------
(* Layers *)

(* The instance at a position of the padded batch of count instances.       *)
AtPosition(count, i) == IF i < count THEN i ELSE 0

(* The layer with bits bits bound that stands for position i of what is     *)
(* left of the batch: the combination of the 2^bits layers it came from.    *)
Layer(count, bits, i) ==
  {<<part, Bits(v, bits), AtPosition(count, v + PowerOfTwo[bits] * i)>> :
     part \in {"small", "large"}, v \in 0 .. PowerOfTwo[bits] - 1}

(* What it is to be a term of a layer, and of a layer with a string behind  *)
(* the bits of each term.                                                    *)
IsTerm(x, count, bits, i, w) ==
  \E part \in {"small", "large"} : \E v \in 0 .. PowerOfTwo[bits] - 1 :
    x = <<part, Bits(v, bits) \o w, AtPosition(count, v + PowerOfTwo[bits] * i)>>

IsPlainTerm(x, count, bits, i) ==
  \E part \in {"small", "large"} : \E v \in 0 .. PowerOfTwo[bits] - 1 :
    x = <<part, Bits(v, bits), AtPosition(count, v + PowerOfTwo[bits] * i)>>

LEMMA TermsOfLayer ==
  ASSUME NEW count, NEW bits, NEW i, NEW x
  PROVE  x \in Layer(count, bits, i) <=> IsPlainTerm(x, count, bits, i)
  BY DEF Layer, IsPlainTerm

LEMMA WeightedTerms ==
  ASSUME NEW count, NEW bits, NEW i, NEW w, NEW x
  PROVE  x \in Weighted(Layer(count, bits, i), w) <=> IsTerm(x, count, bits, i, w)
  <1>1. x \in Weighted(Layer(count, bits, i), w) <=>
          \E y \in Layer(count, bits, i) : x = <<y[1], y[2] \o w, y[3]>>
    BY Zenon DEF Weighted
  <1>2. ASSUME NEW a, NEW b, NEW d
        PROVE  <<a, b, d>>[1] = a /\ <<a, b, d>>[2] = b /\ <<a, b, d>>[3] = d
    OBVIOUS
  <1>3. ASSUME NEW y \in Layer(count, bits, i), x = <<y[1], y[2] \o w, y[3]>>
        PROVE  IsTerm(x, count, bits, i, w)
    <2>1. PICK part \in {"small", "large"}, v \in 0 .. PowerOfTwo[bits] - 1 :
            y = <<part, Bits(v, bits), AtPosition(count, v + PowerOfTwo[bits] * i)>>
      <3>1. IsPlainTerm(y, count, bits, i)
        BY <1>3, TermsOfLayer, Zenon
      <3> QED
        BY <3>1, Zenon DEF IsPlainTerm
    <2>2. y[1] = part /\ y[2] = Bits(v, bits) /\ y[3] = AtPosition(count, v + PowerOfTwo[bits] * i)
      BY <2>1, <1>2, Zenon
    <2>3. x = <<part, Bits(v, bits) \o w, AtPosition(count, v + PowerOfTwo[bits] * i)>>
      BY <1>3, <2>2, Zenon
    <2> QED
      BY <2>3, Zenon DEF IsTerm
  <1>4. ASSUME IsTerm(x, count, bits, i, w)
        PROVE  \E y \in Layer(count, bits, i) : x = <<y[1], y[2] \o w, y[3]>>
    <2>1. PICK part \in {"small", "large"}, v \in 0 .. PowerOfTwo[bits] - 1 :
            x = <<part, Bits(v, bits) \o w, AtPosition(count, v + PowerOfTwo[bits] * i)>>
      BY <1>4, Zenon DEF IsTerm
    <2> DEFINE y == <<part, Bits(v, bits), AtPosition(count, v + PowerOfTwo[bits] * i)>>
    <2>2. y[1] = part /\ y[2] = Bits(v, bits) /\ y[3] = AtPosition(count, v + PowerOfTwo[bits] * i)
      OBVIOUS
    <2>3. y \in Layer(count, bits, i)
      <3>1. IsPlainTerm(y, count, bits, i)
        BY Zenon DEF IsPlainTerm
      <3> HIDE DEF y
      <3> QED
        BY <3>1, TermsOfLayer, Zenon
    <2> HIDE DEF y
    <2>4. x = <<y[1], y[2] \o w, y[3]>>
      BY <2>1, <2>2, Zenon
    <2> QED
      BY <2>3, <2>4
  <1> QED
    BY <1>1, <1>3, <1>4, Zenon

(* Appending the bits of e moves v + P * e into place. *)
LEMMA TermMoves ==
  ASSUME NEW count, NEW bits \in Nat, NEW i \in Nat, NEW e \in {0, 1},
         NEW v \in 0 .. PowerOfTwo[bits] - 1
  PROVE  /\ Bits(v, bits) \o <<e>> = Bits(v + PowerOfTwo[bits] * e, bits + 1)
         /\ v + PowerOfTwo[bits] * (2 * i + e)
              = (v + PowerOfTwo[bits] * e) + PowerOfTwo[bits + 1] * i
         /\ v + PowerOfTwo[bits] * e \in 0 .. PowerOfTwo[bits + 1] - 1
  <1>1. PowerOfTwo[bits + 1] = 2 * PowerOfTwo[bits] /\ PowerOfTwo[bits] \in Nat
    BY PowerFacts
  <1>2. BitsSplitAt(bits)
    BY BitsSplit
  <1>3. Bits(e, 1) = <<e>>
    BY FewBits
  <1>4. Bits(v + PowerOfTwo[bits] * e, bits + 1) = Bits(v, bits) \o Bits(e, 1)
    <2>1. e \in Nat /\ 1 \in Nat
      OBVIOUS
    <2> QED
      BY <1>2, <2>1, Zenon DEF BitsSplitAt
  <1>5. v + PowerOfTwo[bits] * e \in 0 .. PowerOfTwo[bits + 1] - 1
    BY <1>1
  <1>6. v + PowerOfTwo[bits] * (2 * i + e) = (v + PowerOfTwo[bits] * e) + PowerOfTwo[bits + 1] * i
    <2> DEFINE p == PowerOfTwo[bits]
    <2>1. p \in Nat /\ PowerOfTwo[bits + 1] = 2 * p
      BY <1>1
    <2> HIDE DEF p
    <2>2. v + p * (2 * i + e) = (v + p * e) + (2 * p) * i
      <3>1. v \in Int
        OBVIOUS
      <3>2. p * (2 * i + e) = p * e + (2 * p) * i
        BY <2>1
      <3>3. p * e \in Int /\ (2 * p) * i \in Int
        BY <2>1
      <3> QED
        BY <3>1, <3>2, <3>3
    <2> QED
      BY <2>1, <2>2 DEF p
  <1> QED
    BY <1>3, <1>4, <1>5, <1>6

(* Every index below the next power is that of a term of one of the halves. *)
LEMMA TermComesFrom ==
  ASSUME NEW bits \in Nat, NEW u \in 0 .. PowerOfTwo[bits + 1] - 1
  PROVE  \E v \in 0 .. PowerOfTwo[bits] - 1, e \in {0, 1} : u = v + PowerOfTwo[bits] * e
  <1>1. PowerOfTwo[bits + 1] = 2 * PowerOfTwo[bits] /\ PowerOfTwo[bits] \in Nat
    BY PowerFacts
  <1>2. CASE u < PowerOfTwo[bits]
    <2>1. u \in 0 .. PowerOfTwo[bits] - 1 /\ u = u + PowerOfTwo[bits] * 0
      BY <1>1, <1>2
    <2> QED
      BY <2>1
  <1>3. CASE u >= PowerOfTwo[bits]
    <2>1. u - PowerOfTwo[bits] \in 0 .. PowerOfTwo[bits] - 1
          /\ u = (u - PowerOfTwo[bits]) + PowerOfTwo[bits] * 1
      BY <1>1, <1>3
    <2> QED
      BY <2>1
  <1> QED
    BY <1>1, <1>2, <1>3

(* One step of the folding: the layers of a pair become one of the next     *)
(* round.                                                                   *)
LEMMA LayersAreNotEmpty ==
  ASSUME NEW count, NEW bits \in Nat, NEW i
  PROVE  Layer(count, bits, i) # {}
  <1>1. 0 \in 0 .. PowerOfTwo[bits] - 1
    BY PowersArePositive
  <1>2. <<"small", Bits(0, bits), AtPosition(count, 0 + PowerOfTwo[bits] * i)>> \in Layer(count, bits, i)
    <2>1. IsPlainTerm(<<"small", Bits(0, bits), AtPosition(count, 0 + PowerOfTwo[bits] * i)>>, count, bits, i)
      BY <1>1, Zenon DEF IsPlainTerm
    <2> QED
      BY <2>1, TermsOfLayer, Zenon
  <1> QED
    BY <1>2, Zenon

LEMMA FoldLayers ==
  ASSUME NEW count, NEW bits \in Nat, NEW i \in Nat
  PROVE  Fold(Layer(count, bits, 2 * i), Layer(count, bits, 2 * i + 1)) = Layer(count, bits + 1, i)
  <1> DEFINE lo == Layer(count, bits, 2 * i)
             hi == Layer(count, bits, 2 * i + 1)
             next == Layer(count, bits + 1, i)
             HalfOf(e) == Weighted(Layer(count, bits, 2 * i + e), <<e>>)
  <1>1. ASSUME NEW e \in {0, 1}, NEW x \in HalfOf(e) PROVE x \in next
    <2>0. IsTerm(x, count, bits, 2 * i + e, <<e>>)
      BY <1>1, WeightedTerms, Zenon
    <2>1. PICK part \in {"small", "large"}, v \in 0 .. PowerOfTwo[bits] - 1 :
            x = <<part, Bits(v, bits) \o <<e>>, AtPosition(count, v + PowerOfTwo[bits] * (2 * i + e))>>
      BY <2>0, Zenon DEF IsTerm
    <2> DEFINE u == v + PowerOfTwo[bits] * e
    <2>2. /\ Bits(v, bits) \o <<e>> = Bits(u, bits + 1)
          /\ v + PowerOfTwo[bits] * (2 * i + e) = u + PowerOfTwo[bits + 1] * i
          /\ u \in 0 .. PowerOfTwo[bits + 1] - 1
      BY TermMoves
    <2> HIDE DEF u
    <2>3. x = <<part, Bits(u, bits + 1), AtPosition(count, u + PowerOfTwo[bits + 1] * i)>>
      BY <2>1, <2>2, Zenon
    <2>4. x \in Layer(count, bits + 1, i)
      <3>1. IsPlainTerm(x, count, bits + 1, i)
        BY <2>2, <2>3, Zenon DEF IsPlainTerm
      <3> QED
        BY <3>1, TermsOfLayer, Zenon
    <2> QED
      BY <2>4
  <1>2. ASSUME NEW x \in next PROVE \E e \in {0, 1} : x \in HalfOf(e)
    <2>1. PICK part \in {"small", "large"}, u \in 0 .. PowerOfTwo[bits + 1] - 1 :
            x = <<part, Bits(u, bits + 1), AtPosition(count, u + PowerOfTwo[bits + 1] * i)>>
      <3>1. x \in Layer(count, bits + 1, i)
        BY <1>2
      <3>2. IsPlainTerm(x, count, bits + 1, i)
        BY <3>1, TermsOfLayer, Zenon
      <3> QED
        BY <3>2, Zenon DEF IsPlainTerm
    <2>2. PICK v \in 0 .. PowerOfTwo[bits] - 1, e \in {0, 1} : u = v + PowerOfTwo[bits] * e
      BY TermComesFrom
    <2>3. /\ Bits(v, bits) \o <<e>> = Bits(v + PowerOfTwo[bits] * e, bits + 1)
          /\ v + PowerOfTwo[bits] * (2 * i + e)
               = (v + PowerOfTwo[bits] * e) + PowerOfTwo[bits + 1] * i
      BY TermMoves
    <2>4. x = <<part, Bits(v, bits) \o <<e>>, AtPosition(count, v + PowerOfTwo[bits] * (2 * i + e))>>
      BY <2>1, <2>2, <2>3, Zenon
    <2>5. IsTerm(x, count, bits, 2 * i + e, <<e>>)
      BY <2>4, Zenon DEF IsTerm
    <2>6. x \in HalfOf(e)
      BY <2>5, WeightedTerms, Zenon
    <2> QED
      BY <2>6
  <1>3. HalfOf(0) = Weighted(lo, <<0>>) /\ HalfOf(1) = Weighted(hi, <<1>>)
    <2>1. 2 * i + 0 = 2 * i
      OBVIOUS
    <2> QED
      BY <2>1, Zenon
  <1>4. HalfOf(0) \cup HalfOf(1) = next
    <2> HIDE DEF HalfOf, next
    <2> QED
      BY <1>1, <1>2
  <1>5. lo # {} /\ hi # {}
    BY LayersAreNotEmpty
  <1> HIDE DEF lo, hi, next, HalfOf
  <1>6. Fold(lo, hi) = next
    BY <1>3, <1>4, <1>5, Zenon DEF Fold
  <1> QED
    BY <1>6 DEF lo, hi, next

-----------------------------------------------------------------------------
(* The layers the loop starts from *)

LEMMA NoBitsBound ==
  ASSUME NEW count, NEW i \in Nat
  PROVE  Layer(count, 0, i) = FieldEntry(AtPosition(count, i))
  <1>1. PowerOfTwo[0] = 1 /\ 0 .. PowerOfTwo[0] - 1 = {0}
    BY PowerFacts
  <1>2. Bits(0, 0) = <<>> /\ 0 + PowerOfTwo[0] * i = i
    BY <1>1, FewBits
  <1>4. ASSUME NEW x PROVE x \in Layer(count, 0, i) <=> x \in FieldEntry(AtPosition(count, i))
    <2>1. x \in FieldEntry(AtPosition(count, i)) <=>
            x = <<"small", <<>>, AtPosition(count, i)>> \/ x = <<"large", <<>>, AtPosition(count, i)>>
      BY Zenon DEF FieldEntry
    <2>2. x \in Layer(count, 0, i) <=>
            \E part \in {"small", "large"} : \E v \in {0} :
              x = <<part, Bits(v, 0), AtPosition(count, v + PowerOfTwo[0] * i)>>
      <3>1. x \in Layer(count, 0, i) <=> IsPlainTerm(x, count, 0, i)
        BY TermsOfLayer, Zenon
      <3>2. IsPlainTerm(x, count, 0, i) <=>
              \E part \in {"small", "large"} : \E v \in {0} :
                x = <<part, Bits(v, 0), AtPosition(count, v + PowerOfTwo[0] * i)>>
        BY <1>1 DEF IsPlainTerm
      <3> QED
        BY <3>1, <3>2, Zenon
    <2>3. x \in Layer(count, 0, i) <=>
            \E part \in {"small", "large"} : x = <<part, <<>>, AtPosition(count, i)>>
      <3>1. ASSUME NEW part \in {"small", "large"}, NEW v \in {0}
            PROVE  <<part, Bits(v, 0), AtPosition(count, v + PowerOfTwo[0] * i)>> = <<part, <<>>, AtPosition(count, i)>>
        BY <1>2, Zenon
      <3> QED
        BY <2>2, <3>1, Zenon
    <2> QED
      BY <2>1, <2>3, Zenon
  <1> QED
    BY <1>4, Zenon

(* The machine integers, completed by the field elements at the large       *)
(* positions, are the layer.                                                *)
LEMMA PartsMakeField == \A a : Small(FieldEntry(a)) \cup Large(FieldEntry(a)) = FieldEntry(a)
  <1>1. ASSUME NEW a PROVE Small(FieldEntry(a)) \cup Large(FieldEntry(a)) = FieldEntry(a)
    <2>1. ASSUME NEW x \in FieldEntry(a) PROVE x[1] = "small" \/ x[1] = "large"
      BY DEF FieldEntry
    <2> QED
      BY <2>1, Zenon DEF Small, Large
  <1> QED
    BY <1>1

LEMMA WeightedField ==
  ASSUME NEW a, NEW len \in Nat, NEW w \in Strings(len)
  PROVE  Weighted(FieldEntry(a), w) = {<<part, w, a>> : part \in {"small", "large"}}
  <1>1. <<>> \o w = w
    BY StringsAreSequences, ConcatEmptySeq
  <1>2. \A x : x \in FieldEntry(a) <=> x = <<"small", <<>>, a>> \/ x = <<"large", <<>>, a>>
    BY Zenon DEF FieldEntry
  <1>3. ASSUME NEW x PROVE x \in Weighted(FieldEntry(a), w) <=> x = <<"small", w, a>> \/ x = <<"large", w, a>>
    <2> DEFINE s == <<"small", <<>>, a>>
               l == <<"large", <<>>, a>>
    <2>1. x \in Weighted(FieldEntry(a), w) <=> \E y \in FieldEntry(a) : x = <<y[1], y[2] \o w, y[3]>>
      BY Zenon DEF Weighted
    <2>2. /\ s[1] = "small" /\ s[2] = <<>> /\ s[3] = a
          /\ l[1] = "large" /\ l[2] = <<>> /\ l[3] = a
      OBVIOUS
    <2>3. \A y : y \in FieldEntry(a) <=> y = s \/ y = l
      BY <1>2
    <2> HIDE DEF s, l
    <2>4. x \in Weighted(FieldEntry(a), w) <=>
            x = <<s[1], s[2] \o w, s[3]>> \/ x = <<l[1], l[2] \o w, l[3]>>
      BY <2>1, <2>3, Zenon
    <2> QED
      BY <1>1, <2>2, <2>4, Zenon
  <1>4. \A x : x \in {<<part, w, a>> : part \in {"small", "large"}} <=>
                 x = <<"small", w, a>> \/ x = <<"large", w, a>>
    BY Zenon
  <1> QED
    BY <1>3, <1>4, Zenon

(* The weighted sum of consecutive layers of the batch is a folded layer. *)
SumOver(f, I) == UNION {f[v] : v \in I}
WeighsBatch(f, count, bits, i) ==
  \A v \in 0 .. PowerOfTwo[bits] - 1 :
    f[v] = Weighted(FieldEntry(AtPosition(count, v + PowerOfTwo[bits] * i)), Bits(v, bits))

LEMMA SumOfLayers ==
  ASSUME NEW count, NEW bits \in Nat, NEW i \in Nat, NEW f, WeighsBatch(f, count, bits, i)
  PROVE  SumOver(f, 0 .. PowerOfTwo[bits] - 1) = Layer(count, bits, i)
  <1> DEFINE I == 0 .. PowerOfTwo[bits] - 1
  <1>0. \A v \in I : f[v] = Weighted(FieldEntry(AtPosition(count, v + PowerOfTwo[bits] * i)), Bits(v, bits))
    BY Zenon DEF WeighsBatch
  <1>1. ASSUME NEW v \in I
        PROVE  f[v] = {<<part, Bits(v, bits), AtPosition(count, v + PowerOfTwo[bits] * i)>> :
                         part \in {"small", "large"}}
    <2>1. v \in Nat
      BY PowerFacts
    <2>2. Bits(v, bits) \in Strings(bits)
      BY <2>1, BitsType
    <2> QED
      BY <1>0, <2>2, WeightedField, Zenon
  <1>2. ASSUME NEW x
        PROVE  x \in SumOver(f, I) <=> x \in Layer(count, bits, i)
    <2>1. x \in SumOver(f, I) <=> \E v \in I : x \in f[v]
      BY Zenon DEF SumOver
    <2>2. ASSUME NEW v \in I
          PROVE  x \in f[v] <=>
                   \E part \in {"small", "large"} :
                     x = <<part, Bits(v, bits), AtPosition(count, v + PowerOfTwo[bits] * i)>>
      BY <1>1, Zenon
    <2>3. x \in Layer(count, bits, i) <=> IsPlainTerm(x, count, bits, i)
      BY TermsOfLayer, Zenon
    <2>4. IsPlainTerm(x, count, bits, i) <=>
            \E part \in {"small", "large"} : \E v \in I :
              x = <<part, Bits(v, bits), AtPosition(count, v + PowerOfTwo[bits] * i)>>
      BY DEF IsPlainTerm
    <2>5. x \in Layer(count, bits, i) <=>
            \E v \in I : \E part \in {"small", "large"} :
              x = <<part, Bits(v, bits), AtPosition(count, v + PowerOfTwo[bits] * i)>>
      BY <2>3, <2>4, Zenon
    <2> QED
      BY <2>1, <2>2, <2>5, Zenon
  <1> QED
    BY <1>2, Zenon

-----------------------------------------------------------------------------
(* What FoldSpec promises, in terms of layers *)

(* Indices put together from two halves. *)
LEMMA IndexBelow ==
  ASSUME NEW x \in Nat, NEW y \in Nat, NEW v \in 0 .. PowerOfTwo[x] - 1,
         NEW i \in 0 .. PowerOfTwo[y] - 1
  PROVE  v + PowerOfTwo[x] * i \in 0 .. PowerOfTwo[x + y] - 1
  <1> DEFINE p == PowerOfTwo[x]
             q == PowerOfTwo[y]
  <1>1. p \in Nat /\ q \in Nat
    BY PowerFacts
  <1>2. PowerOfTwo[x + y] = p * q
    BY PowerOfSum
  <1>3. v \in 0 .. p - 1 /\ i \in 0 .. q - 1
    OBVIOUS
  <1> HIDE DEF p, q
  <1>4. PICK d \in Nat : q = i + 1 + d
    <2>1. q - i - 1 \in Nat /\ q = i + 1 + (q - i - 1)
      BY <1>1, <1>3
    <2> QED
      BY <2>1
  <1>5. i \in Nat /\ p * i \in Nat /\ p * d \in Nat /\ p * q = p * i + p + p * d
    BY <1>1, <1>3, <1>4
  <1>6. v + p * i \in 0 .. p * q - 1
    BY <1>1, <1>3, <1>5
  <1> QED
    BY <1>2, <1>6 DEF p

(* A partial evaluation is a layer. *)
LEMMA PartialIsLayer ==
  ASSUME n \in Nat, NEW bits \in Nat, NEW len \in Nat, NEW i \in 0 .. PowerOfTwo[len] - 1
  PROVE  Promise!PartialEvaluation(bits, Bits(i, len)) = Layer(n, bits, i)
  <1>0. i \in Nat
    BY PowerFacts
  <1>1. ASSUME NEW v \in 0 .. PowerOfTwo[bits] - 1
        PROVE  Promise!InstanceAt(Bits(v, bits) \o Bits(i, len)) = AtPosition(n, v + PowerOfTwo[bits] * i)
    <2> DEFINE u == v + PowerOfTwo[bits] * i
    <2>1. u \in 0 .. PowerOfTwo[bits + len] - 1
      BY IndexBelow
    <2>2. BitsSplitAt(bits)
      BY BitsSplit
    <2>3. Bits(u, bits + len) = Bits(v, bits) \o Bits(i, len)
      BY <1>0, <2>2 DEF BitsSplitAt
    <2>4. IndexIsValueAt(bits + len)
      BY IndexIsValue
    <2> HIDE DEF u
    <2>5. Promise!IndexOf[Bits(u, bits + len)] = u
      BY <2>1, <2>4, Zenon DEF IndexIsValueAt
    <2>6. Promise!InstanceAt(Bits(u, bits + len)) = AtPosition(n, u)
      BY <2>5, Zenon DEF Promise!InstanceAt, AtPosition
    <2> QED
      BY <2>3, <2>6, Zenon DEF u
  <1>2. ASSUME NEW x
        PROVE  x \in Promise!PartialEvaluation(bits, Bits(i, len)) <=>
                 \E part \in {"small", "large"} : \E s \in Strings(bits) :
                   x = <<part, s, Promise!InstanceAt(s \o Bits(i, len))>>
    BY DEF Promise!PartialEvaluation, Promise!Parts, Promise!BitStrings, Strings
  <1>3. ASSUME NEW x, x \in Layer(n, bits, i)
        PROVE  x \in Promise!PartialEvaluation(bits, Bits(i, len))
    <2>1. IsPlainTerm(x, n, bits, i)
      BY <1>3, TermsOfLayer, Zenon
    <2>2. PICK part \in {"small", "large"}, v \in 0 .. PowerOfTwo[bits] - 1 :
            x = <<part, Bits(v, bits), AtPosition(n, v + PowerOfTwo[bits] * i)>>
      BY <2>1, Zenon DEF IsPlainTerm
    <2>3. Bits(v, bits) \in Strings(bits)
      <3>1. v \in Nat
        BY PowerFacts
      <3> QED
        BY <3>1, BitsType
    <2>4. x = <<part, Bits(v, bits), Promise!InstanceAt(Bits(v, bits) \o Bits(i, len))>>
      BY <1>1, <2>2, Zenon
    <2> QED
      BY <1>2, <2>3, <2>4
  <1>4. ASSUME NEW x, x \in Promise!PartialEvaluation(bits, Bits(i, len))
        PROVE  x \in Layer(n, bits, i)
    <2>1. PICK part \in {"small", "large"}, s \in Strings(bits) :
            x = <<part, s, Promise!InstanceAt(s \o Bits(i, len))>>
      BY <1>2, <1>4
    <2>2. PICK v \in 0 .. PowerOfTwo[bits] - 1 : s = Bits(v, bits)
      <3>1. StringsAreBitsAt(bits)
        BY StringsAreBits
      <3> QED
        BY <3>1, Zenon DEF StringsAreBitsAt
    <2>3. x = <<part, Bits(v, bits), AtPosition(n, v + PowerOfTwo[bits] * i)>>
      BY <1>1, <2>1, <2>2, Zenon
    <2>4. IsPlainTerm(x, n, bits, i)
      BY <2>3, Zenon DEF IsPlainTerm
    <2> QED
      BY <2>4, TermsOfLayer, Zenon
  <1> QED
    BY <1>3, <1>4

(* What one pair contributes to the polynomial of a round. *)
Ideal(count, round, len, j) ==
  [weight |-> Bits(j, len),
   lo |-> Layer(count, round, 2 * j),
   hi |-> Layer(count, round, 2 * j + 1),
   c |-> IF round = 0 THEN {} ELSE Layer(count, round, 2 * j)]

IdealSum(count, round, len, pairs) == {Ideal(count, round, len, j) : j \in pairs}

(* The pairs of a round contribute its polynomial. *)
LEMMA PolynomialIsIdeal ==
  ASSUME n \in Nat, NEW round \in Nat, NEW len \in Nat, Promise!NumRounds - round - 1 = len
  PROVE  Promise!RoundPolynomial(round) = IdealSum(n, round, len, 0 .. PowerOfTwo[len] - 1)
  <1> DEFINE Of(w) == [weight |-> w,
                       lo |-> Promise!PartialEvaluation(round, <<0>> \o w),
                       hi |-> Promise!PartialEvaluation(round, <<1>> \o w),
                       c |-> IF round = 0 THEN {} ELSE Promise!PartialEvaluation(round, <<0>> \o w)]
  <1>1. Promise!RoundPolynomial(round) = {Of(w) : w \in Strings(len)}
    BY Zenon DEF Promise!RoundPolynomial, Promise!BitStrings, Strings
  <1>2. ASSUME NEW j \in 0 .. PowerOfTwo[len] - 1
        PROVE  Of(Bits(j, len)) = Ideal(n, round, len, j) /\ Bits(j, len) \in Strings(len)
    <2>1. j \in Nat /\ PowerOfTwo[len + 1] = 2 * PowerOfTwo[len] /\ PowerOfTwo[len] \in Nat
      BY PowerFacts
    <2>2. /\ 2 * j \in 0 .. PowerOfTwo[len + 1] - 1
          /\ 2 * j + 1 \in 0 .. PowerOfTwo[len + 1] - 1
          /\ 2 * j + 0 = 2 * j
          /\ len + 1 \in Nat
      BY <2>1
    <2>3. Bits(2 * j, len + 1) = <<0>> \o Bits(j, len)
      <3>1. Bits(2 * j + 0, len + 1) = <<0>> \o Bits(j, len)
        BY <2>1, BitsCons
      <3> QED
        BY <2>2, <3>1, Zenon
    <2>4. Bits(2 * j + 1, len + 1) = <<1>> \o Bits(j, len)
      BY <2>1, BitsCons
    <2>5. Promise!PartialEvaluation(round, Bits(2 * j, len + 1)) = Layer(n, round, 2 * j)
      BY <2>2, PartialIsLayer
    <2>6. Promise!PartialEvaluation(round, Bits(2 * j + 1, len + 1)) = Layer(n, round, 2 * j + 1)
      BY <2>2, PartialIsLayer
    <2>7. Of(Bits(j, len)) = Ideal(n, round, len, j)
      <3>1. /\ Promise!PartialEvaluation(round, <<0>> \o Bits(j, len)) = Layer(n, round, 2 * j)
            /\ Promise!PartialEvaluation(round, <<1>> \o Bits(j, len)) = Layer(n, round, 2 * j + 1)
        BY <2>3, <2>4, <2>5, <2>6, Zenon
      <3> QED
        BY <3>1, Zenon DEF Ideal
    <2>8. Bits(j, len) \in Strings(len)
      BY <2>1, BitsType
    <2> QED
      BY <2>7, <2>8
  <1>3. ASSUME NEW w \in Strings(len)
        PROVE  \E j \in 0 .. PowerOfTwo[len] - 1 : w = Bits(j, len)
    <2>1. StringsAreBitsAt(len)
      BY StringsAreBits
    <2> QED
      BY <2>1, Zenon DEF StringsAreBitsAt
  <1> HIDE DEF Of
  <1>4. {Of(w) : w \in Strings(len)} = {Ideal(n, round, len, j) : j \in 0 .. PowerOfTwo[len] - 1}
    <2>1. ASSUME NEW x, x \in {Of(w) : w \in Strings(len)}
          PROVE  x \in {Ideal(n, round, len, j) : j \in 0 .. PowerOfTwo[len] - 1}
      <3>1. PICK w \in Strings(len) : x = Of(w)
        BY <2>1
      <3>2. PICK j \in 0 .. PowerOfTwo[len] - 1 : w = Bits(j, len)
        BY <1>3
      <3> QED
        BY <1>2, <3>1, <3>2
    <2>2. ASSUME NEW x, x \in {Ideal(n, round, len, j) : j \in 0 .. PowerOfTwo[len] - 1}
          PROVE  x \in {Of(w) : w \in Strings(len)}
      <3>1. PICK j \in 0 .. PowerOfTwo[len] - 1 : x = Ideal(n, round, len, j)
        BY <2>2
      <3> QED
        BY <1>2, <3>1
    <2> QED
      BY <2>1, <2>2
  <1> QED
    BY <1>1, <1>4, Zenon DEF IdealSum

-----------------------------------------------------------------------------
(* The weighted sums of the loop *)

(* weights_from_r over the whole batch gives the layer with all bits bound. *)
LEMMA WeightedSumIsLayer ==
  ASSUME NEW layers, NEW count, ell_b \in Nat,
         DOMAIN layers = 0 .. PowerOfTwo[ell_b] - 1,
         \A b \in DOMAIN layers : layers[b] = FieldEntry(AtPosition(count, b))
  PROVE  WeightedSum(layers) = Layer(count, ell_b, 0)
  <1> DEFINE I == 0 .. PowerOfTwo[ell_b] - 1
             f == [v \in I |-> Weighted(layers[v], Bits(v, ell_b))]
  <1>1. ASSUME NEW v \in I
        PROVE  f[v] = Weighted(FieldEntry(AtPosition(count, v + PowerOfTwo[ell_b] * 0)), Bits(v, ell_b))
    <2>1. v + PowerOfTwo[ell_b] * 0 = v
      <3> DEFINE w == PowerOfTwo[ell_b]
      <3>1. w \in Nat /\ v \in 0 .. w - 1
        BY PowerFacts, Zenon
      <3> HIDE DEF w
      <3>2. v + w * 0 = v
        BY <3>1
      <3> QED
        BY <3>2, Zenon DEF w
    <2>2. layers[v] = FieldEntry(AtPosition(count, v))
      OBVIOUS
    <2>3. f[v] = Weighted(layers[v], Bits(v, ell_b))
      OBVIOUS
    <2> HIDE DEF f
    <2> QED
      BY <2>1, <2>2, <2>3, Zenon
  <1>2. SumOver(f, I) = Layer(count, ell_b, 0)
    <2>0. 0 \in Nat
      OBVIOUS
    <2>1. WeighsBatch(f, count, ell_b, 0)
      BY <1>1, Zenon DEF WeighsBatch
    <2> HIDE DEF f
    <2> QED
      BY <2>0, <2>1, SumOfLayers, Zenon
  <1>3. WeightedSum(layers) = SumOver(f, I)
    <2>1. WeightedSum(layers) = UNION {Weighted(layers[b], Bits(b, ell_b)) : b \in I}
      BY Zenon DEF WeightedSum
    <2>2. \A v \in I : f[v] = Weighted(layers[v], Bits(v, ell_b))
      OBVIOUS
    <2> HIDE DEF f, I
    <2> QED
      BY <2>1, <2>2 DEF SumOver
  <1> QED
    BY <1>2, <1>3, Zenon

(* What prefix_coeffs holds when bits challenges have been folded. *)
PrefixTable(bits) == [v \in 1 .. PowerOfTwo[bits] |-> Bits(v - 1, bits)]

(* The value that ProveCross and FoldAndProveChunk take for C. *)
LEMMA CValLoIsLayer ==
  ASSUME NEW bits \in Nat, NEW len \in Nat, NEW j \in 0 .. PowerOfTwo[len] - 1,
         prefix = PrefixTable(bits), n_padded = PowerOfTwo[bits + len + 1],
         \A b \in 0 .. n_padded - 1 : CVal(b) = FieldEntry(AtPosition(n, b))
  PROVE  CValLo(j) = Layer(n, bits, 2 * j)
  <1> DEFINE p == PowerOfTwo[bits]
             I == 0 .. p - 1
             f == [v \in I |-> Weighted(FieldEntry(AtPosition(n, v + p * (2 * j))), Bits(v, bits))]
             g == [v \in 1 .. p |-> Weighted(CVal(2 * j * p + v - 1), prefix[v])]
  <1>1. p \in Nat /\ j \in Nat /\ Len(prefix) = p
    <2>1. PowerOfTwo[bits] \in Nat /\ j \in Nat
      BY PowerFacts
    <2> QED
      BY <2>1 DEF PrefixTable
  <1>2. ASSUME NEW v \in I PROVE v + 1 \in 1 .. p /\ g[v + 1] = f[v]
    <2>1. v + 1 \in 1 .. p /\ (v + 1) - 1 = v
      BY <1>1
    <2>2. prefix[v + 1] = Bits(v, bits)
      BY <2>1 DEF PrefixTable
    <2>3. 2 * j * p + (v + 1) - 1 = v + p * (2 * j)
      <3>1. 2 * j * p = p * (2 * j) /\ p * (2 * j) \in Nat
        BY <1>1
      <3> HIDE DEF p
      <3> QED
        BY <1>1, <3>1
    <2>4. v + p * (2 * j) \in 0 .. n_padded - 1
      <3>1. 2 * j \in 0 .. PowerOfTwo[len + 1] - 1 /\ len + 1 \in Nat
        <4>1. 2 * j + 0 \in 0 .. PowerOfTwo[len + 1] - 1
          BY DoubleBelow
        <4>2. 2 * j + 0 = 2 * j
          BY <1>1
        <4> QED
          BY <4>1, <4>2
      <3>2. v + p * (2 * j) \in 0 .. PowerOfTwo[bits + (len + 1)] - 1
        BY <3>1, IndexBelow
      <3>3. bits + (len + 1) = bits + len + 1
        OBVIOUS
      <3> HIDE DEF p
      <3> QED
        BY <3>2, <3>3
    <2>5. g[v + 1] = Weighted(CVal(2 * j * p + (v + 1) - 1), prefix[v + 1])
      BY <2>1
    <2>6. f[v] = Weighted(FieldEntry(AtPosition(n, v + p * (2 * j))), Bits(v, bits))
      OBVIOUS
    <2>7. CVal(v + p * (2 * j)) = FieldEntry(AtPosition(n, v + p * (2 * j)))
      BY <2>4
    <2> HIDE DEF f, g, p
    <2>8. g[v + 1] = f[v]
      BY <2>2, <2>3, <2>5, <2>6, <2>7, Zenon
    <2> QED
      BY <2>1, <2>8
  <1>3. SumOver(f, I) = Layer(n, bits, 2 * j)
    <2>1. 2 * j \in Nat
      BY <1>1
    <2>2. \A v \in I : f[v] = Weighted(FieldEntry(AtPosition(n, v + p * (2 * j))), Bits(v, bits))
      OBVIOUS
    <2>3. WeighsBatch(f, n, bits, 2 * j)
      <3> HIDE DEF f
      <3> QED
        BY <2>2, Zenon DEF WeighsBatch
    <2> HIDE DEF f
    <2> QED
      BY <2>1, <2>3, SumOfLayers, Zenon
  <1>4. CValLo(j) = UNION {g[v] : v \in 1 .. p}
    <2>1. CValLo(j) = UNION {Weighted(CVal(2 * j * p + v - 1), prefix[v]) : v \in 1 .. p}
      <3> HIDE DEF p
      <3> QED
        BY <1>1, Zenon DEF CValLo
    <2>2. \A v \in 1 .. p : g[v] = Weighted(CVal(2 * j * p + v - 1), prefix[v])
      OBVIOUS
    <2> HIDE DEF g, p
    <2> QED
      BY <2>1, <2>2
  <1>5. ASSUME NEW v \in 1 .. p PROVE v - 1 \in I /\ (v - 1) + 1 = v
    BY <1>1
  <1>6. UNION {g[v] : v \in 1 .. p} = UNION {f[v] : v \in I}
    <2> HIDE DEF f, g, I, p
    <2>1. ASSUME NEW x, x \in UNION {g[v] : v \in 1 .. p} PROVE x \in UNION {f[v] : v \in I}
      <3>1. PICK v \in 1 .. p : x \in g[v]
        BY <2>1
      <3>2. g[v] = f[v - 1] /\ v - 1 \in I
        BY <1>2, <1>5
      <3> QED
        BY <3>1, <3>2
    <2>2. ASSUME NEW x, x \in UNION {f[v] : v \in I} PROVE x \in UNION {g[v] : v \in 1 .. p}
      <3>1. PICK v \in I : x \in f[v]
        BY <2>2
      <3> QED
        BY <1>2, <3>1
    <2> QED
      BY <2>1, <2>2
  <1> HIDE DEF f, g, I, p
  <1> QED
    BY <1>3, <1>4, <1>6, Zenon DEF SumOver

-----------------------------------------------------------------------------
(* The loops that move layers *)

LEMMA SwapMoves ==
  ASSUME NEW len \in Nat, NEW l, DOMAIN l = 0 .. len - 1,
         NEW i \in 0 .. len - 1, NEW j \in 0 .. len - 1
  PROVE  /\ DOMAIN Swap(l, i, j) = 0 .. len - 1
         /\ \A k \in 0 .. len - 1 :
              Swap(l, i, j)[k] = IF k = j THEN l[i] ELSE IF k = i THEN l[j] ELSE l[k]
  BY DEF Swap

(* After j steps of the compaction of len layers. *)
Compacted(l, layers, j, len) ==
  /\ DOMAIN l = 0 .. len - 1
  /\ \A i \in 0 .. j - 1 : l[2 * i] = layers[4 * i] /\ l[2 * i + 1] = layers[4 * i + 2]
  /\ \A i \in 4 * j .. len - 1 : l[i] = layers[i]

CompactStep(l, j) == Swap(Swap(l, 2 * j, 4 * j), 2 * j + 1, 4 * j + 2)

LEMMA CompactStepMoves ==
  ASSUME NEW len \in Nat, NEW j \in Nat, 4 * (j + 1) <= len, NEW l, NEW layers,
         Compacted(l, layers, j, len)
  PROVE  Compacted(CompactStep(l, j), layers, j + 1, len)
  <1> DEFINE x == Swap(l, 2 * j, 4 * j)
             y == Swap(x, 2 * j + 1, 4 * j + 2)
  <1>1. /\ DOMAIN l = 0 .. len - 1
        /\ \A i \in 0 .. j - 1 : l[2 * i] = layers[4 * i] /\ l[2 * i + 1] = layers[4 * i + 2]
        /\ \A i \in 4 * j .. len - 1 : l[i] = layers[i]
    BY Zenon DEF Compacted
  <1>2. /\ 2 * j \in 0 .. len - 1 /\ 4 * j \in 0 .. len - 1
        /\ 2 * j + 1 \in 0 .. len - 1 /\ 4 * j + 2 \in 0 .. len - 1
    OBVIOUS
  <1>3. /\ DOMAIN x = 0 .. len - 1
        /\ \A k \in 0 .. len - 1 :
             x[k] = IF k = 4 * j THEN l[2 * j] ELSE IF k = 2 * j THEN l[4 * j] ELSE l[k]
    <2> DEFINE a == 2 * j
               b == 4 * j
    <2>1. a \in 0 .. len - 1 /\ b \in 0 .. len - 1 /\ x = Swap(l, a, b)
      BY <1>2
    <2> HIDE DEF x, a, b
    <2>2. /\ DOMAIN Swap(l, a, b) = 0 .. len - 1
          /\ \A k \in 0 .. len - 1 :
               Swap(l, a, b)[k] = IF k = b THEN l[a] ELSE IF k = a THEN l[b] ELSE l[k]
      BY <1>1, <2>1, SwapMoves
    <2>3. /\ DOMAIN x = 0 .. len - 1
          /\ \A k \in 0 .. len - 1 :
               x[k] = IF k = b THEN l[a] ELSE IF k = a THEN l[b] ELSE l[k]
      BY <2>1, <2>2, Zenon
    <2> QED
      BY <2>3 DEF a, b
  <1> HIDE DEF x
  <1>4. /\ DOMAIN y = 0 .. len - 1
        /\ \A k \in 0 .. len - 1 :
             y[k] = IF k = 4 * j + 2 THEN x[2 * j + 1]
                    ELSE IF k = 2 * j + 1 THEN x[4 * j + 2] ELSE x[k]
    <2> DEFINE a == 2 * j + 1
               b == 4 * j + 2
    <2>1. a \in 0 .. len - 1 /\ b \in 0 .. len - 1 /\ y = Swap(x, a, b)
      BY <1>2
    <2> HIDE DEF y, a, b
    <2>2. /\ DOMAIN Swap(x, a, b) = 0 .. len - 1
          /\ \A k \in 0 .. len - 1 :
               Swap(x, a, b)[k] = IF k = b THEN x[a] ELSE IF k = a THEN x[b] ELSE x[k]
      BY <1>3, <2>1, SwapMoves
    <2>3. /\ DOMAIN y = 0 .. len - 1
          /\ \A k \in 0 .. len - 1 :
               y[k] = IF k = b THEN x[a] ELSE IF k = a THEN x[b] ELSE x[k]
      BY <2>1, <2>2, Zenon
    <2> QED
      BY <2>3 DEF a, b
  <1> HIDE DEF y
  <1>5. ASSUME NEW i \in 0 .. (j + 1) - 1
        PROVE  y[2 * i] = layers[4 * i] /\ y[2 * i + 1] = layers[4 * i + 2]
    <2>1. CASE i = j
      <3>1. y[2 * j] = x[2 * j]
        BY SMTT(30), <1>2, <1>4
      <3>2. x[2 * j] = l[4 * j]
        BY <1>2, <1>3
      <3>3. y[2 * j + 1] = x[4 * j + 2]
        <4>1. 2 * j + 1 # 4 * j + 2
          OBVIOUS
        <4> QED
          BY <1>2, <1>4, <4>1, SMTT(30)
      <3>4. x[4 * j + 2] = l[4 * j + 2]
        BY SMTT(30), <1>2, <1>3
      <3>5. 4 * j \in 4 * j .. len - 1 /\ 4 * j + 2 \in 4 * j .. len - 1
        OBVIOUS
      <3>6. l[4 * j] = layers[4 * j] /\ l[4 * j + 2] = layers[4 * j + 2]
        BY <1>1, <3>5
      <3> QED
        BY <2>1, <3>1, <3>2, <3>3, <3>4, <3>6
    <2>2. CASE i # j
      <3>1. i \in 0 .. j - 1 /\ 2 * i \in 0 .. len - 1 /\ 2 * i + 1 \in 0 .. len - 1
            /\ 2 * i + 1 < 2 * j
        BY <2>2
      <3> DEFINE k == 2 * i
      <3>4. k \in 0 .. len - 1 /\ k # 4 * j + 2 /\ k # 2 * j + 1 /\ k # 4 * j /\ k # 2 * j
        BY <3>1
      <3> HIDE DEF k
      <3>5. y[k] = x[k] /\ x[k] = l[k]
        BY <1>3, <1>4, <3>4
      <3>2. y[2 * i] = l[2 * i]
        BY <3>5, Zenon DEF k
      <3>3. y[2 * i + 1] = x[2 * i + 1] /\ x[2 * i + 1] = l[2 * i + 1]
        BY <1>3, <1>4, <3>1
      <3> QED
        BY <1>1, <3>1, <3>2, <3>3
    <2> QED
      BY <2>1, <2>2
  <1>6. ASSUME NEW i \in 4 * (j + 1) .. len - 1 PROVE y[i] = layers[i]
    <2>1. i \in 0 .. len - 1 /\ i > 4 * j + 2 /\ i \in 4 * j .. len - 1
      OBVIOUS
    <2>2. y[i] = x[i] /\ x[i] = l[i]
      BY <1>3, <1>4, <2>1
    <2> QED
      BY <1>1, <2>1, <2>2
  <1>7. Compacted(y, layers, j + 1, len)
    BY <1>4, <1>5, <1>6, Zenon DEF Compacted
  <1>8. CompactStep(l, j) = y
    BY Zenon DEF CompactStep, x, y
  <1> QED
    BY <1>7, <1>8

(* The table that Compact is defined by. *)
IsCompactTable(g, layers, pairs) ==
  g = [j \in 0 .. pairs |-> IF j = 0 THEN layers ELSE CompactStep(g[j - 1], j - 1)]

LEMMA CompactTablesExist ==
  ASSUME NEW layers
  PROVE  \A pairs \in Nat : \E g : IsCompactTable(g, layers, pairs)
  <1> DEFINE S == {pairs \in Nat : \E g : IsCompactTable(g, layers, pairs)}
  <1>1. 0 \in S
    <2>1. IsCompactTable([j \in 0 .. 0 |-> layers], layers, 0)
      BY DEF IsCompactTable
    <2> QED
      BY <2>1
  <1>2. ASSUME NEW p \in Nat, p \in S PROVE p + 1 \in S
    <2>1. PICK g : IsCompactTable(g, layers, p)
      BY <1>2
    <2>2. \A k \in 0 .. p : g[k] = IF k = 0 THEN layers ELSE CompactStep(g[k - 1], k - 1)
      BY <2>1 DEF IsCompactTable
    <2> DEFINE h == [k \in 0 .. p + 1 |-> IF k = p + 1 THEN CompactStep(g[p], p) ELSE g[k]]
    <2>3. ASSUME NEW k \in 0 .. p + 1
          PROVE  h[k] = IF k = 0 THEN layers ELSE CompactStep(h[k - 1], k - 1)
      <3>1. CASE k = p + 1
        <4>1. h[k] = CompactStep(g[p], p) /\ k # 0 /\ k - 1 = p /\ h[p] = g[p]
          BY <3>1
        <4> HIDE DEF h
        <4> QED
          BY <4>1
      <3>2. CASE k # p + 1
        <4>1. k \in 0 .. p
          BY <3>2
        <4>2. h[k] = g[k] /\ (k # 0 => h[k - 1] = g[k - 1])
          BY <4>1
        <4> HIDE DEF h
        <4> QED
          BY <2>2, <4>1, <4>2
      <3> QED
        BY <3>1, <3>2
    <2>4. h = [k \in 0 .. p + 1 |-> h[k]]
      OBVIOUS
    <2> HIDE DEF h
    <2>5. h = [k \in 0 .. p + 1 |-> IF k = 0 THEN layers ELSE CompactStep(h[k - 1], k - 1)]
      BY <2>3, <2>4
    <2>6. IsCompactTable(h, layers, p + 1)
      BY <2>5, Zenon DEF IsCompactTable
    <2> QED
      BY <2>6
  <1> HIDE DEF S
  <1>3. \A pairs \in Nat : pairs \in S
    BY <1>1, <1>2, NatSetInduction
  <1> QED
    BY <1>3 DEF S

(* Compact moves the folded layers of all chunks to the front. *)
LEMMA CompactMoves ==
  ASSUME NEW len \in Nat, NEW pairs \in Nat, 4 * pairs <= len, NEW layers,
         DOMAIN layers = 0 .. len - 1
  PROVE  Compacted(Compact(layers, pairs), layers, pairs, len)
  <1>1. \E g : IsCompactTable(g, layers, pairs)
    BY CompactTablesExist
  <1> DEFINE g == CHOOSE h : IsCompactTable(h, layers, pairs)
  <1>2. IsCompactTable(g, layers, pairs)
    BY <1>1, Zenon
  <1>3. Compact(layers, pairs) = g[pairs]
    BY Zenon DEF Compact, IsCompactTable, CompactStep
  <1> HIDE DEF g
  <1>4. \A k \in 0 .. pairs : g[k] = IF k = 0 THEN layers ELSE CompactStep(g[k - 1], k - 1)
    BY <1>2 DEF IsCompactTable
  <1> DEFINE S == {j \in Nat : j <= pairs => Compacted(g[j], layers, j, len)}
  <1>5. 0 \in S
    <2>1. g[0] = layers
      BY <1>4
    <2>2. Compacted(layers, layers, 0, len)
      BY DEF Compacted
    <2> QED
      BY <2>1, <2>2
  <1>6. ASSUME NEW j \in Nat, j \in S PROVE j + 1 \in S
    <2>1. SUFFICES ASSUME j + 1 <= pairs PROVE Compacted(g[j + 1], layers, j + 1, len)
      OBVIOUS
    <2>2. Compacted(g[j], layers, j, len) /\ 4 * (j + 1) <= len
      BY <1>6, <2>1
    <2>3. g[j + 1] = CompactStep(g[j], j)
      <3>1. j + 1 \in 0 .. pairs /\ j + 1 # 0 /\ (j + 1) - 1 = j
        BY <2>1
      <3> QED
        BY <1>4, <3>1
    <2> QED
      BY <2>2, <2>3, CompactStepMoves
  <1> HIDE DEF S
  <1>7. \A j \in Nat : j \in S
    BY <1>5, <1>6, NatSetInduction
  <1>8. Compacted(g[pairs], layers, pairs, len)
    BY <1>7 DEF S
  <1> QED
    BY <1>3, <1>8

(* No pair to fold: nothing is done. *)
LEMMA FoldNoPair ==
  ASSUME NEW layers, NEW pairs \in Nat
  PROVE  FoldPairs(layers, pairs, pairs) = layers
  <1> DEFINE step(l, i) == LET folded == Fold(l[2 * i], l[2 * i + 1])
                           IN  [[l EXCEPT ![2 * i] = {}] EXCEPT ![i] = folded]
             T(g) == g = [i \in pairs .. pairs |-> IF i = pairs THEN layers ELSE step(g[i - 1], i - 1)]
  <1>1. \E g : T(g)
    <2>1. T([i \in pairs .. pairs |-> layers])
      OBVIOUS
    <2> QED
      BY <2>1
  <1>2. FoldPairs(layers, pairs, pairs) = (CHOOSE g : T(g))[pairs]
    BY Zenon DEF FoldPairs
  <1>3. T(CHOOSE g : T(g))
    <2> HIDE DEF T
    <2> QED
      BY <1>1, Zenon
  <1> DEFINE h == CHOOSE g : T(g)
  <1>4. h = [i \in pairs .. pairs |-> IF i = pairs THEN layers ELSE step(h[i - 1], i - 1)]
    BY <1>3, Zenon
  <1> HIDE DEF h
  <1>5. h[pairs] = layers
    BY <1>4
  <1> QED
    BY <1>2, <1>5, Zenon DEF h

(* The only pair is folded to the front. *)
LEMMA FoldOnePair ==
  ASSUME NEW layers, DOMAIN layers = {0, 1}
  PROVE  /\ DOMAIN FoldPairs(layers, 0, 1) = {0, 1}
         /\ FoldPairs(layers, 0, 1)[0] = Fold(layers[0], layers[1])
  <1> DEFINE step(l, i) == LET folded == Fold(l[2 * i], l[2 * i + 1])
                           IN  [[l EXCEPT ![2 * i] = {}] EXCEPT ![i] = folded]
             T(g) == g = [i \in 0 .. 1 |-> IF i = 0 THEN layers ELSE step(g[i - 1], i - 1)]
             end == [[layers EXCEPT ![0] = {}] EXCEPT ![0] = Fold(layers[0], layers[1])]
  <1>1. \E g : T(g)
    <2> DEFINE k == [i \in 0 .. 1 |-> IF i = 0 THEN layers ELSE step(layers, 0)]
    <2> HIDE DEF step
    <2>1. k[0] = layers /\ k = [i \in 0 .. 1 |-> k[i]]
      OBVIOUS
    <2>2. ASSUME NEW i \in 0 .. 1 PROVE k[i] = IF i = 0 THEN layers ELSE step(k[i - 1], i - 1)
      <3>1. i = 0 \/ (i = 1 /\ i - 1 = 0)
        OBVIOUS
      <3>2. k[1] = step(layers, 0)
        OBVIOUS
      <3> HIDE DEF k
      <3> QED
        BY <2>1, <3>1, <3>2
    <2> HIDE DEF k
    <2>3. T(k)
      BY <2>1, <2>2
    <2> QED
      BY <2>3
  <1>2. FoldPairs(layers, 0, 1) = (CHOOSE g : T(g))[1]
    BY Zenon DEF FoldPairs
  <1>3. T(CHOOSE g : T(g))
    <2> HIDE DEF T
    <2> QED
      BY <1>1, Zenon
  <1> DEFINE h == CHOOSE g : T(g)
  <1>4. h = [i \in 0 .. 1 |-> IF i = 0 THEN layers ELSE step(h[i - 1], i - 1)]
    BY <1>3, Zenon
  <1> HIDE DEF h
  <1>5. h[0] = layers /\ h[1] = step(h[0], 0)
    <2> HIDE DEF step
    <2>1. h[1] = step(h[1 - 1], 1 - 1)
      BY <1>4
    <2>2. 1 - 1 = 0
      OBVIOUS
    <2> QED
      BY <1>4, <2>1, <2>2
  <1>6. h[1] = end
    <2>1. 2 * 0 = 0 /\ 2 * 0 + 1 = 1
      OBVIOUS
    <2> QED
      BY <1>5, <2>1, Zenon
  <1>7. DOMAIN end = {0, 1} /\ end[0] = Fold(layers[0], layers[1])
    OBVIOUS
  <1> HIDE DEF end, T
  <1>8. FoldPairs(layers, 0, 1) = end
    BY <1>2, <1>6, Zenon DEF h
  <1> QED
    BY <1>7, <1>8

LEMMA FoldOnePairInPlace ==
  ASSUME NEW layers, DOMAIN layers = {0, 1}
  PROVE  /\ DOMAIN FoldPairsInPlace(layers, 1) = {0, 1}
         /\ FoldPairsInPlace(layers, 1)[0] = Fold(layers[0], layers[1])
  <1> DEFINE folded == [i \in DOMAIN layers |->
                          IF i % 2 = 0 /\ i < 2 * 1 THEN Fold(layers[i], layers[i + 1])
                          ELSE layers[i]]
             T(g) == g = [i \in 0 .. 1 |-> IF i = 0 THEN folded ELSE Swap(g[i - 1], i - 1, 2 * (i - 1))]
             end == Swap(folded, 0, 0)
  <1>1. DOMAIN folded = {0, 1} /\ folded[0] = Fold(layers[0], layers[1])
    <2>1. 0 % 2 = 0 /\ 0 < 2 * 1 /\ 0 + 1 = 1
      OBVIOUS
    <2> QED
      BY <2>1
  <1>2. FoldPairsInPlace(layers, 1) = (CHOOSE g : T(g))[1]
    BY Zenon DEF FoldPairsInPlace
  <1> HIDE DEF folded
  <1>3. \E g : T(g)
    <2> DEFINE k == [i \in 0 .. 1 |-> IF i = 0 THEN folded ELSE end]
    <2>1. k[0] = folded /\ k[1] = end /\ k = [i \in 0 .. 1 |-> k[i]]
      OBVIOUS
    <2> HIDE DEF k
    <2>2. ASSUME NEW i \in 0 .. 1 PROVE k[i] = IF i = 0 THEN folded ELSE Swap(k[i - 1], i - 1, 2 * (i - 1))
      <3>1. i = 0 \/ (i = 1 /\ i - 1 = 0 /\ 2 * (i - 1) = 0)
        OBVIOUS
      <3> QED
        BY <2>1, <3>1
    <2>3. T(k)
      BY <2>1, <2>2
    <2> QED
      BY <2>3
  <1>4. T(CHOOSE g : T(g))
    <2> HIDE DEF T
    <2> QED
      BY <1>3, Zenon
  <1> DEFINE h == CHOOSE g : T(g)
  <1>5. h = [i \in 0 .. 1 |-> IF i = 0 THEN folded ELSE Swap(h[i - 1], i - 1, 2 * (i - 1))]
    BY <1>4, Zenon
  <1> HIDE DEF h
  <1>6. h[1] = end
    <2>1. h[1] = Swap(h[1 - 1], 1 - 1, 2 * (1 - 1)) /\ h[0] = folded
      BY <1>5
    <2>2. 1 - 1 = 0 /\ 2 * (1 - 1) = 0
      OBVIOUS
    <2> QED
      BY <2>1, <2>2
  <1>7. DOMAIN end = {0, 1} /\ end[0] = folded[0]
    BY <1>1 DEF Swap
  <1> HIDE DEF end, T
  <1>8. FoldPairsInPlace(layers, 1) = end
    BY <1>2, <1>6, Zenon DEF h
  <1> QED
    BY <1>1, <1>7, <1>8

-----------------------------------------------------------------------------
(* One round on layers of a known form *)

(* The layers of I are those of a round in which bits challenges are bound. *)
Unfolded(layers, count, bits, I) == \A i \in I : layers[i] = Layer(count, bits, i)

(* A chunk of four before and after its worker has folded it. *)
ChunkPending(layers, count, bits, j) ==
  /\ layers[4 * j] = Layer(count, bits, 4 * j)
  /\ layers[4 * j + 1] = Layer(count, bits, 4 * j + 1)
  /\ layers[4 * j + 2] = Layer(count, bits, 4 * j + 2)
  /\ layers[4 * j + 3] = Layer(count, bits, 4 * j + 3)

ChunkFolded(layers, count, bits, j) ==
  /\ layers[4 * j] = Layer(count, bits, 2 * j)
  /\ layers[4 * j + 2] = Layer(count, bits, 2 * j + 1)

SameChunk(l, layers, j) ==
  /\ l[4 * j] = layers[4 * j]
  /\ l[4 * j + 1] = layers[4 * j + 1]
  /\ l[4 * j + 2] = layers[4 * j + 2]
  /\ l[4 * j + 3] = layers[4 * j + 3]

LEMMA SameChunkStays ==
  ASSUME NEW l, NEW layers, NEW count, NEW bits, NEW j, SameChunk(l, layers, j)
  PROVE  /\ ChunkPending(layers, count, bits, j) => ChunkPending(l, count, bits, j)
         /\ ChunkFolded(layers, count, bits, j) => ChunkFolded(l, count, bits, j)
  BY Zenon DEF SameChunk, ChunkPending, ChunkFolded

(* The layers of a chunk fold to two layers of the next round. *)
LEMMA ChunkFolds ==
  ASSUME NEW count, NEW bits \in Nat, NEW j \in Nat
  PROVE  /\ Fold(Layer(count, bits, 4 * j), Layer(count, bits, 4 * j + 1))
              = Layer(count, bits + 1, 2 * j)
         /\ Fold(Layer(count, bits, 4 * j + 2), Layer(count, bits, 4 * j + 3))
              = Layer(count, bits + 1, 2 * j + 1)
  <1>1. 2 * j \in Nat /\ 2 * j + 1 \in Nat /\ 2 * (2 * j) = 4 * j
        /\ 2 * (2 * j + 1) = 4 * j + 2 /\ 2 * (2 * j + 1) + 1 = 4 * j + 3
    OBVIOUS
  <1>2. Fold(Layer(count, bits, 2 * (2 * j)), Layer(count, bits, 2 * (2 * j) + 1))
          = Layer(count, bits + 1, 2 * j)
    BY <1>1, FoldLayers
  <1>3. Fold(Layer(count, bits, 2 * (2 * j + 1)), Layer(count, bits, 2 * (2 * j + 1) + 1))
          = Layer(count, bits + 1, 2 * j + 1)
    BY <1>1, FoldLayers
  <1> QED
    BY <1>1, <1>2, <1>3, Zenon

(* The worker of a chunk folds it, and leaves the other chunks alone. *)
LEMMA FoldChunkFolds ==
  ASSUME NEW count, NEW bits \in Nat, NEW pairs \in Nat, NEW j \in 0 .. pairs - 1, NEW layers,
         DOMAIN layers = 0 .. 4 * pairs - 1, ChunkPending(layers, count, bits, j)
  PROVE  /\ DOMAIN FoldChunk(layers, j) = 0 .. 4 * pairs - 1
         /\ ChunkFolded(FoldChunk(layers, j), count, bits + 1, j)
         /\ \A k \in 0 .. pairs - 1 : k # j => SameChunk(FoldChunk(layers, j), layers, k)
  <1> DEFINE x == Fold(layers[4 * j], layers[4 * j + 1])
             y == Fold(layers[4 * j + 2], layers[4 * j + 3])
             l == FoldChunk(layers, j)
  <1>1. x = Layer(count, bits + 1, 2 * j) /\ y = Layer(count, bits + 1, 2 * j + 1)
    <2>1. j \in Nat
      OBVIOUS
    <2> QED
      BY <2>1, ChunkFolds DEF ChunkPending
  <1>2. l = [layers EXCEPT ![4 * j] = x, ![4 * j + 2] = y]
    <2>1. 4 * j # 4 * j + 2
      OBVIOUS
    <2> QED
      BY <2>1 DEF FoldChunk
  <1> HIDE DEF x, y, l
  <1>3. DOMAIN l = 0 .. 4 * pairs - 1
    BY <1>2
  <1>4. 4 * j \in 0 .. 4 * pairs - 1 /\ 4 * j + 2 \in 0 .. 4 * pairs - 1
    OBVIOUS
  <1>5. l[4 * j] = x /\ l[4 * j + 2] = y
    BY <1>2, <1>4
  <1>6. ASSUME NEW i \in 0 .. 4 * pairs - 1, i # 4 * j, i # 4 * j + 2
        PROVE  l[i] = layers[i]
    BY <1>2, <1>6
  <1>7. ASSUME NEW k \in 0 .. pairs - 1, k # j PROVE SameChunk(l, layers, k)
    <2>1. /\ 4 * k \in 0 .. 4 * pairs - 1 /\ 4 * k # 4 * j /\ 4 * k # 4 * j + 2
          /\ 4 * k + 1 \in 0 .. 4 * pairs - 1 /\ 4 * k + 1 # 4 * j /\ 4 * k + 1 # 4 * j + 2
          /\ 4 * k + 2 \in 0 .. 4 * pairs - 1 /\ 4 * k + 2 # 4 * j /\ 4 * k + 2 # 4 * j + 2
          /\ 4 * k + 3 \in 0 .. 4 * pairs - 1 /\ 4 * k + 3 # 4 * j /\ 4 * k + 3 # 4 * j + 2
      BY <1>7
    <2> QED
      BY <1>6, <2>1, Zenon DEF SameChunk
  <1>8. ChunkFolded(l, count, bits + 1, j)
    BY <1>1, <1>5, Zenon DEF ChunkFolded
  <1> QED
    BY <1>3, <1>7, <1>8, Zenon DEF l

(* Truncation, and what a round leaves in the vector. *)
LEMMA Truncated ==
  ASSUME NEW layers, NEW len \in Nat
  PROVE  /\ DOMAIN Truncate(layers, len) = 0 .. len - 1
         /\ \A i \in 0 .. len - 1 : Truncate(layers, len)[i] = layers[i]
  BY DEF Truncate

Shrunk(layers, pairs) ==
  Truncate(FoldPairs(Compact(layers, pairs), 2 * pairs, 2 * pairs), 2 * pairs)

AllFolded(layers, count, bits, pairs) ==
  /\ DOMAIN layers = 0 .. 4 * pairs - 1
  /\ \A j \in 0 .. pairs - 1 : ChunkFolded(layers, count, bits, j)

AllUnfolded(layers, count, bits, len) ==
  DOMAIN layers = 0 .. len - 1 /\ Unfolded(layers, count, bits, 0 .. len - 1)

LEMMA ShrinkKeeps ==
  ASSUME NEW count, NEW bits \in Nat, NEW pairs \in Nat, NEW layers,
         AllFolded(layers, count, bits, pairs)
  PROVE  AllUnfolded(Shrunk(layers, pairs), count, bits, 2 * pairs)
  <1> DEFINE r == Compact(layers, pairs)
             l == Shrunk(layers, pairs)
  <1>0. /\ DOMAIN layers = 0 .. 4 * pairs - 1
        /\ \A j \in 0 .. pairs - 1 : ChunkFolded(layers, count, bits, j)
    BY Zenon DEF AllFolded
  <1>1. Compacted(r, layers, pairs, 4 * pairs)
    <2>1. 4 * pairs \in Nat /\ 4 * pairs <= 4 * pairs /\ DOMAIN layers = 0 .. 4 * pairs - 1
      BY <1>0
    <2> QED
      BY <2>1, CompactMoves
  <1> HIDE DEF r
  <1>2. FoldPairs(r, 2 * pairs, 2 * pairs) = r
    <2>1. 2 * pairs \in Nat
      OBVIOUS
    <2> QED
      BY <2>1, FoldNoPair
  <1>3. l = Truncate(r, 2 * pairs)
    BY <1>2, Zenon DEF r, Shrunk
  <1> HIDE DEF l
  <1>4. DOMAIN l = 0 .. 2 * pairs - 1 /\ \A i \in 0 .. 2 * pairs - 1 : l[i] = r[i]
    <2>1. 2 * pairs \in Nat
      OBVIOUS
    <2> QED
      BY <1>3, <2>1, Truncated
  <1>5. ASSUME NEW i \in 0 .. 2 * pairs - 1 PROVE r[i] = Layer(count, bits, i)
    <2>1. PICK j \in Nat, b \in {0, 1} : i = 2 * j + b
      <3>1. i \in Nat
        OBVIOUS
      <3> QED
        BY <3>1, Halves
    <2>2. j \in 0 .. pairs - 1
      BY <2>1
    <2>3. r[2 * j] = layers[4 * j] /\ r[2 * j + 1] = layers[4 * j + 2]
      BY <1>1, <2>2 DEF Compacted
    <2>4. layers[4 * j] = Layer(count, bits, 2 * j) /\ layers[4 * j + 2] = Layer(count, bits, 2 * j + 1)
      BY <1>0, <2>2, Zenon DEF ChunkFolded
    <2>5. i = 2 * j \/ i = 2 * j + 1
      BY <2>1
    <2> QED
      BY <2>3, <2>4, <2>5, Zenon
  <1>6. Unfolded(l, count, bits, 0 .. 2 * pairs - 1)
    BY <1>4, <1>5, Zenon DEF Unfolded
  <1> QED
    BY <1>4, <1>6, Zenon DEF AllUnfolded, l

(* The chunks of unfolded layers are pending. *)
LEMMA UnfoldedChunks ==
  ASSUME NEW l, NEW count, NEW bits, NEW pairs \in Nat,
         Unfolded(l, count, bits, 0 .. 4 * pairs - 1), NEW j \in 0 .. pairs - 1
  PROVE  ChunkPending(l, count, bits, j)
  <1>1. /\ 4 * j \in 0 .. 4 * pairs - 1 /\ 4 * j + 1 \in 0 .. 4 * pairs - 1
        /\ 4 * j + 2 \in 0 .. 4 * pairs - 1 /\ 4 * j + 3 \in 0 .. 4 * pairs - 1
    OBVIOUS
  <1> QED
    BY <1>1, Zenon DEF Unfolded, ChunkPending

(* The fold of the last pair, in either form. *)
LEMMA LastFold ==
  ASSUME NEW count, NEW bits \in Nat, NEW layers, DOMAIN layers = 0 .. 2 - 1,
         Unfolded(layers, count, bits, 0 .. 2 - 1)
  PROVE  /\ DOMAIN Truncate(FoldPairs(layers, 0, 1), 1) = 0 .. 1 - 1
         /\ Truncate(FoldPairs(layers, 0, 1), 1)[0] = Layer(count, bits + 1, 0)
         /\ Truncate(FoldPairsInPlace(layers, 1), 1)[0] = Layer(count, bits + 1, 0)
  <1>1. 0 .. 2 - 1 = {0, 1} /\ 1 \in Nat /\ 0 \in 0 .. 1 - 1 /\ 0 \in Nat
        /\ 2 * 0 = 0 /\ 2 * 0 + 1 = 1
    OBVIOUS
  <1>2. DOMAIN layers = {0, 1}
    BY <1>1
  <1>3. layers[0] = Layer(count, bits, 0) /\ layers[1] = Layer(count, bits, 1)
    BY <1>1 DEF Unfolded
  <1>4. Fold(layers[0], layers[1]) = Layer(count, bits + 1, 0)
    <2>1. Fold(Layer(count, bits, 2 * 0), Layer(count, bits, 2 * 0 + 1)) = Layer(count, bits + 1, 0)
      BY <1>1, FoldLayers
    <2> QED
      BY <1>1, <1>3, <2>1
  <1>5. FoldPairs(layers, 0, 1)[0] = Layer(count, bits + 1, 0)
    BY <1>2, <1>4, FoldOnePair
  <1>6. FoldPairsInPlace(layers, 1)[0] = Layer(count, bits + 1, 0)
    BY <1>2, <1>4, FoldOnePairInPlace
  <1>7. DOMAIN Truncate(FoldPairs(layers, 0, 1), 1) = 0 .. 1 - 1
        /\ Truncate(FoldPairs(layers, 0, 1), 1)[0] = FoldPairs(layers, 0, 1)[0]
    BY <1>1, Truncated
  <1>8. Truncate(FoldPairsInPlace(layers, 1), 1)[0] = FoldPairsInPlace(layers, 1)[0]
    BY <1>1, Truncated
  <1> QED
    BY <1>5, <1>6, <1>7, <1>8

(* A worker that ends adds the contribution of its pair. *)
CompletesPair(count, round, len, I, J, j) ==
  IdealSum(count, round, len, I \ J) \cup {Ideal(count, round, len, j)}
    = IdealSum(count, round, len, I \ (J \ {j}))

LEMMA OneMorePair ==
  ASSUME NEW count, NEW round, NEW len, NEW I, NEW J, J \subseteq I, NEW j \in J
  PROVE  CompletesPair(count, round, len, I, J, j)
  <1> DEFINE lhs == IdealSum(count, round, len, I \ J) \cup {Ideal(count, round, len, j)}
             rhs == IdealSum(count, round, len, I \ (J \ {j}))
  <1>1. ASSUME NEW x \in lhs PROVE x \in rhs
    BY DEF IdealSum
  <1>2. ASSUME NEW x \in rhs PROVE x \in lhs
    <2>1. PICK k \in I \ (J \ {j}) : x = Ideal(count, round, len, k)
      BY DEF IdealSum
    <2>2. k = j \/ k \in I \ J
      OBVIOUS
    <2> QED
      BY <2>1, <2>2 DEF IdealSum
  <1> HIDE DEF lhs, rhs
  <1>3. lhs = rhs
    BY <1>1, <1>2
  <1> QED
    BY <1>3, Zenon DEF lhs, rhs, CompletesPair

-----------------------------------------------------------------------------
(* The layers of the loop, stage by stage *)

(* What is in the vector of layers of a batch of count instances and ell    *)
(* rounds, in round round, when the workers of work have not finished and   *)
(* len layers are in use.                                                   *)
LayersOK(layers, count, ell, st, round, work, len) ==
  /\ DOMAIN layers = 0 .. len - 1
  /\ st \in {"prove_pairs", "prove_cross"} => Unfolded(layers, count, 0, 0 .. len - 1)
  /\ st \in {"fold_chunks", "fold_and_prove"} =>
       \A j \in 0 .. PowerOfTwo[ell - round - 1] - 1 :
         /\ j \in work => ChunkPending(layers, count, round - 1, j)
         /\ j \notin work => ChunkFolded(layers, count, round, j)
  /\ st = "finish" =>
       /\ ell = 1 => Unfolded(layers, count, 1, {0})
       /\ ell # 1 => Unfolded(layers, count, ell - 1, {0, 1})

(* The layers that are never folded. *)
HoldsBatch(layers, count, ell) ==
  /\ DOMAIN layers = 0 .. PowerOfTwo[ell] - 1
  /\ \A b \in 0 .. PowerOfTwo[ell] - 1 : layers[b] = FieldEntry(AtPosition(count, b))

(* Rounds after the first one are about chunks. *)
InRound(ell, round) == ell \in Nat /\ round \in Nat /\ 0 < round /\ round < ell

LEMMA RoundPowers ==
  ASSUME NEW ell, NEW round, InRound(ell, round)
  PROVE  /\ ell - round - 1 \in Nat
         /\ PowerOfTwo[ell - round - 1] \in Nat \ {0}
         /\ PowerOfTwo[ell - round] = 2 * PowerOfTwo[ell - round - 1]
         /\ PowerOfTwo[ell - round + 1] = 4 * PowerOfTwo[ell - round - 1]
  <1> DEFINE k == ell - round - 1
  <1>1. k \in Nat /\ k + 1 = ell - round /\ (k + 1) + 1 = ell - round + 1 /\ k + 1 \in Nat
    BY DEF InRound
  <1> HIDE DEF k
  <1>2. /\ PowerOfTwo[k + 1] = 2 * PowerOfTwo[k]
        /\ PowerOfTwo[(k + 1) + 1] = 2 * PowerOfTwo[k + 1]
        /\ PowerOfTwo[k] \in Nat \ {0}
    BY <1>1, PowerFacts, PowersArePositive
  <1>3. PowerOfTwo[(k + 1) + 1] = 4 * PowerOfTwo[k]
    BY <1>2
  <1>4. /\ PowerOfTwo[ell - round] = 2 * PowerOfTwo[k]
        /\ PowerOfTwo[ell - round + 1] = 4 * PowerOfTwo[k]
    BY <1>1, <1>2, <1>3
  <1> QED
    BY <1>1, <1>2, <1>4 DEF k

(* A worker that folds its chunk. *)
LEMMA LayersFold ==
  ASSUME NEW layers, NEW count, NEW ell, NEW st \in {"fold_chunks", "fold_and_prove"}, NEW round,
         NEW work, NEW j \in work, work \subseteq 0 .. PowerOfTwo[ell - round - 1] - 1,
         InRound(ell, round),
         LayersOK(layers, count, ell, st, round, work, 4 * PowerOfTwo[ell - round - 1])
  PROVE  /\ LayersOK(FoldChunk(layers, j), count, ell, st, round, work \ {j},
                     4 * PowerOfTwo[ell - round - 1])
         /\ ChunkFolded(FoldChunk(layers, j), count, round, j)
  <1> DEFINE pairs == PowerOfTwo[ell - round - 1]
             l == FoldChunk(layers, j)
  <1>1. pairs \in Nat
    BY RoundPowers
  <1>2. round - 1 \in Nat /\ (round - 1) + 1 = round
    BY DEF InRound
  <1>3. j \in 0 .. pairs - 1 /\ DOMAIN layers = 0 .. 4 * pairs - 1
    BY DEF LayersOK
  <1>4. \A k \in 0 .. pairs - 1 :
          /\ k \in work => ChunkPending(layers, count, round - 1, k)
          /\ k \notin work => ChunkFolded(layers, count, round, k)
    BY DEF LayersOK
  <1> HIDE DEF pairs
  <1>5. ChunkPending(layers, count, round - 1, j)
    BY <1>3, <1>4
  <1>6. /\ DOMAIN l = 0 .. 4 * pairs - 1
        /\ ChunkFolded(l, count, (round - 1) + 1, j)
        /\ \A k \in 0 .. pairs - 1 : k # j => SameChunk(l, layers, k)
    BY <1>1, <1>2, <1>3, <1>5, FoldChunkFolds
  <1> HIDE DEF l
  <1>7. ChunkFolded(l, count, round, j)
    BY <1>2, <1>6, Zenon
  <1>8. ASSUME NEW k \in 0 .. pairs - 1
        PROVE  /\ k \in work \ {j} => ChunkPending(l, count, round - 1, k)
               /\ k \notin work \ {j} => ChunkFolded(l, count, round, k)
    <2>1. CASE k = j
      BY <1>7, <2>1
    <2>2. CASE k # j
      <3>1. SameChunk(l, layers, k)
        BY <1>6, <2>2
      <3>2. /\ ChunkPending(layers, count, round - 1, k) => ChunkPending(l, count, round - 1, k)
            /\ ChunkFolded(layers, count, round, k) => ChunkFolded(l, count, round, k)
        BY <3>1, SameChunkStays
      <3> QED
        BY <1>4, <2>2, <3>2
    <2> QED
      BY <2>1, <2>2
  <1>9. LayersOK(l, count, ell, st, round, work \ {j}, 4 * pairs)
    BY <1>6, <1>8 DEF LayersOK, pairs
  <1> QED
    BY <1>7, <1>9, Zenon DEF l, pairs

(* The end of a round: the compaction, and the stage that comes next.       *)
StageAfter(ell, round) == IF round + 1 = ell THEN "finish" ELSE "fold_and_prove"
WorkAfter(ell, round, len) == IF round + 1 = ell THEN {} ELSE Chunks(len)

LEMMA LayersShrink ==
  ASSUME NEW layers, NEW count, NEW ell, NEW st \in {"fold_chunks", "fold_and_prove"}, NEW round,
         InRound(ell, round),
         LayersOK(layers, count, ell, st, round, {}, 4 * PowerOfTwo[ell - round - 1]),
         NEW pairs, pairs = PowerOfTwo[ell - round - 1]
  PROVE  LayersOK(Shrunk(layers, pairs), count, ell, StageAfter(ell, round), round + 1,
                  WorkAfter(ell, round, 2 * pairs), 2 * pairs)
  <1>1. pairs \in Nat \ {0} /\ round \in Nat
    BY RoundPowers DEF InRound
  <1>2. DOMAIN layers = 0 .. 4 * pairs - 1
        /\ \A j \in 0 .. pairs - 1 : ChunkFolded(layers, count, round, j)
    BY DEF LayersOK
  <1> DEFINE l == Shrunk(layers, pairs)
  <1>3. DOMAIN l = 0 .. 2 * pairs - 1 /\ Unfolded(l, count, round, 0 .. 2 * pairs - 1)
    <2>1. pairs \in Nat
      BY <1>1
    <2>2. AllFolded(layers, count, round, pairs)
      BY <1>2, Zenon DEF AllFolded
    <2>3. AllUnfolded(Shrunk(layers, pairs), count, round, 2 * pairs)
      BY <1>1, <2>1, <2>2, ShrinkKeeps
    <2> QED
      BY <2>3, Zenon DEF AllUnfolded
  <1> HIDE DEF l
  <1>4. (round + 1) - 1 = round
    BY <1>1
  <1>5. CASE round + 1 = ell
    <2>1. StageAfter(ell, round) = "finish"
      BY <1>5 DEF StageAfter
    <2>2. ell - round - 1 = 0 /\ ell # 1 /\ ell - 1 = round
      BY <1>1, <1>5 DEF InRound
    <2>3. pairs = 1
      BY <2>2, PowerFacts
    <2>4. 0 .. 2 * pairs - 1 = {0, 1}
      BY <2>3
    <2>5. Unfolded(l, count, ell - 1, {0, 1})
      BY <1>3, <2>2, <2>4, Zenon
    <2> DEFINE s == StageAfter(ell, round)
               w == WorkAfter(ell, round, 2 * pairs)
    <2>6. s = "finish" /\ s \notin {"prove_pairs", "prove_cross"}
          /\ s \notin {"fold_chunks", "fold_and_prove"}
      BY <2>1
    <2> HIDE DEF s, w
    <2>7. LayersOK(l, count, ell, s, round + 1, w, 2 * pairs)
      BY <1>3, <2>2, <2>5, <2>6, Zenon DEF LayersOK
    <2> QED
      BY <2>7, Zenon DEF s, w, l
  <1>6. CASE round + 1 # ell
    <2>1. StageAfter(ell, round) = "fold_and_prove"
      BY <1>6 DEF StageAfter
    <2>2. InRound(ell, round + 1)
      BY <1>1, <1>6 DEF InRound
    <2> DEFINE q == PowerOfTwo[ell - (round + 1) - 1]
    <2>3. q \in Nat \ {0} /\ pairs = 2 * q
      <3>1. /\ PowerOfTwo[ell - (round + 1) - 1] \in Nat \ {0}
            /\ PowerOfTwo[ell - (round + 1)] = 2 * PowerOfTwo[ell - (round + 1) - 1]
        BY <2>2, RoundPowers
      <3>2. ell - (round + 1) = ell - round - 1
        BY <1>1 DEF InRound
      <3> QED
        BY <3>1, <3>2
    <2> HIDE DEF q
    <2>4. 2 * pairs = 4 * q /\ (2 * pairs) \div 4 = q
      BY <2>3
    <2>5. WorkAfter(ell, round, 2 * pairs) = 0 .. q - 1
      BY <1>6, <2>4 DEF WorkAfter, Chunks
    <2>6. ASSUME NEW j \in 0 .. q - 1 PROVE ChunkPending(l, count, round, j)
      <3>1. q \in Nat /\ Unfolded(l, count, round, 0 .. 4 * q - 1)
        BY <1>3, <2>3, <2>4
      <3> QED
        BY <3>1, UnfoldedChunks
    <2>7. \A j \in 0 .. q - 1 :
            /\ j \in WorkAfter(ell, round, 2 * pairs) => ChunkPending(l, count, (round + 1) - 1, j)
            /\ j \notin WorkAfter(ell, round, 2 * pairs) => ChunkFolded(l, count, round + 1, j)
      BY <1>4, <2>5, <2>6, Zenon
    <2> DEFINE s == StageAfter(ell, round)
               w == WorkAfter(ell, round, 2 * pairs)
    <2>8. s # "finish" /\ s \notin {"prove_pairs", "prove_cross"}
      BY <2>1
    <2> HIDE DEF s
    <2>9. LayersOK(l, count, ell, s, round + 1, w, 2 * pairs)
      <3> HIDE DEF w
      <3>1. \A j \in 0 .. q - 1 :
              /\ j \in w => ChunkPending(l, count, (round + 1) - 1, j)
              /\ j \notin w => ChunkFolded(l, count, round + 1, j)
        BY <2>7 DEF w
      <3> QED
        BY <1>3, <2>8, <3>1, Zenon DEF LayersOK, q
    <2> QED
      BY <2>9, Zenon DEF s, w, l
  <1> QED
    BY <1>5, <1>6 DEF l

(* Unfolded layers before the first round that folds chunks. *)
LEMMA LayersStart ==
  ASSUME NEW layers, NEW count, NEW ell, InRound(ell, 1), NEW len, len = PowerOfTwo[ell],
         DOMAIN layers = 0 .. len - 1, Unfolded(layers, count, 0, 0 .. len - 1),
         NEW st \in {"prove_cross", "fold_chunks", "fold_and_prove"}
  PROVE  LayersOK(layers, count, ell, st, 1, Chunks(len), len)
  <1> DEFINE q == PowerOfTwo[ell - 1 - 1]
  <1>1. q \in Nat \ {0} /\ len = 4 * q
    <2>1. ell - 1 + 1 = ell
      BY DEF InRound
    <2> QED
      BY <2>1, RoundPowers
  <1> HIDE DEF q
  <1>2. Chunks(len) = 0 .. q - 1
    <2>1. len \div 4 = q
      BY <1>1
    <2> QED
      BY <2>1, Zenon DEF Chunks
  <1>3. \A j \in 0 .. q - 1 : ChunkPending(layers, count, 0, j)
    BY <1>1, UnfoldedChunks
  <1>4. 1 - 1 = 0
    OBVIOUS
  <1>5. \A j \in 0 .. q - 1 :
          /\ j \in Chunks(len) => ChunkPending(layers, count, 1 - 1, j)
          /\ j \notin Chunks(len) => ChunkFolded(layers, count, 1, j)
    BY <1>2, <1>3, <1>4, Zenon
  <1> QED
    BY <1>5 DEF LayersOK, q

-----------------------------------------------------------------------------
(* The invariant of the loop *)

(* The pairs of layers that a round takes together. *)
PairsAt(round) == 0 .. PowerOfTwo[ell_b - round - 1] - 1

CountersInv ==
  /\ n \in Sizes
  /\ has_i64 \in BOOLEAN
  /\ t \in 0 .. ell_b
  /\ m = IF t = 0 \/ ell_b = 1 THEN PowerOfTwo[ell_b - t] ELSE PowerOfTwo[ell_b - t + 1]
  /\ \E S : polys \in Seq(S)
  /\ Len(polys) = t

Stages == {"prove_pairs", "prove_cross", "fold_chunks", "fold_and_prove", "finish", "end"}

StagesInv ==
  /\ stage \in Stages
  /\ stage = "prove_pairs" => t = 0
  /\ stage \in {"prove_cross", "fold_chunks"} => t = 1 /\ t < ell_b /\ has_i64
  /\ stage = "fold_and_prove" => 0 < t /\ t < ell_b
  /\ stage = "finish" => t = ell_b
  /\ stage \in {"finish", "end"} => todo = {}
  /\ stage \notin {"finish", "end"} => todo \subseteq PairsAt(t)
  /\ stage # "end" => out = Promise!Running

(* The layers of A and B, and those of C when C is folded, are where the    *)
(* stage expects them; C is left as it was otherwise.                       *)
DataInv ==
  stage # "end" =>
    /\ LayersOK(ab, n, ell_b, stage, t, todo, m)
    /\ has_i64 => HoldsBatch(c, n, ell_b)
    /\ ~has_i64 => LayersOK(c, n, ell_b, stage, t, todo, m)

(* The finished workers have contributed what their pairs stand for.        *)
AccInv ==
  /\ stage \in {"prove_pairs", "prove_cross", "fold_and_prove"} =>
       acc = IdealSum(n, t, ell_b - t - 1, PairsAt(t) \ todo)
  /\ stage = "fold_chunks" => acc = IdealSum(n, t, ell_b - t - 1, PairsAt(t))

PrefixInv == has_i64 /\ t > 0 => prefix = PrefixTable(t)

FoldInv == CountersInv /\ StagesInv /\ DataInv /\ AccInv /\ PrefixInv

(* The number of rounds. *)
LEMMA NumberOfRounds ==
  ASSUME n \in Sizes
  PROVE  n \in Nat /\ ell_b = Log2(n) /\ ell_b \in Nat \ {0}
  <1>1. n \in Nat /\ n > 1
    BY SizesAssumption
  <1>2. Promise!PowerOfTwo = PowerOfTwo
    BY Zenon DEF Promise!PowerOfTwo, PowerOfTwo
  <1>3. ell_b = Log2(n)
    BY <1>2, Zenon DEF ell_b, Promise!NumRounds, Promise!Log2, Log2
  <1>4. Log2(n) \in 0 .. n /\ n <= PowerOfTwo[Log2(n)]
    BY <1>1, Logarithm
  <1>5. Log2(n) # 0
    BY <1>1, <1>4, PowerFacts
  <1> QED
    BY <1>1, <1>3, <1>4, <1>5

LEMMA RoundsStay == ASSUME n' = n PROVE ell_b' = ell_b
  BY DEF ell_b, Promise!NumRounds

(* How many layers are in use. *)
LEMMA LengthAtStart ==
  ASSUME n \in Sizes, CountersInv, t = 0
  PROVE  /\ ell_b - t - 1 \in Nat
         /\ PowerOfTwo[ell_b - t - 1] \in Nat \ {0}
         /\ m = PowerOfTwo[ell_b]
         /\ m = 2 * PowerOfTwo[ell_b - t - 1]
         /\ m \div 2 = PowerOfTwo[ell_b - t - 1]
  <1>1. ell_b \in Nat \ {0}
    BY NumberOfRounds
  <1> DEFINE k == ell_b - t - 1
  <1>2. k \in Nat /\ ell_b = k + 1 /\ ell_b - t = ell_b
    BY <1>1
  <1>3. m = PowerOfTwo[ell_b]
    BY <1>2 DEF CountersInv
  <1> HIDE DEF k
  <1>4. PowerOfTwo[k + 1] = 2 * PowerOfTwo[k] /\ PowerOfTwo[k] \in Nat \ {0}
    BY <1>2, PowerFacts, PowersArePositive
  <1>5. m = 2 * PowerOfTwo[k]
    BY <1>2, <1>3, <1>4
  <1>6. m \div 2 = PowerOfTwo[k]
    BY <1>4, <1>5
  <1> QED
    BY <1>2, <1>3, <1>4, <1>5, <1>6, Zenon DEF k

LEMMA LengthInRound ==
  ASSUME n \in Sizes, CountersInv, 0 < t, t < ell_b
  PROVE  /\ InRound(ell_b, t)
         /\ ell_b - t - 1 \in Nat
         /\ PowerOfTwo[ell_b - t - 1] \in Nat \ {0}
         /\ m = 4 * PowerOfTwo[ell_b - t - 1]
         /\ m \div 4 = PowerOfTwo[ell_b - t - 1]
         /\ m \div 2 = 2 * PowerOfTwo[ell_b - t - 1]
         /\ (m \div 2) \div 2 = PowerOfTwo[ell_b - t - 1]
         /\ 2 * PowerOfTwo[ell_b - t - 1] = PowerOfTwo[ell_b - t]
  <1>1. ell_b \in Nat \ {0} /\ t \in Nat
    BY NumberOfRounds DEF CountersInv
  <1>2. InRound(ell_b, t)
    BY <1>1 DEF InRound
  <1>3. m = PowerOfTwo[ell_b - t + 1]
    BY <1>1 DEF CountersInv
  <1> DEFINE q == PowerOfTwo[ell_b - t - 1]
  <1>4. ell_b - t - 1 \in Nat /\ q \in Nat \ {0} /\ m = 4 * q /\ PowerOfTwo[ell_b - t] = 2 * q
    BY <1>2, <1>3, RoundPowers
  <1> HIDE DEF q
  <1>5. m \div 4 = q /\ m \div 2 = 2 * q /\ (m \div 2) \div 2 = q
    BY <1>4
  <1> QED
    BY <1>2, <1>4, <1>5 DEF q

(* What a worker reads on the small-value path is the layer. *)
Reads(layers, i) == I64Layer(i) \cup Large(layers[i])

LEMMA ReadsLayer ==
  ASSUME NEW layers, NEW I, I \subseteq Nat, Unfolded(layers, n, 0, I), NEW i \in I
  PROVE  /\ Reads(layers, i) = Layer(n, 0, i)
         /\ layers[i] = Layer(n, 0, i)
  <1>1. layers[i] = Layer(n, 0, i)
    BY Zenon DEF Unfolded
  <1>2. Layer(n, 0, i) = FieldEntry(AtPosition(n, i))
    BY NoBitsBound
  <1>3. I64Layer(i) = Small(FieldEntry(AtPosition(n, i)))
    BY Zenon DEF I64Layer, PaddedIndex, AtPosition
  <1>4. Reads(layers, i) = FieldEntry(AtPosition(n, i))
    BY <1>1, <1>2, <1>3, PartsMakeField, Zenon DEF Reads
  <1> QED
    BY <1>1, <1>2, <1>4, Zenon

(* The field layers of the batch. *)
LEMMA FieldLayersHoldBatch ==
  ASSUME n \in Sizes
  PROVE  /\ HoldsBatch(FieldLayers, n, ell_b)
         /\ \A b \in 0 .. n_padded - 1 : CVal(b) = FieldEntry(AtPosition(n, b))
         /\ DOMAIN FieldLayers = 0 .. n_padded - 1
         /\ Unfolded(FieldLayers, n, 0, 0 .. n_padded - 1)
  <1>1. DOMAIN FieldLayers = 0 .. n_padded - 1
    BY DEF FieldLayers
  <1>2. ASSUME NEW b \in 0 .. n_padded - 1 PROVE FieldLayers[b] = FieldEntry(AtPosition(n, b))
    BY Zenon DEF FieldLayers, PaddedIndex, AtPosition
  <1>3. ASSUME NEW b \in 0 .. n_padded - 1 PROVE CVal(b) = FieldEntry(AtPosition(n, b))
    <2>1. I64Layer(b) = Small(FieldEntry(AtPosition(n, b)))
      BY Zenon DEF I64Layer, PaddedIndex, AtPosition
    <2> QED
      BY <1>2, <2>1, PartsMakeField, Zenon DEF CVal
  <1>4. ASSUME NEW b \in 0 .. n_padded - 1 PROVE FieldLayers[b] = Layer(n, 0, b)
    <2>1. b \in Nat
      OBVIOUS
    <2> QED
      BY <1>2, <2>1, NoBitsBound, Zenon
  <1>5. HoldsBatch(FieldLayers, n, ell_b)
    BY <1>1, <1>2, Zenon DEF HoldsBatch, n_padded
  <1> QED
    BY <1>1, <1>3, <1>4, <1>5, Zenon DEF Unfolded

-----------------------------------------------------------------------------
(* The workers *)

(* A contribution whose parts are the layers of its pair is the ideal one. *)
LEMMA ContributionIs ==
  ASSUME NEW j, NEW lo, NEW hi, NEW cc,
         lo = Layer(n, t, 2 * j), hi = Layer(n, t, 2 * j + 1),
         cc = IF t = 0 THEN {} ELSE Layer(n, t, 2 * j)
  PROVE  Contribution(j, lo, hi, cc) = Ideal(n, t, ell_b - t - 1, j)
  BY Zenon DEF Contribution, SuffixWeight, Ideal

(* C, when it is not folded. *)
LEMMA CValLoInRound ==
  ASSUME CountersInv, PrefixInv, has_i64, 0 < t, t < ell_b, NEW j \in PairsAt(t)
  PROVE  CValLo(j) = Layer(n, t, 2 * j)
  <1>1. n \in Sizes
    BY DEF CountersInv
  <1>2. t \in Nat /\ ell_b - t - 1 \in Nat /\ t + (ell_b - t - 1) + 1 = ell_b
    BY <1>1, NumberOfRounds DEF CountersInv
  <1>3. prefix = PrefixTable(t)
    BY DEF PrefixInv
  <1>4. n_padded = PowerOfTwo[t + (ell_b - t - 1) + 1]
    BY <1>2, Zenon DEF n_padded
  <1>5. \A b \in 0 .. n_padded - 1 : CVal(b) = FieldEntry(AtPosition(n, b))
    BY <1>1, FieldLayersHoldBatch
  <1>6. j \in 0 .. PowerOfTwo[ell_b - t - 1] - 1
    BY DEF PairsAt
  <1> QED
    BY <1>2, <1>3, <1>4, <1>5, <1>6, CValLoIsLayer

(* The variables that only the thread of the loop writes, and what follows. *)
LoopUnchanged == UNCHANGED <<n, has_i64, prefix, t, m, stage, polys, out>>

LEMMA WorkerKeeps ==
  ASSUME FoldInv, LoopUnchanged, NEW j \in todo, todo' = todo \ {j}
  PROVE  CountersInv' /\ StagesInv' /\ PrefixInv'
  <1>1. ell_b' = ell_b
    BY RoundsStay DEF LoopUnchanged
  <1>2. CountersInv'
    BY <1>1 DEF FoldInv, CountersInv, LoopUnchanged
  <1>3. PrefixInv'
    BY DEF FoldInv, PrefixInv, LoopUnchanged
  <1>4. Promise!Running' = Promise!Running
    BY DEF Promise!Running
  <1>5. StagesInv'
    BY <1>1, <1>4 DEF FoldInv, StagesInv, LoopUnchanged, PairsAt
  <1> QED
    BY <1>2, <1>3, <1>5

(* The contribution of a finished worker completes acc. *)
LEMMA WorkerContributes ==
  ASSUME FoldInv, LoopUnchanged, NEW j \in todo, todo' = todo \ {j},
         stage \in {"prove_pairs", "prove_cross", "fold_and_prove"},
         acc' = acc \cup {Ideal(n, t, ell_b - t - 1, j)}
  PROVE  AccInv'
  <1>1. ell_b' = ell_b /\ PairsAt(t)' = PairsAt(t)
    BY RoundsStay DEF LoopUnchanged, PairsAt
  <1>2. acc = IdealSum(n, t, ell_b - t - 1, PairsAt(t) \ todo) /\ todo \subseteq PairsAt(t)
    BY DEF FoldInv, AccInv, StagesInv
  <1>3. acc' = IdealSum(n, t, ell_b - t - 1, PairsAt(t) \ (todo \ {j}))
    <2> DEFINE I == PairsAt(t)
               len == ell_b - t - 1
    <2>1. acc = IdealSum(n, t, len, I \ todo) /\ todo \subseteq I
          /\ acc' = acc \cup {Ideal(n, t, len, j)}
      BY <1>2
    <2> HIDE DEF I, len
    <2>2. CompletesPair(n, t, len, I, todo, j)
      BY <2>1, OneMorePair, Zenon
    <2>3. acc' = IdealSum(n, t, len, I \ (todo \ {j}))
      BY <2>1, <2>2, Zenon DEF CompletesPair
    <2> QED
      BY <2>3, Zenon DEF I, len
  <1>4. stage' = stage /\ n' = n /\ t' = t /\ stage' # "fold_chunks"
    BY DEF LoopUnchanged
  <1>5. acc' = IdealSum(n', t', ell_b' - t' - 1, PairsAt(t)' \ todo')
    BY <1>1, <1>3, <1>4
  <1> QED
    BY <1>4, <1>5 DEF AccInv

(* Before the folding starts the layers do not depend on the workers. *)
LEMMA LayersWait ==
  ASSUME NEW layers, NEW count, NEW ell, NEW st \in {"prove_pairs", "prove_cross"}, NEW round,
         NEW work, NEW other, NEW len, LayersOK(layers, count, ell, st, round, work, len)
  PROVE  LayersOK(layers, count, ell, st, round, other, len)
  <1>1. st \notin {"fold_chunks", "fold_and_prove"} /\ st # "finish"
    OBVIOUS
  <1> QED
    BY <1>1, Zenon DEF LayersOK

LEMMA WaitingData ==
  ASSUME FoldInv, LoopUnchanged, stage \in {"prove_pairs", "prove_cross"}, UNCHANGED <<ab, c>>
  PROVE  DataInv'
  <1>1. ell_b' = ell_b /\ n' = n /\ stage' = stage /\ t' = t /\ m' = m /\ has_i64' = has_i64
        /\ ab' = ab /\ c' = c
    BY RoundsStay DEF LoopUnchanged
  <1>2. /\ LayersOK(ab, n, ell_b, stage, t, todo, m)
        /\ has_i64 => HoldsBatch(c, n, ell_b)
        /\ ~has_i64 => LayersOK(c, n, ell_b, stage, t, todo, m)
    BY DEF FoldInv, DataInv
  <1>3. /\ LayersOK(ab, n, ell_b, stage, t, todo', m)
        /\ ~has_i64 => LayersOK(c, n, ell_b, stage, t, todo', m)
    BY <1>2, LayersWait
  <1>4. /\ LayersOK(ab', n', ell_b', stage', t', todo', m')
        /\ has_i64' => HoldsBatch(c', n', ell_b')
        /\ ~has_i64' => LayersOK(c', n', ell_b', stage', t', todo', m')
    BY <1>1, <1>2, <1>3, Zenon
  <1> QED
    BY <1>4, Zenon DEF DataInv

LEMMA ProvePairKeeps ==
  ASSUME FoldInv, NEW j \in todo, ProvePair(j)
  PROVE  FoldInv'
  <1> DEFINE read(i) == IF has_i64 THEN Reads(ab, i) ELSE ab[i]
             lo == read(2 * j)
             hi == read(2 * j + 1)
  <1>1. /\ stage = "prove_pairs"
        /\ acc' = acc \cup {Contribution(j, lo, hi, {})}
        /\ todo' = todo \ {j}
        /\ UNCHANGED <<ab, c>>
        /\ LoopUnchanged
    BY DEF ProvePair, Reads, LoopUnchanged
  <1>2. t = 0 /\ todo \subseteq PairsAt(t) /\ CountersInv /\ n \in Sizes
    BY <1>1 DEF FoldInv, StagesInv, CountersInv
  <1>3. Unfolded(ab, n, 0, 0 .. m - 1)
    BY <1>1 DEF FoldInv, DataInv, LayersOK
  <1>4. 2 * j \in 0 .. m - 1 /\ 2 * j + 1 \in 0 .. m - 1 /\ 0 .. m - 1 \subseteq Nat
    <2> DEFINE q == PowerOfTwo[ell_b - t - 1]
    <2>1. q \in Nat /\ m = 2 * q
      BY <1>2, LengthAtStart
    <2>2. j \in 0 .. q - 1
      BY <1>2 DEF PairsAt
    <2> HIDE DEF q
    <2> QED
      BY <2>1, <2>2
  <1>5. lo = Layer(n, t, 2 * j) /\ hi = Layer(n, t, 2 * j + 1)
    <2>1. Reads(ab, 2 * j) = Layer(n, 0, 2 * j) /\ ab[2 * j] = Layer(n, 0, 2 * j)
      BY <1>3, <1>4, ReadsLayer
    <2>2. Reads(ab, 2 * j + 1) = Layer(n, 0, 2 * j + 1) /\ ab[2 * j + 1] = Layer(n, 0, 2 * j + 1)
      BY <1>3, <1>4, ReadsLayer
    <2> QED
      BY <1>2, <2>1, <2>2, Zenon
  <1> HIDE DEF lo, hi
  <1>6. Contribution(j, lo, hi, {}) = Ideal(n, t, ell_b - t - 1, j)
    BY <1>2, <1>5, ContributionIs
  <1>7. acc' = acc \cup {Ideal(n, t, ell_b - t - 1, j)}
    BY <1>1, <1>6, Zenon
  <1>8. AccInv'
    BY <1>1, <1>7, WorkerContributes
  <1>9. DataInv'
    BY <1>1, WaitingData
  <1>10. CountersInv' /\ StagesInv' /\ PrefixInv'
    BY <1>1, WorkerKeeps
  <1> QED
    BY <1>8, <1>9, <1>10 DEF FoldInv

LEMMA ProveCrossKeeps ==
  ASSUME FoldInv, NEW j \in todo, ProveCross(j)
  PROVE  FoldInv'
  <1> DEFINE lo == Fold(Reads(ab, 4 * j), Reads(ab, 4 * j + 1))
             hi == Fold(Reads(ab, 4 * j + 2), Reads(ab, 4 * j + 3))
  <1>1. /\ stage = "prove_cross"
        /\ acc' = acc \cup {Contribution(j, lo, hi, CValLo(j))}
        /\ todo' = todo \ {j}
        /\ UNCHANGED <<ab, c>>
        /\ LoopUnchanged
    BY DEF ProveCross, Reads, LoopUnchanged
  <1>2. t = 1 /\ t < ell_b /\ has_i64 /\ todo \subseteq PairsAt(t) /\ CountersInv /\ n \in Sizes
        /\ PrefixInv
    BY <1>1 DEF FoldInv, StagesInv, CountersInv
  <1>3. Unfolded(ab, n, 0, 0 .. m - 1)
    BY <1>1 DEF FoldInv, DataInv, LayersOK
  <1>4. /\ 4 * j \in 0 .. m - 1 /\ 4 * j + 1 \in 0 .. m - 1 /\ 4 * j + 2 \in 0 .. m - 1
        /\ 4 * j + 3 \in 0 .. m - 1 /\ 0 .. m - 1 \subseteq Nat /\ j \in Nat
    <2> DEFINE q == PowerOfTwo[ell_b - t - 1]
    <2>1. q \in Nat /\ m = 4 * q
      BY <1>2, LengthInRound
    <2>2. j \in 0 .. q - 1
      BY <1>2 DEF PairsAt
    <2> HIDE DEF q
    <2> QED
      BY <2>1, <2>2
  <1>5. lo = Layer(n, t, 2 * j) /\ hi = Layer(n, t, 2 * j + 1)
    <2>1. Reads(ab, 4 * j) = Layer(n, 0, 4 * j)
      BY <1>3, <1>4, ReadsLayer
    <2>2. Reads(ab, 4 * j + 1) = Layer(n, 0, 4 * j + 1)
      BY <1>3, <1>4, ReadsLayer
    <2>3. Reads(ab, 4 * j + 2) = Layer(n, 0, 4 * j + 2)
      BY <1>3, <1>4, ReadsLayer
    <2>4. Reads(ab, 4 * j + 3) = Layer(n, 0, 4 * j + 3)
      BY <1>3, <1>4, ReadsLayer
    <2>5. 0 \in Nat /\ 0 + 1 = t
      BY <1>2
    <2>6. /\ Fold(Layer(n, 0, 4 * j), Layer(n, 0, 4 * j + 1)) = Layer(n, 0 + 1, 2 * j)
          /\ Fold(Layer(n, 0, 4 * j + 2), Layer(n, 0, 4 * j + 3)) = Layer(n, 0 + 1, 2 * j + 1)
      BY <1>4, <2>5, ChunkFolds
    <2> QED
      BY <2>1, <2>2, <2>3, <2>4, <2>5, <2>6, Zenon
  <1> HIDE DEF lo, hi
  <1>6. CValLo(j) = Layer(n, t, 2 * j)
    <2>1. 0 < t /\ j \in PairsAt(t)
      BY <1>2
    <2> QED
      BY <1>2, <2>1, CValLoInRound
  <1>7. Contribution(j, lo, hi, CValLo(j)) = Ideal(n, t, ell_b - t - 1, j)
    <2>1. t # 0
      BY <1>2
    <2> QED
      BY <1>5, <1>6, <2>1, ContributionIs
  <1>8. AccInv'
    <2>1. acc' = acc \cup {Ideal(n, t, ell_b - t - 1, j)}
      BY <1>1, <1>7, Zenon
    <2> QED
      BY <1>1, <2>1, WorkerContributes
  <1>9. DataInv'
    BY <1>1, WaitingData
  <1>10. CountersInv' /\ StagesInv' /\ PrefixInv'
    BY <1>1, WorkerKeeps
  <1> QED
    BY <1>8, <1>9, <1>10 DEF FoldInv

(* A worker that folds its chunk: what it finds, and what it leaves. *)
LEMMA FoldingData ==
  ASSUME FoldInv, LoopUnchanged, stage \in {"fold_chunks", "fold_and_prove"},
         NEW j \in todo, todo' = todo \ {j},
         ab' = FoldChunk(ab, j), c' = IF has_i64 THEN c ELSE FoldChunk(c, j)
  PROVE  /\ DataInv'
         /\ ChunkFolded(ab', n, t, j)
         /\ ~has_i64 => ChunkFolded(c', n, t, j)
  <1>1. 0 < t /\ t < ell_b /\ todo \subseteq PairsAt(t) /\ CountersInv /\ n \in Sizes
    BY DEF FoldInv, StagesInv, CountersInv
  <1>2. InRound(ell_b, t) /\ m = 4 * PowerOfTwo[ell_b - t - 1]
    BY <1>1, LengthInRound
  <1>3. /\ LayersOK(ab, n, ell_b, stage, t, todo, m)
        /\ has_i64 => HoldsBatch(c, n, ell_b)
        /\ ~has_i64 => LayersOK(c, n, ell_b, stage, t, todo, m)
    BY DEF FoldInv, DataInv
  <1>4. todo \subseteq 0 .. PowerOfTwo[ell_b - t - 1] - 1
    BY <1>1 DEF PairsAt
  <1>5. LayersOK(FoldChunk(ab, j), n, ell_b, stage, t, todo \ {j}, m)
        /\ ChunkFolded(FoldChunk(ab, j), n, t, j)
    BY <1>2, <1>3, <1>4, LayersFold
  <1>6. ~has_i64 => /\ LayersOK(FoldChunk(c, j), n, ell_b, stage, t, todo \ {j}, m)
                    /\ ChunkFolded(FoldChunk(c, j), n, t, j)
    BY <1>2, <1>3, <1>4, LayersFold
  <1>7. ell_b' = ell_b /\ n' = n /\ stage' = stage /\ t' = t /\ m' = m /\ has_i64' = has_i64
    BY RoundsStay DEF LoopUnchanged
  <1>8. has_i64 => c' = c
    OBVIOUS
  <1>9. ~has_i64 => c' = FoldChunk(c, j)
    OBVIOUS
  <1>10. /\ LayersOK(ab', n', ell_b', stage', t', todo', m')
         /\ has_i64' => HoldsBatch(c', n', ell_b')
         /\ ~has_i64' => LayersOK(c', n', ell_b', stage', t', todo', m')
    BY <1>3, <1>5, <1>6, <1>7, <1>8, <1>9
  <1>11. DataInv'
    BY <1>10, Zenon DEF DataInv
  <1> QED
    BY <1>5, <1>6, <1>9, <1>11

LEMMA FoldChunkOnlyKeeps ==
  ASSUME FoldInv, NEW j \in todo, FoldChunkOnly(j)
  PROVE  FoldInv'
  <1>1. /\ stage = "fold_chunks"
        /\ ab' = FoldChunk(ab, j)
        /\ todo' = todo \ {j}
        /\ c' = c /\ acc' = acc
        /\ LoopUnchanged
    BY DEF FoldChunkOnly, LoopUnchanged
  <1>2. has_i64
    BY <1>1 DEF FoldInv, StagesInv
  <1>3. DataInv'
    BY <1>1, <1>2, FoldingData
  <1>4. CountersInv' /\ StagesInv' /\ PrefixInv'
    BY <1>1, WorkerKeeps
  <1>5. AccInv'
    <2>1. acc = IdealSum(n, t, ell_b - t - 1, PairsAt(t))
      BY <1>1 DEF FoldInv, AccInv
    <2>2. ell_b' = ell_b /\ PairsAt(t)' = PairsAt(t) /\ n' = n /\ t' = t /\ stage' = "fold_chunks"
      BY <1>1, RoundsStay DEF LoopUnchanged, PairsAt
    <2>3. acc' = IdealSum(n', t', ell_b' - t' - 1, PairsAt(t)')
      BY <1>1, <2>1, <2>2
    <2> QED
      BY <2>2, <2>3 DEF AccInv
  <1> QED
    BY <1>3, <1>4, <1>5 DEF FoldInv

LEMMA FoldAndProveChunkKeeps ==
  ASSUME FoldInv, NEW j \in todo, FoldAndProveChunk(j)
  PROVE  FoldInv'
  <1> DEFINE cc == IF has_i64 THEN CValLo(j) ELSE c'[4 * j]
  <1>1. /\ stage = "fold_and_prove"
        /\ ab' = FoldChunk(ab, j)
        /\ c' = IF has_i64 THEN c ELSE FoldChunk(c, j)
        /\ acc' = acc \cup {Contribution(j, ab'[4 * j], ab'[4 * j + 2], cc)}
        /\ todo' = todo \ {j}
        /\ LoopUnchanged
    BY DEF FoldAndProveChunk, LoopUnchanged
  <1>2. 0 < t /\ t < ell_b /\ todo \subseteq PairsAt(t) /\ CountersInv /\ PrefixInv
    BY <1>1 DEF FoldInv, StagesInv
  <1>3. DataInv' /\ ChunkFolded(ab', n, t, j) /\ (~has_i64 => ChunkFolded(c', n, t, j))
    BY <1>1, FoldingData
  <1>4. ab'[4 * j] = Layer(n, t, 2 * j) /\ ab'[4 * j + 2] = Layer(n, t, 2 * j + 1)
    BY <1>3, Zenon DEF ChunkFolded
  <1>5. cc = Layer(n, t, 2 * j)
    <2>1. has_i64 => CValLo(j) = Layer(n, t, 2 * j)
      BY <1>2, CValLoInRound
    <2>2. ~has_i64 => c'[4 * j] = Layer(n, t, 2 * j)
      BY <1>3, Zenon DEF ChunkFolded
    <2> QED
      BY <2>1, <2>2, Zenon
  <1> HIDE DEF cc
  <1>6. Contribution(j, ab'[4 * j], ab'[4 * j + 2], cc) = Ideal(n, t, ell_b - t - 1, j)
    <2>1. t # 0
      BY <1>2
    <2> DEFINE lo == ab'[4 * j]
               hi == ab'[4 * j + 2]
    <2>2. lo = Layer(n, t, 2 * j) /\ hi = Layer(n, t, 2 * j + 1)
      BY <1>4
    <2> HIDE DEF lo, hi
    <2>3. Contribution(j, lo, hi, cc) = Ideal(n, t, ell_b - t - 1, j)
      BY <1>5, <2>1, <2>2, ContributionIs
    <2> QED
      BY <2>3, Zenon DEF lo, hi
  <1>7. acc' = acc \cup {Ideal(n, t, ell_b - t - 1, j)}
    BY <1>1, <1>6, Zenon
  <1>8. AccInv'
    BY <1>1, <1>7, WorkerContributes
  <1>9. CountersInv' /\ StagesInv' /\ PrefixInv'
    BY <1>1, WorkerKeeps
  <1> QED
    BY <1>3, <1>8, <1>9 DEF FoldInv

-----------------------------------------------------------------------------
(* The thread of the loop *)

LEMMA PolynomialsGrow ==
  ASSUME CountersInv, polys' = Append(polys, acc)
  PROVE  (\E S : polys' \in Seq(S)) /\ Len(polys') = Len(polys) + 1
  <1>1. PICK S : polys \in Seq(S)
    BY DEF CountersInv
  <1> DEFINE T == S \cup {acc}
  <1>2. polys \in Seq(T) /\ acc \in T
    <2>1. S \subseteq T /\ acc \in T
      OBVIOUS
    <2> HIDE DEF T
    <2> QED
      BY <1>1, <2>1, SeqMonotonic
  <1> HIDE DEF T
  <1>3. Append(polys, acc) \in Seq(T) /\ Len(Append(polys, acc)) = Len(polys) + 1
    BY <1>2, AppendProperties
  <1> QED
    BY <1>3

(* One more challenge: the coefficients with a zero bit, then those with a  *)
(* one.                                                                     *)
LEMMA PrefixExtends ==
  ASSUME NEW bits \in Nat
  PROVE  Extended(PrefixTable(bits)) = PrefixTable(bits + 1)
  <1> DEFINE p == PowerOfTwo[bits]
             old == PrefixTable(bits)
             W == Seq({0, 1})
             zeros == [v \in 1 .. p |-> Append(old[v], 0)]
             ones == [v \in 1 .. p |-> Append(old[v], 1)]
  <1>1. p \in Nat /\ PowerOfTwo[bits + 1] = p + p
    <2>1. PowerOfTwo[bits] \in Nat /\ PowerOfTwo[bits + 1] = 2 * PowerOfTwo[bits]
      BY PowerFacts
    <2> QED
      BY <2>1
  <1>2. ASSUME NEW v \in 1 .. p, NEW e \in {0, 1}
        PROVE  Append(old[v], e) = Bits((v - 1) + p * e, bits + 1) /\ Append(old[v], e) \in W
    <2>1. old[v] = Bits(v - 1, bits) /\ v - 1 \in Nat /\ v - 1 \in 0 .. p - 1
      BY <1>1 DEF PrefixTable
    <2>2. Bits(v - 1, bits) \in W
      BY <2>1, BitsType, StringsAreSequences
    <2>3. Append(Bits(v - 1, bits), e) = Bits(v - 1, bits) \o <<e>>
      BY <2>2, AppendIsConcat
    <2>4. Bits(v - 1, bits) \o <<e>> = Bits((v - 1) + p * e, bits + 1)
      <3>1. v - 1 \in 0 .. PowerOfTwo[bits] - 1 /\ 0 \in Nat
        BY <2>1
      <3>2. Bits(v - 1, bits) \o <<e>> = Bits((v - 1) + PowerOfTwo[bits] * e, bits + 1)
        BY <3>1, TermMoves
      <3> QED
        BY <3>2
    <2>5. Append(Bits(v - 1, bits), e) \in W
      BY <2>2, AppendProperties
    <2> QED
      BY <2>1, <2>3, <2>4, <2>5, Zenon
  <1>3. zeros \in Seq(W) /\ Len(zeros) = p /\ ones \in Seq(W) /\ Len(ones) = p
    <2>1. zeros \in [1 .. p -> W] /\ ones \in [1 .. p -> W]
      <3> HIDE DEF old, W, p
      <3> QED
        BY <1>2
    <2> HIDE DEF zeros, ones, W, p
    <2> QED
      BY <1>1, <2>1, SeqDef
  <1>4. Len(old) = p
    BY <1>1 DEF PrefixTable
  <1>5. Extended(old) = zeros \o ones
    <2> HIDE DEF old, p
    <2> QED
      BY <1>4, Zenon DEF Extended
  <1>6. ASSUME NEW v \in 1 .. p PROVE zeros[v] = Bits(v - 1, bits + 1)
    <2>1. zeros[v] = Append(old[v], 0)
      OBVIOUS
    <2>2. (v - 1) + p * 0 = v - 1
      BY <1>1
    <2>3. Append(old[v], 0) = Bits((v - 1) + p * 0, bits + 1)
      BY <1>2
    <2> HIDE DEF zeros, old, p
    <2> QED
      BY <2>1, <2>2, <2>3
  <1>7. ASSUME NEW v \in 1 .. p PROVE ones[v] = Bits(p + v - 1, bits + 1)
    <2>1. ones[v] = Append(old[v], 1)
      OBVIOUS
    <2>2. (v - 1) + p * 1 = p + v - 1
      <3> HIDE DEF p
      <3> QED
        BY <1>1
    <2>3. Append(old[v], 1) = Bits((v - 1) + p * 1, bits + 1)
      BY <1>2
    <2> HIDE DEF ones, old, p
    <2> QED
      BY <2>1, <2>2, <2>3
  <1> DEFINE new == zeros \o ones
  <1>8. new \in Seq(W) /\ Len(new) = p + p
        /\ \A v \in 1 .. p + p : new[v] = IF v <= p THEN zeros[v] ELSE ones[v - p]
    <2> HIDE DEF zeros, ones, W, p
    <2>1. /\ zeros \o ones \in Seq(W)
          /\ Len(zeros \o ones) = Len(zeros) + Len(ones)
          /\ \A v \in 1 .. Len(zeros) + Len(ones) :
               (zeros \o ones)[v] = IF v <= Len(zeros) THEN zeros[v] ELSE ones[v - Len(zeros)]
      BY <1>3, ConcatProperties
    <2>2. new = zeros \o ones
      OBVIOUS
    <2> HIDE DEF new
    <2>3. /\ new \in Seq(W)
          /\ Len(new) = Len(zeros) + Len(ones)
          /\ \A v \in 1 .. Len(zeros) + Len(ones) :
               new[v] = IF v <= Len(zeros) THEN zeros[v] ELSE ones[v - Len(zeros)]
      BY <2>1, <2>2, Zenon
    <2> QED
      BY <1>3, <2>3
  <1> HIDE DEF new, zeros, ones, W, p, old
  <1>9. ASSUME NEW v \in 1 .. p + p PROVE new[v] = Bits(v - 1, bits + 1)
    <2>1. CASE v <= p
      <3>1. v \in 1 .. p
        BY <1>1, <2>1
      <3> QED
        BY <1>6, <1>8, <2>1, <3>1
    <2>2. CASE ~ (v <= p)
      <3>1. v - p \in 1 .. p /\ p + (v - p) - 1 = v - 1
        BY <1>1, <2>2
      <3>2. new[v] = ones[v - p]
        BY <1>8, <2>2
      <3>3. ones[v - p] = Bits(p + (v - p) - 1, bits + 1)
        BY <1>7, <3>1
      <3> QED
        BY <3>1, <3>2, <3>3
    <2> QED
      BY <2>1, <2>2
  <1>10. new = [v \in 1 .. p + p |-> new[v]]
    BY <1>8, LenProperties
  <1>11. new = [v \in 1 .. p + p |-> Bits(v - 1, bits + 1)]
    BY <1>9, <1>10
  <1> QED
    BY <1>1, <1>5, <1>11, Zenon DEF new, old, PrefixTable

LEMMA FirstPrefix == <<<<0>>, <<1>>>> = PrefixTable(1)
  <1>1. PowerOfTwo[1] = 2
    <2>1. PowerOfTwo[0 + 1] = 2 * PowerOfTwo[0] /\ PowerOfTwo[0] = 1
      BY PowerFacts
    <2> QED
      BY <2>1
  <1>2. PrefixTable(1) = [v \in 1 .. 2 |-> Bits(v - 1, 1)]
    BY <1>1, Zenon DEF PrefixTable
  <1>3. Bits(1 - 1, 1) = <<0>> /\ Bits(2 - 1, 1) = <<1>>
    <2>1. 1 - 1 = 0 /\ 2 - 1 = 1
      OBVIOUS
    <2>2. Bits(0, 1) = <<0>> /\ Bits(1, 1) = <<1>>
      BY FewBits
    <2> QED
      BY <2>1, <2>2
  <1> DEFINE x == <<<<0>>, <<1>>>>
  <1>4. x = [v \in 1 .. 2 |-> x[v]] /\ x[1] = <<0>> /\ x[2] = <<1>>
    OBVIOUS
  <1> HIDE DEF x
  <1>5. ASSUME NEW v \in 1 .. 2 PROVE x[v] = Bits(v - 1, 1)
    <2>1. v = 1 \/ v = 2
      OBVIOUS
    <2> QED
      BY <1>3, <1>4, <2>1
  <1> QED
    BY <1>2, <1>4, <1>5 DEF x

(* The loop starts with the invariant. *)
LEMMA InitHolds == Init => FoldInv
  <1> SUFFICES ASSUME Init PROVE FoldInv
    OBVIOUS
  <1>1. n \in Sizes /\ has_i64 \in BOOLEAN /\ ab = FieldLayers /\ c = FieldLayers
        /\ t = 0 /\ m = n_padded /\ stage = "prove_pairs" /\ todo = 0 .. n_padded \div 2 - 1
        /\ acc = {} /\ polys = <<>> /\ out = Promise!Running
    BY DEF Init
  <1>2. ell_b \in Nat \ {0} /\ m = PowerOfTwo[ell_b]
    BY <1>1, NumberOfRounds DEF n_padded
  <1>3. CountersInv
    <2>1. ell_b - t = ell_b /\ t \in 0 .. ell_b
      BY <1>1, <1>2
    <2>2. polys \in Seq({}) /\ Len(polys) = 0
      BY <1>1, EmptySeq
    <2> QED
      BY <1>1, <1>2, <2>1, <2>2 DEF CountersInv
  <1>4. todo = PairsAt(t)
    <2>1. m \div 2 = PowerOfTwo[ell_b - t - 1]
      BY <1>1, <1>3, LengthAtStart
    <2> QED
      BY <1>1, <2>1, Zenon DEF PairsAt
  <1>5. StagesInv
    BY <1>1, <1>4 DEF StagesInv, Stages
  <1>6. /\ HoldsBatch(FieldLayers, n, ell_b)
        /\ DOMAIN FieldLayers = 0 .. n_padded - 1
        /\ Unfolded(FieldLayers, n, 0, 0 .. n_padded - 1)
    BY <1>1, FieldLayersHoldBatch
  <1>7. DataInv
    <2>1. LayersOK(FieldLayers, n, ell_b, stage, t, todo, m)
      BY <1>1, <1>6 DEF LayersOK
    <2> QED
      BY <1>1, <1>6, <2>1 DEF DataInv
  <1>8. AccInv
    <2>1. PairsAt(t) \ todo = {}
      BY <1>4
    <2>2. IdealSum(n, t, ell_b - t - 1, {}) = {}
      BY DEF IdealSum
    <2> QED
      BY <1>1, <2>1, <2>2 DEF AccInv
  <1>9. PrefixInv
    BY <1>1 DEF PrefixInv
  <1> QED
    BY <1>3, <1>5, <1>7, <1>8, <1>9 DEF FoldInv

LEMMA CrossBarrierKeeps ==
  ASSUME FoldInv, CrossBarrier
  PROVE  FoldInv'
  <1>1. /\ stage = "prove_cross" /\ todo = {} /\ stage' = "fold_chunks" /\ todo' = Chunks(m)
        /\ UNCHANGED <<n, has_i64, ab, c, prefix, t, m, acc, polys, out>>
    BY DEF CrossBarrier
  <1>2. CountersInv /\ StagesInv /\ DataInv /\ AccInv /\ PrefixInv /\ n \in Sizes
    BY DEF FoldInv, CountersInv
  <1>3. t = 1 /\ t < ell_b /\ has_i64 /\ 0 < t
    BY <1>1, <1>2 DEF StagesInv
  <1>4. /\ InRound(ell_b, t) /\ m \div 4 = PowerOfTwo[ell_b - t - 1]
        /\ m = 4 * PowerOfTwo[ell_b - t - 1]
    BY <1>2, <1>3, LengthInRound
  <1>5. ell_b' = ell_b /\ PairsAt(t)' = PairsAt(t)
    BY <1>1, RoundsStay DEF PairsAt
  <1>6. Chunks(m) = PairsAt(t)
    BY <1>4, Zenon DEF Chunks, PairsAt
  <1>7. CountersInv'
    BY <1>1, <1>2, <1>5 DEF CountersInv
  <1>8. StagesInv'
    <2>1. Promise!Running' = Promise!Running
      BY DEF Promise!Running
    <2>2. stage' = "fold_chunks" /\ t' = 1 /\ t' < ell_b' /\ has_i64' /\ out' = Promise!Running
          /\ todo' \subseteq PairsAt(t)'
      BY <1>1, <1>2, <1>3, <1>5, <1>6 DEF StagesInv
    <2> QED
      BY <2>1, <2>2 DEF StagesInv, Stages
  <1>9. DataInv'
    <2>1. LayersOK(ab, n, ell_b, stage, t, todo, m) /\ HoldsBatch(c, n, ell_b)
      BY <1>1, <1>2, <1>3 DEF DataInv
    <2>2. DOMAIN ab = 0 .. m - 1 /\ Unfolded(ab, n, 0, 0 .. m - 1)
      BY <1>1, <2>1 DEF LayersOK
    <2>3. m = PowerOfTwo[ell_b]
      <3>1. ell_b - t + 1 = ell_b /\ ell_b # 1 /\ t # 0
        BY <1>2, <1>3, NumberOfRounds
      <3> QED
        BY <1>2, <3>1 DEF CountersInv
    <2>4. LayersOK(ab, n, ell_b, "fold_chunks", 1, Chunks(m), m)
      <3>1. InRound(ell_b, 1)
        BY <1>3, <1>4
      <3> QED
        BY <2>2, <2>3, <3>1, LayersStart
    <2>5. /\ LayersOK(ab', n', ell_b', stage', t', todo', m')
          /\ HoldsBatch(c', n', ell_b') /\ has_i64'
      BY <1>1, <1>3, <1>5, <2>1, <2>4
    <2> QED
      BY <2>5 DEF DataInv
  <1>10. AccInv'
    <2>1. acc = IdealSum(n, t, ell_b - t - 1, PairsAt(t) \ {})
      BY <1>1, <1>2 DEF AccInv
    <2>2. PairsAt(t) \ {} = PairsAt(t)
      OBVIOUS
    <2>3. acc' = IdealSum(n', t', ell_b' - t' - 1, PairsAt(t)') /\ stage' = "fold_chunks"
      BY <1>1, <1>5, <2>1, <2>2
    <2> QED
      BY <2>3 DEF AccInv
  <1>11. PrefixInv'
    BY <1>1, <1>2 DEF PrefixInv
  <1> QED
    BY <1>7, <1>8, <1>9, <1>10, <1>11 DEF FoldInv

-----------------------------------------------------------------------------
(* The end of a round, and of the loop *)

(* How many layers are in use after the challenge of round t. *)
LengthAfter(ell, round) ==
  IF ell = 1 THEN PowerOfTwo[ell - round - 1] ELSE PowerOfTwo[ell - round]

(* What every round leaves, whatever it did with the layers. *)
LEMMA RoundEnds ==
  ASSUME FoldInv, t < ell_b, stage \notin {"finish", "end"},
         polys' = Append(polys, acc), UNCHANGED <<n, has_i64, out>>,
         NEW len, len = LengthAfter(ell_b, t), Continue(len)
  PROVE  /\ CountersInv' /\ StagesInv' /\ AccInv'
         /\ ell_b' = ell_b
  <1>1. /\ CountersInv /\ StagesInv /\ n \in Sizes /\ ell_b \in Nat \ {0} /\ t \in Nat
    BY NumberOfRounds DEF FoldInv, CountersInv
  <1>2. /\ t' = t + 1 /\ m' = len /\ acc' = {}
        /\ stage' = IF t + 1 = ell_b THEN "finish"
                    ELSE IF has_i64 /\ t = 0 THEN "prove_cross" ELSE "fold_and_prove"
        /\ todo' = IF t + 1 = ell_b THEN {} ELSE Chunks(len)
        /\ n' = n /\ has_i64' = has_i64 /\ out' = out
    BY DEF Continue
  <1>3. ell_b' = ell_b
    BY <1>2, RoundsStay
  <1>4. m' = IF t' = 0 \/ ell_b' = 1 THEN PowerOfTwo[ell_b' - t'] ELSE PowerOfTwo[ell_b' - t' + 1]
    <2>1. ell_b - (t + 1) = ell_b - t - 1 /\ ell_b - (t + 1) + 1 = ell_b - t /\ t + 1 # 0
      BY <1>1
    <2> QED
      BY <1>2, <1>3, <2>1 DEF LengthAfter
  <1>5. CountersInv'
    <2>1. (\E S : polys' \in Seq(S)) /\ Len(polys') = Len(polys) + 1
      BY <1>1, PolynomialsGrow
    <2>2. t' \in 0 .. ell_b' /\ Len(polys') = t' /\ has_i64' \in BOOLEAN
      BY <1>1, <1>2, <1>3, <2>1 DEF CountersInv
    <2> QED
      BY <1>1, <1>2, <1>4, <2>1, <2>2 DEF CountersInv
  <1>6. out' = Promise!Running'
    <2>1. Promise!Running' = Promise!Running
      BY DEF Promise!Running
    <2> QED
      BY <1>1, <1>2, <2>1 DEF StagesInv
  <1>7. CASE t + 1 = ell_b
    <2>1. stage' = "finish" /\ todo' = {} /\ t' = ell_b'
      BY <1>2, <1>3, <1>7
    <2>2. StagesInv'
      BY <1>6, <2>1 DEF StagesInv, Stages
    <2>3. AccInv'
      BY <2>1 DEF AccInv
    <2> QED
      BY <1>3, <1>5, <2>2, <2>3
  <1>8. CASE t + 1 # ell_b
    <2>1. InRound(ell_b, t + 1) /\ ell_b # 1
      BY <1>1, <1>8 DEF InRound
    <2>2. todo' = PairsAt(t)'
      <3> DEFINE q == PowerOfTwo[ell_b - (t + 1) - 1]
      <3>1. q \in Nat \ {0} /\ PowerOfTwo[ell_b - (t + 1) + 1] = 4 * q
        BY <2>1, RoundPowers
      <3>2. ell_b - (t + 1) + 1 = ell_b - t
        BY <1>1
      <3>3. PairsAt(t)' = 0 .. q - 1
        BY <1>2, <1>3 DEF PairsAt
      <3> HIDE DEF q
      <3>4. len = 4 * q
        BY <2>1, <3>1, <3>2 DEF LengthAfter
      <3>5. len \div 4 = q
        BY <3>1, <3>4
      <3>6. todo' = 0 .. q - 1
        BY <1>2, <1>8, <3>5 DEF Chunks
      <3> QED
        BY <3>3, <3>6
    <2>3. 0 < t' /\ t' < ell_b'
      BY <1>2, <1>3, <2>1 DEF InRound
    <2>4. stage' \in {"prove_cross", "fold_and_prove"}
          /\ (stage' = "prove_cross" => t' = 1 /\ has_i64')
      BY <1>2, <1>8
    <2>5. StagesInv'
      BY <1>6, <2>2, <2>3, <2>4 DEF StagesInv, Stages
    <2>6. AccInv'
      <3>1. PairsAt(t)' \ todo' = {}
        BY <2>2
      <3>2. IdealSum(n', t', ell_b' - t' - 1, {}) = {}
        BY DEF IdealSum
      <3>3. acc' = IdealSum(n', t', ell_b' - t' - 1, PairsAt(t)' \ todo') /\ stage' # "fold_chunks"
        BY <1>2, <2>4, <3>1, <3>2
      <3> QED
        BY <3>3 DEF AccInv
    <2> QED
      BY <1>3, <1>5, <2>5, <2>6
  <1> QED
    BY <1>7, <1>8

LEMMA FinishRound0Keeps ==
  ASSUME FoldInv, FinishRound0
  PROVE  FoldInv'
  <1>1. /\ stage = "prove_pairs" /\ todo = {} /\ polys' = Append(polys, acc)
        /\ prefix' = IF has_i64 THEN <<<<0>>, <<1>>>> ELSE <<>>
        /\ UNCHANGED <<n, has_i64, out>>
    BY DEF FinishRound0
  <1>2. /\ CountersInv /\ StagesInv /\ DataInv /\ n \in Sizes
        /\ t = 0 /\ ell_b \in Nat \ {0} /\ t < ell_b
    BY <1>1, NumberOfRounds DEF FoldInv, CountersInv, StagesInv
  <1>3. m = PowerOfTwo[ell_b] /\ m \div 2 = PowerOfTwo[ell_b - t - 1]
    BY <1>2, LengthAtStart
  <1>4. /\ LayersOK(ab, n, ell_b, stage, t, todo, m)
        /\ has_i64 => HoldsBatch(c, n, ell_b)
        /\ ~has_i64 => LayersOK(c, n, ell_b, stage, t, todo, m)
    BY <1>1, <1>2 DEF DataInv
  <1> DEFINE whole(l) == DOMAIN l = 0 .. m - 1 /\ Unfolded(l, n, 0, 0 .. m - 1)
  <1>5. whole(ab) /\ (~has_i64 => whole(c))
    BY <1>1, <1>4 DEF LayersOK
  <1>6. n' = n /\ has_i64' = has_i64
    BY <1>1
  <1>7. CASE ell_b = 1
    <2> DEFINE fold(l) == Truncate(FoldPairs(l, 0, 1), 1)
    <2>1. m = 2 /\ m \div 2 = 1
      <3>1. PowerOfTwo[0 + 1] = 2 * PowerOfTwo[0] /\ PowerOfTwo[0] = 1
        BY PowerFacts
      <3> QED
        BY <1>3, <1>7, <3>1
    <2>2. ab' = fold(ab) /\ (~has_i64 => c' = fold(c)) /\ (has_i64 => c' = c) /\ Continue(1)
      BY <1>7, <2>1 DEF FinishRound0
    <2>3. LengthAfter(ell_b, t) = 1
      <3>1. ell_b - t - 1 = 0 /\ PowerOfTwo[0] = 1
        BY <1>2, <1>7, PowerFacts
      <3> QED
        BY <1>7, <3>1 DEF LengthAfter
    <2>4. CountersInv' /\ StagesInv' /\ AccInv' /\ ell_b' = ell_b
      BY <1>1, <1>2, <2>2, <2>3, RoundEnds
    <2>5. ASSUME NEW l, whole(l) PROVE LayersOK(fold(l), n, 1, "finish", 1, {}, 1)
      <3>1. DOMAIN l = 0 .. 2 - 1 /\ Unfolded(l, n, 0, 0 .. 2 - 1)
        BY <2>1, <2>5
      <3> HIDE DEF whole
      <3>2. DOMAIN fold(l) = 0 .. 1 - 1 /\ fold(l)[0] = Layer(n, 0 + 1, 0)
        BY <3>1, LastFold
      <3> DEFINE f == fold(l)
      <3>3. 0 + 1 = 1
        OBVIOUS
      <3> HIDE DEF f
      <3>4. Unfolded(f, n, 1, {0})
        BY <3>2, <3>3 DEF Unfolded, f
      <3>5. LayersOK(f, n, 1, "finish", 1, {}, 1)
        BY <3>2, <3>4 DEF LayersOK, f
      <3> QED
        BY <3>5, Zenon DEF f
    <2>6. stage' = "finish" /\ t' = 1 /\ m' = 1 /\ todo' = {}
      BY <1>2, <1>7, <2>2 DEF Continue
    <2>7. DataInv'
      <3> HIDE DEF fold, whole
      <3>1. LayersOK(ab', n, 1, "finish", 1, {}, 1)
            /\ (~has_i64 => LayersOK(c', n, 1, "finish", 1, {}, 1))
        BY <1>5, <2>2, <2>5, Zenon
      <3>2. /\ LayersOK(ab', n', ell_b', stage', t', todo', m')
            /\ has_i64' => HoldsBatch(c', n', ell_b')
            /\ ~has_i64' => LayersOK(c', n', ell_b', stage', t', todo', m')
        BY <1>4, <1>6, <1>7, <2>2, <2>4, <2>6, <3>1
      <3> QED
        BY <3>2 DEF DataInv
    <2>8. PrefixInv'
      <3>1. has_i64' => prefix' = PrefixTable(t')
        BY <1>1, <1>6, <2>6, FirstPrefix
      <3> QED
        BY <3>1 DEF PrefixInv
    <2> QED
      BY <2>4, <2>7, <2>8 DEF FoldInv
  <1>8. CASE ell_b # 1
    <2>1. ab' = ab /\ c' = c /\ Continue(m)
      BY <1>8 DEF FinishRound0
    <2>2. LengthAfter(ell_b, t) = m
      <3>1. ell_b - t = ell_b
        BY <1>2
      <3> QED
        BY <1>3, <1>8, <3>1 DEF LengthAfter
    <2>3. CountersInv' /\ StagesInv' /\ AccInv' /\ ell_b' = ell_b
      BY <1>1, <1>2, <2>1, <2>2, RoundEnds
    <2>4. InRound(ell_b, 1) /\ t + 1 # ell_b
      BY <1>2, <1>8 DEF InRound
    <2>5. t' = 1 /\ m' = m /\ todo' = Chunks(m)
          /\ stage' \in {"prove_cross", "fold_chunks", "fold_and_prove"}
      BY <1>2, <2>1, <2>4 DEF Continue
    <2>6. ASSUME NEW l, whole(l) PROVE LayersOK(l, n, ell_b, stage', 1, Chunks(m), m)
      BY <1>3, <2>4, <2>5, <2>6, LayersStart
    <2>7. DataInv'
      <3> HIDE DEF whole
      <3>1. LayersOK(ab', n, ell_b, stage', 1, Chunks(m), m)
            /\ (~has_i64 => LayersOK(c', n, ell_b, stage', 1, Chunks(m), m))
        BY <1>5, <2>1, <2>6, Zenon
      <3>2. /\ LayersOK(ab', n', ell_b', stage', t', todo', m')
            /\ has_i64' => HoldsBatch(c', n', ell_b')
            /\ ~has_i64' => LayersOK(c', n', ell_b', stage', t', todo', m')
        BY <1>4, <1>6, <2>1, <2>3, <2>5, <3>1
      <3> QED
        BY <3>2 DEF DataInv
    <2>8. PrefixInv'
      <3>1. has_i64' => prefix' = PrefixTable(t')
        BY <1>1, <1>6, <2>5, FirstPrefix
      <3> QED
        BY <3>1 DEF PrefixInv
    <2> QED
      BY <2>3, <2>7, <2>8 DEF FoldInv
  <1> QED
    BY <1>7, <1>8

LEMMA FinishRoundKeeps ==
  ASSUME FoldInv, FinishRound
  PROVE  FoldInv'
  <1>1. /\ stage \in {"fold_chunks", "fold_and_prove"} /\ todo = {}
        /\ polys' = Append(polys, acc)
        /\ prefix' = IF has_i64 THEN Extended(prefix) ELSE <<>>
        /\ UNCHANGED <<n, has_i64, out>>
        /\ Continue(m \div 2)
    BY DEF FinishRound
  <1>2. /\ CountersInv /\ StagesInv /\ DataInv /\ PrefixInv /\ n \in Sizes
        /\ ell_b \in Nat \ {0} /\ 0 < t /\ t < ell_b /\ t \in Nat
    BY <1>1, NumberOfRounds DEF FoldInv, CountersInv, StagesInv
  <1> DEFINE q == PowerOfTwo[ell_b - t - 1]
  <1>3. /\ InRound(ell_b, t) /\ q \in Nat \ {0}
        /\ m = 4 * q /\ m \div 2 = 2 * q /\ (m \div 2) \div 2 = q
        /\ 2 * q = PowerOfTwo[ell_b - t]
    BY <1>2, LengthInRound
  <1> HIDE DEF q
  <1>4. ab' = Shrunk(ab, q) /\ (~has_i64 => c' = Shrunk(c, q)) /\ (has_i64 => c' = c)
    BY <1>3 DEF FinishRound, Shrunk
  <1>5. CountersInv' /\ StagesInv' /\ AccInv' /\ ell_b' = ell_b
    <2>1. LengthAfter(ell_b, t) = m \div 2
      <3>1. ell_b # 1
        BY <1>2
      <3> QED
        BY <1>3, <3>1 DEF LengthAfter
    <2> QED
      BY <1>1, <1>2, <2>1, RoundEnds
  <1>6. /\ t' = t + 1 /\ m' = 2 * q /\ n' = n /\ has_i64' = has_i64
        /\ stage' = StageAfter(ell_b, t) /\ todo' = WorkAfter(ell_b, t, 2 * q)
    BY <1>1, <1>2, <1>3 DEF Continue, StageAfter, WorkAfter
  <1>7. ASSUME NEW l, LayersOK(l, n, ell_b, stage, t, todo, m)
        PROVE  LayersOK(Shrunk(l, q), n, ell_b, stage', t', todo', m')
    <2>1. LayersOK(l, n, ell_b, stage, t, {}, 4 * PowerOfTwo[ell_b - t - 1])
      BY <1>1, <1>3, <1>7 DEF q
    <2>2. q = PowerOfTwo[ell_b - t - 1]
      BY DEF q
    <2>3. LayersOK(Shrunk(l, q), n, ell_b, StageAfter(ell_b, t), t + 1,
                   WorkAfter(ell_b, t, 2 * q), 2 * q)
      BY <1>1, <1>3, <2>1, <2>2, LayersShrink
    <2> QED
      BY <1>6, <2>3
  <1>8. DataInv'
    <2>1. /\ LayersOK(ab, n, ell_b, stage, t, todo, m)
          /\ has_i64 => HoldsBatch(c, n, ell_b)
          /\ ~has_i64 => LayersOK(c, n, ell_b, stage, t, todo, m)
      BY <1>1, <1>2 DEF DataInv
    <2>2. /\ LayersOK(ab', n, ell_b, stage', t', todo', m')
          /\ ~has_i64 => LayersOK(c', n, ell_b, stage', t', todo', m')
      BY <1>4, <1>7, <2>1
    <2>3. /\ LayersOK(ab', n', ell_b', stage', t', todo', m')
          /\ has_i64' => HoldsBatch(c', n', ell_b')
          /\ ~has_i64' => LayersOK(c', n', ell_b', stage', t', todo', m')
      BY <1>4, <1>5, <1>6, <2>1, <2>2
    <2> QED
      BY <2>3 DEF DataInv
  <1>9. PrefixInv'
    <2>1. ASSUME has_i64 PROVE prefix' = PrefixTable(t')
      <3>1. prefix = PrefixTable(t)
        BY <1>2, <2>1 DEF PrefixInv
      <3> QED
        BY <1>1, <1>2, <1>6, <2>1, <3>1, PrefixExtends
    <2> QED
      BY <1>6, <2>1 DEF PrefixInv
  <1> QED
    BY <1>5, <1>8, <1>9 DEF FoldInv

(* The loop has ended. *)
LEMMA EndKeeps ==
  ASSUME FoldInv, stage' = "end", todo' = {},
         UNCHANGED <<n, has_i64, prefix, t, m, acc, polys>>
  PROVE  FoldInv'
  <1>1. CountersInv /\ StagesInv /\ PrefixInv /\ ell_b' = ell_b
    BY RoundsStay DEF FoldInv
  <1>2. CountersInv'
    BY <1>1 DEF CountersInv
  <1>3. StagesInv'
    BY DEF StagesInv, Stages
  <1>4. DataInv' /\ AccInv'
    BY DEF DataInv, AccInv
  <1>5. PrefixInv'
    BY <1>1 DEF PrefixInv
  <1> QED
    BY <1>2, <1>3, <1>4, <1>5 DEF FoldInv
LEMMA NextKeeps == FoldInv /\ [Next]_vars => FoldInv'
  <1> SUFFICES ASSUME FoldInv, [Next]_vars PROVE FoldInv'
    OBVIOUS
  <1>1. ASSUME NEW j \in todo, ProvePair(j) PROVE FoldInv'
    BY <1>1, ProvePairKeeps
  <1>2. ASSUME NEW j \in todo, ProveCross(j) PROVE FoldInv'
    BY <1>2, ProveCrossKeeps
  <1>3. ASSUME NEW j \in todo, FoldChunkOnly(j) PROVE FoldInv'
    BY <1>3, FoldChunkOnlyKeeps
  <1>4. ASSUME NEW j \in todo, FoldAndProveChunk(j) PROVE FoldInv'
    BY <1>4, FoldAndProveChunkKeeps
  <1>5. CASE FinishRound0
    BY <1>5, FinishRound0Keeps
  <1>6. CASE CrossBarrier
    BY <1>6, CrossBarrierKeeps
  <1>7. CASE FinishRound
    BY <1>7, FinishRoundKeeps
  <1>8. CASE Finish
    <2>1. stage' = "end" /\ todo' = todo /\ stage = "finish"
          /\ UNCHANGED <<n, has_i64, prefix, t, m, acc, polys>>
      BY <1>8 DEF Finish
    <2>2. todo = {}
      BY <2>1 DEF FoldInv, StagesInv
    <2> QED
      BY <2>1, <2>2, EndKeeps
  <1>9. CASE Fails
    <2>1. stage' = "end" /\ todo' = {} /\ UNCHANGED <<n, has_i64, prefix, t, m, acc, polys>>
      BY <1>9 DEF Fails
    <2> QED
      BY <2>1, EndKeeps
  <1>10. CASE UNCHANGED vars
    <2>1. ell_b' = ell_b /\ PairsAt(t)' = PairsAt(t)
      BY <1>10, RoundsStay DEF vars, PairsAt
    <2>2. Promise!Running' = Promise!Running
      BY DEF Promise!Running
    <2>3. UNCHANGED <<n, has_i64, ab, c, prefix, t, m, stage, todo, acc, polys, out>>
      BY <1>10 DEF vars
    <2>4. CountersInv'
      BY <2>1, <2>3 DEF FoldInv, CountersInv
    <2>5. StagesInv'
      BY <2>1, <2>2, <2>3 DEF FoldInv, StagesInv
    <2>6. DataInv' /\ AccInv' /\ PrefixInv'
      BY <2>1, <2>3 DEF FoldInv, DataInv, AccInv, PrefixInv
    <2> QED
      BY <2>4, <2>5, <2>6 DEF FoldInv
  <1> QED
    BY <1>1, <1>2, <1>3, <1>4, <1>5, <1>6, <1>7, <1>8, <1>9, <1>10
    DEF Next, WorkerStep, LoopStep

(* The inductive invariant of the loop, for every size of the batch: every  *)
(* vector of layers holds, stage by stage, what the finished and the        *)
(* pending workers leave in it, and the finished workers' contributions are *)
(* those of their pairs.                                                    *)
THEOREM LoopInvariant == Spec => []FoldInv
  BY InitHolds, NextKeeps, PTL DEF Spec

-----------------------------------------------------------------------------
(* What follows from it *)

(* The layers in memory are those in use, and the counters of the loop stay *)
(* in their ranges.                                                         *)
THEOREM TypeCorrect == Spec => []TypeOK
  <1>1. FoldInv => TypeOK
    <2> SUFFICES ASSUME FoldInv PROVE TypeOK
      OBVIOUS
    <2>1. /\ CountersInv /\ StagesInv /\ DataInv /\ n \in Sizes
          /\ t \in Nat /\ ell_b \in Nat \ {0}
      BY NumberOfRounds DEF FoldInv, CountersInv
    <2>2. todo \subseteq 0 .. m - 1
      <3>1. CASE stage \in {"finish", "end"}
        BY <2>1, <3>1 DEF StagesInv
      <3>2. CASE stage \notin {"finish", "end"}
        <4>1. todo \subseteq PairsAt(t) /\ (t = 0 \/ (0 < t /\ t < ell_b))
          BY <2>1, <3>2 DEF StagesInv, Stages
        <4> DEFINE q == PowerOfTwo[ell_b - t - 1]
        <4>2. q \in Nat /\ (m = 2 * q \/ m = 4 * q)
          BY <2>1, <4>1, LengthAtStart, LengthInRound
        <4>3. todo \subseteq 0 .. q - 1
          BY <4>1 DEF PairsAt
        <4> HIDE DEF q
        <4> QED
          BY <4>2, <4>3
      <3> QED
        BY <3>1, <3>2
    <2>3. ASSUME stage # "end"
          PROVE  DOMAIN ab = 0 .. m - 1
                 /\ DOMAIN c = IF has_i64 THEN 0 .. n_padded - 1 ELSE 0 .. m - 1
      BY <2>1, <2>3 DEF DataInv, LayersOK, HoldsBatch, n_padded
    <2> QED
      BY <2>1, <2>2, <2>3 DEF TypeOK, CountersInv, StagesInv, Stages
  <1> QED
    BY <1>1, LoopInvariant, PTL

(* The weights of the values that are never folded are those by which the   *)
(* folds have multiplied the layers.                                        *)
THEOREM WeightsMatch == Spec => []PrefixMatchesFolds
  <1>1. FoldInv => PrefixMatchesFolds
    <2> SUFFICES ASSUME FoldInv, has_i64, t > 0
                 PROVE  /\ Len(prefix) = PowerOfTwo[t]
                        /\ \A v \in 1 .. Len(prefix) : prefix[v] = Bits(v - 1, t)
      BY DEF PrefixMatchesFolds
    <2>1. prefix = PrefixTable(t) /\ t \in Nat
      BY NumberOfRounds DEF FoldInv, PrefixInv, CountersInv
    <2>2. PowerOfTwo[t] \in Nat
      BY <2>1, PowersArePositive
    <2> QED
      BY <2>1, <2>2 DEF PrefixTable
  <1> QED
    BY <1>1, LoopInvariant, PTL

(* The layer that a worker has still to read. *)
BoundAt(round) == IF round = 0 THEN 0 ELSE round - 1
Pending ==
  IF stage = "finish" /\ ell_b > 1 THEN {0, 1}
  ELSE {i \in 0 .. m - 1 : i \div (IF stage = "prove_pairs" THEN 2 ELSE 4) \in todo}

LEMMA PendingIndex ==
  ASSUME FoldInv, NEW i \in Pending
  PROVE  /\ BoundAt(t) \in Nat /\ ell_b - BoundAt(t) \in Nat
         /\ i \in 0 .. PowerOfTwo[ell_b - BoundAt(t)] - 1
  <1>1. /\ CountersInv /\ StagesInv /\ n \in Sizes
        /\ t \in Nat /\ ell_b \in Nat \ {0} /\ t <= ell_b
    BY NumberOfRounds DEF FoldInv, CountersInv
  <1>2. BoundAt(t) \in Nat /\ ell_b - BoundAt(t) \in Nat
    BY <1>1 DEF BoundAt
  <1>3. CASE stage = "finish" /\ ell_b > 1
    <2>1. ell_b - BoundAt(t) = 1
      BY <1>1, <1>3 DEF StagesInv, BoundAt
    <2>2. PowerOfTwo[1] = 2
      <3>1. PowerOfTwo[0 + 1] = 2 * PowerOfTwo[0] /\ PowerOfTwo[0] = 1
        BY PowerFacts
      <3> QED
        BY <3>1
    <2>3. i \in 0 .. PowerOfTwo[1] - 1
      BY <1>3, <2>2 DEF Pending
    <2> QED
      BY <1>2, <2>1, <2>3
  <1>4. CASE ~ (stage = "finish" /\ ell_b > 1)
    <2>1. i \in 0 .. m - 1 /\ todo # {}
      BY <1>4 DEF Pending
    <2>2. t = 0 \/ (0 < t /\ t < ell_b)
      BY <1>1, <2>1 DEF StagesInv, Stages
    <2>3. m = PowerOfTwo[ell_b - BoundAt(t)]
      <3>1. CASE t = 0
        BY <1>1, <3>1 DEF CountersInv, BoundAt
      <3>2. CASE 0 < t /\ t < ell_b
        <4>1. ell_b - BoundAt(t) = ell_b - t + 1 /\ ell_b # 1 /\ t # 0
          BY <1>1, <3>2 DEF BoundAt
        <4> QED
          BY <1>1, <4>1 DEF CountersInv
      <3> QED
        BY <2>2, <3>1, <3>2
    <2> QED
      BY <1>2, <2>1, <2>3
  <1> QED
    BY <1>3, <1>4

LEMMA PendingLayer ==
  ASSUME FoldInv, NEW i \in Pending, NEW l, LayersOK(l, n, ell_b, stage, t, todo, m)
  PROVE  l[i] = Layer(n, BoundAt(t), i)
  <1>1. /\ CountersInv /\ StagesInv /\ n \in Sizes
        /\ t \in Nat /\ ell_b \in Nat \ {0}
    BY NumberOfRounds DEF FoldInv, CountersInv
  <1>2. CASE stage = "finish" /\ ell_b > 1
    <2>1. BoundAt(t) = ell_b - 1 /\ ell_b # 1 /\ i \in {0, 1}
      BY <1>1, <1>2 DEF StagesInv, BoundAt, Pending
    <2>2. Unfolded(l, n, ell_b - 1, {0, 1})
      BY <1>2, <2>1 DEF LayersOK
    <2> QED
      BY <2>1, <2>2 DEF Unfolded
  <1>3. CASE ~ (stage = "finish" /\ ell_b > 1)
    <2>1. i \in 0 .. m - 1 /\ todo # {}
          /\ i \div (IF stage = "prove_pairs" THEN 2 ELSE 4) \in todo
      BY <1>3 DEF Pending
    <2>2. stage \in {"prove_pairs", "prove_cross", "fold_chunks", "fold_and_prove"}
      BY <1>1, <2>1 DEF StagesInv, Stages
    <2>3. CASE stage \in {"prove_pairs", "prove_cross"}
      <3>1. BoundAt(t) = 0
        BY <1>1, <2>3 DEF StagesInv, BoundAt
      <3>2. Unfolded(l, n, 0, 0 .. m - 1)
        BY <2>3 DEF LayersOK
      <3> QED
        BY <2>1, <3>1, <3>2 DEF Unfolded
    <2>4. CASE stage \in {"fold_chunks", "fold_and_prove"}
      <3>1. BoundAt(t) = t - 1 /\ 0 < t /\ t < ell_b
        BY <1>1, <2>4 DEF StagesInv, BoundAt
      <3>2. m \in Nat
        BY <1>1, <3>1, LengthInRound
      <3> DEFINE j == i \div 4
      <3>3. j \in todo /\ j \in Nat
            /\ (i = 4 * j \/ i = 4 * j + 1 \/ i = 4 * j + 2 \/ i = 4 * j + 3)
        <4>1. i \in Nat /\ i \div 4 \in todo
          BY <2>1, <2>4, <3>2
        <4> QED
          BY <4>1
      <3> HIDE DEF j
      <3>4. j \in PairsAt(t)
        BY <1>1, <2>4, <3>3 DEF StagesInv
      <3>5. ChunkPending(l, n, t - 1, j)
        BY <2>4, <3>3, <3>4 DEF LayersOK, PairsAt
      <3> QED
        BY <3>1, <3>3, <3>5 DEF ChunkPending
    <2> QED
      BY <2>2, <2>3, <2>4
  <1> QED
    BY <1>2, <1>3

(* Whatever the order of the workers, what a worker has still to read is    *)
(* what the rounds before left for it.                                      *)
THEOREM PendingLayersIntact == Spec => []PendingLayersAreIntact
  <1>1. FoldInv => PendingLayersAreIntact
    <2> SUFFICES ASSUME FoldInv PROVE PendingLayersAreIntact
      OBVIOUS
    <2> DEFINE bound == BoundAt(t)
    <2>1. ASSUME NEW i \in Pending
          PROVE  /\ ab[i] = Promise!PartialEvaluation(bound, Bits(i, ell_b - bound))
                 /\ ~has_i64 => c[i] = Promise!PartialEvaluation(bound, Bits(i, ell_b - bound))
      <3>1. stage # "end"
        BY DEF FoldInv, StagesInv, Pending
      <3>2. /\ LayersOK(ab, n, ell_b, stage, t, todo, m)
            /\ ~has_i64 => LayersOK(c, n, ell_b, stage, t, todo, m)
        BY <3>1 DEF FoldInv, DataInv
      <3>3. ab[i] = Layer(n, bound, i) /\ (~has_i64 => c[i] = Layer(n, bound, i))
        BY <3>2, PendingLayer
      <3>4. /\ bound \in Nat /\ ell_b - bound \in Nat
            /\ i \in 0 .. PowerOfTwo[ell_b - bound] - 1
        BY PendingIndex
      <3>5. n \in Nat
        BY NumberOfRounds DEF FoldInv, CountersInv
      <3> HIDE DEF bound
      <3>6. Promise!PartialEvaluation(bound, Bits(i, ell_b - bound)) = Layer(n, bound, i)
        BY <3>4, <3>5, PartialIsLayer
      <3> QED
        BY <3>3, <3>6
    <2> QED
      BY <2>1, Zenon DEF PendingLayersAreIntact, Pending, BoundAt
  <1> QED
    BY <1>1, LoopInvariant, PTL
-----------------------------------------------------------------------------
(* The promise *)

(* All bits bound: the vectors that are handed on. *)
LEMMA FoldedBatch ==
  ASSUME n \in Sizes
  PROVE  Promise!PartialEvaluation(ell_b, <<>>) = Layer(n, ell_b, 0)
  <1>1. n \in Nat /\ ell_b \in Nat
    BY NumberOfRounds
  <1>2. 0 \in 0 .. PowerOfTwo[0] - 1 /\ 0 \in Nat
    BY PowerFacts
  <1>3. Promise!PartialEvaluation(ell_b, Bits(0, 0)) = Layer(n, ell_b, 0)
    BY <1>1, <1>2, PartialIsLayer
  <1>4. Bits(0, 0) = <<>>
    BY <1>2, FewBits
  <1> QED
    BY <1>3, <1>4

(* The end of a round sends the polynomial of its number. *)
LEMMA RoundSends ==
  ASSUME FoldInv, stage \notin {"finish", "end"}, todo = {}, t < ell_b,
         acc = IdealSum(n, t, ell_b - t - 1, PairsAt(t)),
         polys' = Append(polys, acc), UNCHANGED <<n, out>>
  PROVE  Promise!SendRound
  <1>1. /\ n \in Nat /\ ell_b \in Nat /\ t \in Nat /\ Len(polys) = t
        /\ out = Promise!Running
    BY NumberOfRounds DEF FoldInv, CountersInv, StagesInv
  <1> DEFINE len == ell_b - t - 1
  <1>2. len \in Nat /\ Promise!NumRounds - t - 1 = len
    BY <1>1 DEF ell_b
  <1> HIDE DEF len
  <1>3. Promise!RoundPolynomial(t) = IdealSum(n, t, len, 0 .. PowerOfTwo[len] - 1)
    BY <1>1, <1>2, PolynomialIsIdeal
  <1>4. acc = Promise!RoundPolynomial(t)
    BY <1>3 DEF len, PairsAt
  <1>5. Len(polys) < Promise!NumRounds
    BY <1>1 DEF ell_b
  <1> QED
    BY <1>1, <1>4, <1>5 DEF Promise!SendRound

(* The end of the loop produces the promised vectors. *)
LEMMA FinishProduces ==
  ASSUME FoldInv, Finish
  PROVE  Promise!Produce
  <1>1. /\ stage = "finish" /\ CountersInv /\ StagesInv /\ DataInv /\ n \in Sizes
        /\ n \in Nat /\ ell_b \in Nat \ {0} /\ t = ell_b /\ Len(polys) = ell_b
        /\ out = Promise!Running /\ UNCHANGED <<n, polys>>
    BY NumberOfRounds DEF Finish, FoldInv, CountersInv, StagesInv
  <1>2. /\ LayersOK(ab, n, ell_b, stage, t, todo, m)
        /\ has_i64 => HoldsBatch(c, n, ell_b)
        /\ ~has_i64 => LayersOK(c, n, ell_b, stage, t, todo, m)
    BY <1>1 DEF DataInv
  <1> DEFINE whole == Layer(n, ell_b, 0)
             pairs == m \div 2
             folded == IF ell_b = 1 THEN ab
                       ELSE IF has_i64 THEN Truncate(FoldPairsInPlace(ab, pairs), pairs)
                       ELSE Truncate(FoldPairs(ab, 0, pairs), pairs)
             values == [b \in DOMAIN c |-> I64Layer(b) \cup Large(c[b])]
             folded_c == IF has_i64 THEN [k \in {0} |-> WeightedSum(values)]
                         ELSE IF ell_b = 1 THEN c ELSE Truncate(FoldPairs(c, 0, pairs), pairs)
  <1>3. out' = Promise!Done(folded[0], folded_c[0], WeightedSum(FieldLayers))
    BY DEF Finish
  <1>4. ASSUME ell_b = 1, NEW l, LayersOK(l, n, ell_b, stage, t, todo, m)
        PROVE  l[0] = whole
    BY <1>1, <1>4 DEF LayersOK, Unfolded
  <1>5. ASSUME ell_b # 1, NEW l, LayersOK(l, n, ell_b, stage, t, todo, m)
        PROVE  /\ pairs = 1
               /\ Truncate(FoldPairs(l, 0, 1), 1)[0] = whole
               /\ Truncate(FoldPairsInPlace(l, 1), 1)[0] = whole
    <2>1. m = 2 /\ pairs = 1
      <3>1. ell_b - t + 1 = 1 /\ t # 0
        BY <1>1
      <3>2. PowerOfTwo[0 + 1] = 2 * PowerOfTwo[0] /\ PowerOfTwo[0] = 1
        BY PowerFacts
      <3>3. m = PowerOfTwo[1]
        BY <1>1, <1>5, <3>1 DEF CountersInv
      <3> QED
        BY <3>2, <3>3
    <2>2. 0 .. 2 - 1 = {0, 1} /\ ell_b - 1 \in Nat /\ (ell_b - 1) + 1 = ell_b
      BY <1>1
    <2>3. DOMAIN l = 0 .. 2 - 1 /\ Unfolded(l, n, ell_b - 1, 0 .. 2 - 1)
      BY <1>1, <1>5, <2>1, <2>2 DEF LayersOK
    <2>4. /\ Truncate(FoldPairs(l, 0, 1), 1)[0] = Layer(n, (ell_b - 1) + 1, 0)
          /\ Truncate(FoldPairsInPlace(l, 1), 1)[0] = Layer(n, (ell_b - 1) + 1, 0)
      BY <2>2, <2>3, LastFold
    <2> QED
      BY <2>1, <2>2, <2>4
  <1>6. folded[0] = whole
    <2>1. CASE ell_b = 1
      BY <1>2, <1>4, <2>1
    <2>2. CASE ell_b # 1
      <3>1. /\ pairs = 1
            /\ Truncate(FoldPairs(ab, 0, 1), 1)[0] = whole
            /\ Truncate(FoldPairsInPlace(ab, 1), 1)[0] = whole
        BY <1>2, <1>5, <2>2
      <3> HIDE DEF pairs, whole
      <3> QED
        BY <2>2, <3>1
    <2> QED
      BY <2>1, <2>2
  <1>7. folded_c[0] = whole
    <2>1. CASE has_i64
      <3>1. /\ DOMAIN c = 0 .. PowerOfTwo[ell_b] - 1
            /\ \A b \in 0 .. PowerOfTwo[ell_b] - 1 : c[b] = FieldEntry(AtPosition(n, b))
        BY <1>2, <2>1 DEF HoldsBatch
      <3>2. DOMAIN values = 0 .. PowerOfTwo[ell_b] - 1
        BY <3>1
      <3>3. ASSUME NEW b \in DOMAIN values PROVE values[b] = FieldEntry(AtPosition(n, b))
        <4>1. values[b] = I64Layer(b) \cup Large(c[b])
          OBVIOUS
        <4>2. c[b] = FieldEntry(AtPosition(n, b))
          BY <3>1, <3>2
        <4>3. I64Layer(b) = Small(FieldEntry(AtPosition(n, b)))
          BY Zenon DEF I64Layer, PaddedIndex, AtPosition
        <4> HIDE DEF values
        <4> QED
          BY <4>1, <4>2, <4>3, PartsMakeField
      <3> HIDE DEF values
      <3>4. WeightedSum(values) = Layer(n, ell_b, 0)
        <4>1. ell_b \in Nat
          BY <1>1
        <4> QED
          BY <3>2, <3>3, <4>1, WeightedSumIsLayer
      <3> QED
        BY <2>1, <3>4
    <2>2. CASE ~has_i64 /\ ell_b = 1
      BY <1>2, <1>4, <2>2
    <2>3. CASE ~has_i64 /\ ell_b # 1
      <3>1. pairs = 1 /\ Truncate(FoldPairs(c, 0, 1), 1)[0] = whole
        BY <1>2, <1>5, <2>3
      <3> HIDE DEF pairs, whole
      <3> QED
        BY <2>3, <3>1
    <2> QED
      BY <2>1, <2>2, <2>3
  <1>8. WeightedSum(FieldLayers) = whole
    <2>1. HoldsBatch(FieldLayers, n, ell_b)
      BY <1>1, FieldLayersHoldBatch
    <2>2. /\ DOMAIN FieldLayers = 0 .. PowerOfTwo[ell_b] - 1
          /\ \A b \in DOMAIN FieldLayers : FieldLayers[b] = FieldEntry(AtPosition(n, b))
      BY <2>1 DEF HoldsBatch
    <2>3. ell_b \in Nat
      BY <1>1
    <2> QED
      BY <2>2, <2>3, WeightedSumIsLayer
  <1>9. Promise!PartialEvaluation(Promise!NumRounds, <<>>) = whole
    BY <1>1, FoldedBatch DEF ell_b
  <1> HIDE DEF whole, folded, folded_c
  <1>10. out' = Promise!Done(whole, whole, whole)
    BY <1>3, <1>6, <1>7, <1>8
  <1> QED
    BY <1>1, <1>9, <1>10 DEF Promise!Produce, ell_b

(* A step of the loop is a step of the promise, or none that it shows. *)
LEMMA StepImplements ==
  ASSUME FoldInv, [Next]_vars
  PROVE  [Promise!Next]_<<n, polys, out>>
  <1>1. ASSUME NEW j \in todo, ProvePair(j) \/ ProveCross(j) \/ FoldChunkOnly(j) \/ FoldAndProveChunk(j)
        PROVE  UNCHANGED <<n, polys, out>>
    BY <1>1 DEF ProvePair, ProveCross, FoldChunkOnly, FoldAndProveChunk
  <1>2. CASE FinishRound0
    <2>1. /\ stage = "prove_pairs" /\ todo = {} /\ polys' = Append(polys, acc)
          /\ UNCHANGED <<n, out>>
      BY <1>2 DEF FinishRound0
    <2>2. t < ell_b /\ PairsAt(t) \ todo = PairsAt(t)
      BY <2>1, NumberOfRounds DEF FoldInv, CountersInv, StagesInv
    <2>3. acc = IdealSum(n, t, ell_b - t - 1, PairsAt(t))
      BY <2>1, <2>2 DEF FoldInv, AccInv
    <2>4. Promise!SendRound
      BY <2>1, <2>2, <2>3, RoundSends
    <2> QED
      BY <2>4 DEF Promise!Next
  <1>3. CASE CrossBarrier
    BY <1>3 DEF CrossBarrier
  <1>4. CASE FinishRound
    <2>1. /\ stage \in {"fold_chunks", "fold_and_prove"} /\ todo = {}
          /\ polys' = Append(polys, acc) /\ UNCHANGED <<n, out>>
      BY <1>4 DEF FinishRound
    <2>2. t < ell_b /\ PairsAt(t) \ todo = PairsAt(t)
      BY <2>1 DEF FoldInv, StagesInv
    <2>3. acc = IdealSum(n, t, ell_b - t - 1, PairsAt(t))
      BY <2>1, <2>2 DEF FoldInv, AccInv
    <2>4. Promise!SendRound
      BY <2>1, <2>2, <2>3, RoundSends
    <2> QED
      BY <2>4 DEF Promise!Next
  <1>5. CASE Finish
    BY <1>5, FinishProduces DEF Promise!Next
  <1>6. CASE Fails
    <2>1. out = Promise!Running
      BY <1>6 DEF Fails, FoldInv, StagesInv
    <2> QED
      BY <1>6, <2>1 DEF Fails, Promise!Fail, Promise!Next
  <1>7. CASE UNCHANGED vars
    BY <1>7 DEF vars
  <1> QED
    BY <1>1, <1>2, <1>3, <1>4, <1>5, <1>6, <1>7 DEF Next, WorkerStep, LoopStep

(* The loop implements the safety part of its promise: it sends the         *)
(* polynomials of the sum-check over the padded batch, in order, and        *)
(* returns the folded vectors only after the last one.                      *)
THEOREM ImplementsPromise == Spec => Promise!SafeSpec
  <1>1. Init => Promise!Init
    BY DEF Init, Promise!Init
  <1> QED
    BY <1>1, LoopInvariant, StepImplements, PTL DEF Spec, Promise!SafeSpec
=============================================================================
