------------------------- MODULE ShapeLayoutProofs -------------------------
(***************************************************************************)
(* The properties of module ShapeLayout hold for circuits of every size    *)
(* and for every width that is a power of two.                             *)
(***************************************************************************)
EXTENDS ShapeLayout, OperatorFacts

(* The segments before the last one, padded. *)
Before(c) == PadToWidth(Width, c.shared) + PadToWidth(Width, c.precommitted)

(* The column of a variable once its circuit has n variables. *)
Place(c, n, v) ==
  IF v[1] = "input" THEN v[2] + n
  ELSE IF v[2] < c.shared THEN v[2]
  ELSE IF v[2] < c.shared + c.precommitted THEN v[2] + PadToWidth(Width, c.shared) - c.shared
  ELSE v[2] + Before(c) - c.shared - c.precommitted

(* A circuit laid out on n variables and m constraints. *)
LaidOut(S, c, n, m) ==
  /\ {"num_cons", "num_rest", "M"} \subseteq DOMAIN S
  /\ S.num_cons = m /\ S.num_cons_unpadded = c.cons
  /\ S.num_shared = PadToWidth(Width, c.shared)
  /\ S.num_precommitted = PadToWidth(Width, c.precommitted)
  /\ S.num_rest = n - Before(c)
  /\ S.num_shared_unpadded = c.shared /\ S.num_precommitted_unpadded = c.precommitted
  /\ S.num_rest_unpadded = c.rest
  /\ S.num_public = c.public /\ S.num_challenges = c.challenges
  /\ S.M = [columns |-> [v \in Variables(c) |-> Place(c, n, v)],
            rows |-> m, cols |-> n + NumInputs(c)]

(* Numbers of variables and constraints a circuit may be laid out on. *)
Fits(c, n, m) ==
  /\ n \in Nat /\ NextPowerOfTwo(n) = n
  /\ n >= Before(c) + PadToWidth(Width, c.rest)
  /\ n >= NumInputs(c)
  /\ m \in Nat /\ NextPowerOfTwo(m) = m

(* Every shape is its circuit laid out on as many variables and constraints *)
(* as it says, at every stage of setup.                                     *)
LayoutInv ==
  /\ circuits \in Setups
  /\ stage \in {"shape", "equalize", "precompute", "done"}
  /\ shapes \in Seq({shapes[i] : i \in DOMAIN shapes})
  /\ IF stage = "shape" THEN Len(shapes) < Len(circuits) ELSE Len(shapes) = Len(circuits)
  /\ stage = "equalize" => Len(circuits) = 2
  /\ \A i \in DOMAIN shapes :
       /\ Fits(circuits[i], NumVars(shapes[i]), shapes[i].num_cons)
       /\ LaidOut(shapes[i], circuits[i], NumVars(shapes[i]), shapes[i].num_cons)
  /\ stage \in {"precompute", "done"} =>
       \A i \in DOMAIN shapes, j \in DOMAIN shapes :
         NumVars(shapes[i]) = NumVars(shapes[j]) /\ shapes[i].num_cons = shapes[j].num_cons
  /\ stage = "done" => filtered = [i \in Sides |-> BuildFiltered(shapes[i])]

-----------------------------------------------------------------------------
(* A circuit laid out *)

(* A row has at least one entry. *)
LEMMA WidthPositive == Width \in Nat \ {0}
  BY WidthAssumption

(* A padded segment is no shorter, and an empty one stays empty. *)
LEMMA SegmentPadding ==
  ASSUME NEW n \in Nat
  PROVE  PadToWidth(Width, n) \in Nat /\ PadToWidth(Width, n) >= n /\ (n = 0 => PadToWidth(Width, n) = 0)
  <1>1. /\ DivCeil(n, Width) \in Nat /\ n <= DivCeil(n, Width) * Width
        /\ DivCeil(n, Width) * Width < n + Width
    BY WidthPositive, CeilingCovers
  <1>2. n = 0 => DivCeil(n, Width) = 0
    <2>1. 0 <= 0 * Width /\ 0 * Width < 0 + Width
      BY WidthPositive
    <2> QED
      BY <2>1, WidthPositive, CeilingIs
  <1> QED
    BY <1>1, <1>2, WidthPositive DEF PadToWidth

(* The sizes of a circuit, padded and not, are natural numbers. *)
LEMMA Sizes ==
  ASSUME NEW c \in CircuitSizes
  PROVE  /\ c.cons \in Nat /\ c.shared \in Nat /\ c.precommitted \in Nat /\ c.rest \in Nat
         /\ c.public \in Nat /\ c.challenges \in Nat
         /\ PadToWidth(Width, c.shared) \in Nat /\ PadToWidth(Width, c.shared) >= c.shared
         /\ PadToWidth(Width, c.precommitted) \in Nat /\ PadToWidth(Width, c.precommitted) >= c.precommitted
         /\ PadToWidth(Width, c.rest) \in Nat /\ PadToWidth(Width, c.rest) >= c.rest
         /\ Before(c) = PadToWidth(Width, c.shared) + PadToWidth(Width, c.precommitted)
         /\ Before(c) \in Nat
         /\ NumAux(c) = c.shared + c.precommitted + c.rest
         /\ NumInputs(c) = 1 + c.public + c.challenges
         /\ NumInputs(c) \in Nat
  <1>1. /\ c.cons \in Nat /\ c.shared \in Nat /\ c.precommitted \in Nat /\ c.rest \in Nat
        /\ c.public \in Nat /\ c.challenges \in Nat
    BY DEF CircuitSizes
  <1>2. /\ PadToWidth(Width, c.shared) \in Nat /\ PadToWidth(Width, c.shared) >= c.shared
        /\ PadToWidth(Width, c.precommitted) \in Nat /\ PadToWidth(Width, c.precommitted) >= c.precommitted
        /\ PadToWidth(Width, c.rest) \in Nat /\ PadToWidth(Width, c.rest) >= c.rest
    BY <1>1, SegmentPadding
  <1> QED
    BY <1>1, <1>2 DEF Before, NumAux, NumInputs

(* A variable is auxiliary or an input, and its number is in bounds. *)
LEMMA VariableKinds ==
  ASSUME NEW c \in CircuitSizes, NEW v \in Variables(c)
  PROVE  \/ v[1] = "aux" /\ v[2] \in 0 .. NumAux(c) - 1 /\ v = Aux(v[2])
         \/ v[1] = "input" /\ v[2] \in 0 .. NumInputs(c) - 1 /\ v = Input(v[2])
  BY DEF Variables, Aux, Input

(* The dimensions of a circuit laid out. *)
LEMMA Fields ==
  ASSUME NEW c \in CircuitSizes, NEW n \in Nat, NEW m, NEW S, LaidOut(S, c, n, m)
  PROVE  /\ NumVars(S) = n /\ NumExtra(S) = NumInputs(c) /\ ColMin(S) = Before(c)
         /\ DOMAIN S.M.columns = Variables(c)
         /\ \A v \in Variables(c) : S.M.columns[v] = Place(c, n, v)
  <1>1. NumVars(S) = n /\ NumExtra(S) = NumInputs(c) /\ ColMin(S) = Before(c)
    BY Sizes DEF NumVars, NumExtra, ColMin, LaidOut
  <1>2. S.M.columns = [v \in Variables(c) |-> Place(c, n, v)]
    BY DEF LaidOut
  <1> QED
    BY <1>1, <1>2

(* SplitR1CSShape::new lays a circuit out. *)
LEMMA NewShapeLaysOut ==
  ASSUME NEW c \in CircuitSizes
  PROVE  \E n, m \in Nat : Fits(c, n, m) /\ LaidOut(NewShape(c), c, n, m)
  <1> DEFINE total == GreatestOf(Before(c) + PadToWidth(Width, c.rest), NumInputs(c))
             n == NextPowerOfTwo(total)
             m == NextPowerOfTwo(c.cons)
             padded == [shared |-> PadToWidth(Width, c.shared),
                        precommitted |-> PadToWidth(Width, c.precommitted), cons |-> m,
                        vars |-> PadToWidth(Width, c.shared) + PadToWidth(Width, c.precommitted)
                                   + RestPadded(c)]
  <1>1. total \in Nat /\ total >= Before(c) + PadToWidth(Width, c.rest) /\ total >= NumInputs(c)
    BY Sizes DEF GreatestOf
  <1>2. n \in Nat /\ n >= total /\ NextPowerOfTwo(n) = n
    <2> HIDE DEF total
    <2> QED
      BY <1>1, PowerOfTwoAbove
  <1>3. m \in Nat /\ NextPowerOfTwo(m) = m
    BY Sizes, PowerOfTwoAbove
  <1>4. RestPadded(c) = n - Before(c)
    BY DEF RestPadded, Before
  <1> HIDE DEF total, n, m
  <1>5. Fits(c, n, m)
    BY <1>1, <1>2, <1>3, Sizes DEF Fits
  <1>6. padded.vars = n
    BY <1>2, <1>4, Sizes
  <1>7. ApplyPad(Synthesized(c), c, padded)
          = [columns |-> [v \in Variables(c) |-> Place(c, n, v)],
             rows |-> m, cols |-> n + NumInputs(c)]
    <2>1. /\ Synthesized(c).columns = [v \in Variables(c) |-> Column(c, v)]
          /\ Synthesized(c).cols = NumAux(c) + NumInputs(c)
      BY DEF Synthesized
    <2>2. ASSUME NEW v \in Variables(c)
          PROVE  LET col == Column(c, v)
                 IN  Place(c, n, v)
                       = IF c.shared <= col /\ col < c.shared + c.precommitted
                           THEN col + padded.shared - c.shared
                         ELSE IF c.shared + c.precommitted <= col /\ col < NumAux(c)
                           THEN col + padded.shared + padded.precommitted
                                  - c.shared - c.precommitted
                         ELSE IF col >= NumAux(c) THEN col + padded.vars - NumAux(c)
                         ELSE col
      <3>1. CASE v[1] = "aux"
        <4>1. v[2] \in 0 .. NumAux(c) - 1 /\ v[1] # "input"
          BY <3>1, VariableKinds
        <4>2. /\ Column(c, v) = v[2]
              /\ Place(c, n, v) = IF v[2] < c.shared THEN v[2]
                                     ELSE IF v[2] < c.shared + c.precommitted
                                       THEN v[2] + PadToWidth(Width, c.shared) - c.shared
                                     ELSE v[2] + Before(c) - c.shared - c.precommitted
          BY <4>1 DEF Column, Place
        <4> QED
          BY <4>1, <4>2, Sizes
      <3>2. CASE v[1] = "input"
        <4>1. v[2] \in 0 .. NumInputs(c) - 1
          BY <3>2, VariableKinds
        <4>2. Column(c, v) = v[2] + NumAux(c) /\ Place(c, n, v) = v[2] + n
          BY <3>2 DEF Column, Place
        <4>3. padded.vars = n
          BY <1>6
        <4> HIDE DEF padded
        <4> QED
          BY <4>1, <4>2, <4>3, <1>2, Sizes
      <3> QED
        BY <3>1, <3>2, VariableKinds
    <2>3. Synthesized(c).cols + padded.vars - NumAux(c) = n + NumInputs(c)
      BY <2>1, <1>2, <1>6, Sizes
    <2>4. padded.cons = m
      OBVIOUS
    <2> HIDE DEF padded
    <2> QED
      BY <2>1, <2>2, <2>3, <2>4 DEF ApplyPad
  <1>8. LaidOut(NewShape(c), c, n, m)
    <2>1. NewShape(c) =
            [num_cons |-> m, num_cons_unpadded |-> c.cons,
             num_shared |-> PadToWidth(Width, c.shared),
             num_precommitted |-> PadToWidth(Width, c.precommitted),
             num_rest |-> RestPadded(c),
             num_shared_unpadded |-> c.shared, num_precommitted_unpadded |-> c.precommitted,
             num_rest_unpadded |-> c.rest,
             num_public |-> c.public, num_challenges |-> c.challenges,
             M |-> ApplyPad(Synthesized(c), c, padded)]
      BY Zenon DEF NewShape, m
    <2> HIDE DEF padded
    <2> QED
      BY <2>1, <1>4, <1>7 DEF LaidOut
  <1> QED
    BY <1>2, <1>3, <1>5, <1>8

(* equalize lays the same circuit out on other numbers. *)
LEMMA EqualizedLaysOut ==
  ASSUME NEW c \in CircuitSizes, NEW n \in Nat, NEW m \in Nat, Fits(c, n, m),
         NEW S, LaidOut(S, c, n, m), NEW num_vars \in Nat, NEW num_cons \in Nat
  PROVE  LaidOut(Equalized(S, num_vars, num_cons), c, num_vars, num_cons)
  <1> DEFINE moved == MovePublicVars(S.M, NumVars(S), num_vars, S.num_cons, num_cons)
             T == [S EXCEPT !.num_cons = num_cons, !.num_rest = num_vars - Before(c),
                            !.M = moved]
  <1>1. NumVars(S) = n /\ S.num_cons = m
    BY Fields DEF LaidOut
  <1>2. S.M = [columns |-> [v \in Variables(c) |-> Place(c, n, v)],
               rows |-> m, cols |-> n + NumInputs(c)]
    BY DEF LaidOut
  <1>3. ASSUME NEW v \in Variables(c)
        PROVE  Place(c, num_vars, v) = IF Place(c, n, v) >= n
                                         THEN Place(c, n, v) + num_vars - n
                                       ELSE Place(c, n, v)
    <2>1. n >= Before(c) + PadToWidth(Width, c.rest)
      BY DEF Fits
    <2>2. CASE v[1] = "aux"
      <3>1. v[2] \in 0 .. NumAux(c) - 1 /\ v[1] # "input"
        BY <2>2, VariableKinds
      <3>2. Place(c, num_vars, v) = Place(c, n, v)
        BY <3>1 DEF Place
      <3>3. Place(c, n, v) < n
        BY <2>1, <3>1, Sizes DEF Place
      <3> QED
        BY <3>2, <3>3, <2>1, <3>1, Sizes DEF Place
    <2>3. CASE v[1] = "input"
      <3>1. v[2] \in 0 .. NumInputs(c) - 1
        BY <2>3, VariableKinds
      <3>2. Place(c, num_vars, v) = v[2] + num_vars /\ Place(c, n, v) = v[2] + n
        BY <2>3 DEF Place
      <3> QED
        BY <3>1, <3>2, Sizes
    <2> QED
      BY <2>2, <2>3, VariableKinds
  <1>4. moved = [columns |-> [v \in Variables(c) |-> Place(c, num_vars, v)],
                 rows |-> num_cons, cols |-> num_vars + NumInputs(c)]
    <2>1. moved = [columns |-> [v \in Variables(c) |-> IF Place(c, n, v) >= n
                                         THEN Place(c, n, v) + num_vars - n
                                       ELSE Place(c, n, v)],
                   rows |-> m + num_cons - m,
                   cols |-> n + NumInputs(c) + num_vars - n]
      BY <1>1, <1>2 DEF MovePublicVars
    <2>2. m + num_cons - m = num_cons
      OBVIOUS
    <2>3. n + NumInputs(c) + num_vars - n = num_vars + NumInputs(c)
      BY Sizes
    <2> QED
      BY <2>1, <2>2, <2>3, <1>3
  <1> HIDE DEF moved
  <1>5. Equalized(S, num_vars, num_cons) = T
    <2>1. S.num_shared + S.num_precommitted = Before(c)
      BY DEF LaidOut, Before
    <2>2. Equalized(S, num_vars, num_cons)
            = [S EXCEPT !.num_cons = num_cons,
                        !.num_rest = num_vars - (S.num_shared + S.num_precommitted),
                        !.M = moved]
      BY Zenon DEF Equalized, moved
    <2> QED
      BY <2>1, <2>2
  <1>6. LaidOut(T, c, num_vars, num_cons)
    BY <1>4 DEF LaidOut
  <1> QED
    BY <1>5, <1>6, Zenon

-----------------------------------------------------------------------------
(* The invariant *)

(* What the invariant says of one shape, apart from its place. *)
Good(S, c) == Fits(c, NumVars(S), S.num_cons) /\ LaidOut(S, c, NumVars(S), S.num_cons)

(* The circuits setup is called with, and those whose shapes exist. *)
LEMMA SetupCircuits ==
  ASSUME LayoutInv
  PROVE  /\ Len(circuits) \in {1, 2} /\ Sides = 1 .. Len(circuits)
         /\ \A i \in Sides : circuits[i] \in CircuitSizes
         /\ Len(shapes) \in Nat /\ DOMAIN shapes = 1 .. Len(shapes)
         /\ DOMAIN shapes \subseteq Sides
  <1>1. circuits \in Seq(CircuitSizes) /\ Len(circuits) \in {1, 2}
    BY SetupsAssumption DEF LayoutInv
  <1>2. Sides = 1 .. Len(circuits) /\ \A i \in Sides : circuits[i] \in CircuitSizes
    BY <1>1 DEF Sides
  <1>3. Len(shapes) \in Nat /\ DOMAIN shapes = 1 .. Len(shapes)
    <2> DEFINE Made == {shapes[i] : i \in DOMAIN shapes}
    <2>1. shapes \in Seq(Made)
      BY DEF LayoutInv
    <2> HIDE DEF Made
    <2> QED
      BY <2>1
  <1>4. Len(shapes) <= Len(circuits)
    BY <1>1, <1>3 DEF LayoutInv
  <1> QED
    BY <1>1, <1>2, <1>3, <1>4

(* No shape is a sequence of shapes. *)
LEMMA EmptySequence ==
  <<>> \in Seq({<<>>[i] : i \in DOMAIN <<>>}) /\ Len(<<>>) = 0 /\ DOMAIN <<>> = {}
  OBVIOUS

(* Before the first shape. *)
LEMMA LayoutInit ==
  ASSUME Init
  PROVE  LayoutInv
  <1>1. /\ circuits \in Setups /\ shapes = <<>> /\ stage = "shape"
    BY DEF Init
  <1>2. Len(circuits) \in {1, 2}
    BY <1>1, SetupsAssumption
  <1> QED
    BY <1>1, <1>2, EmptySequence DEF LayoutInv

(* A sequence with one more element. *)
LEMMA AppendedRows ==
  ASSUME NEW s, s \in Seq({s[i] : i \in DOMAIN s}), NEW e
  PROVE  LET t == Append(s, e)
         IN  /\ t \in Seq({t[i] : i \in DOMAIN t})
             /\ Len(s) \in Nat /\ Len(t) = Len(s) + 1
             /\ DOMAIN t = 1 .. Len(s) + 1
             /\ \A i \in 1 .. Len(s) : t[i] = s[i]
             /\ t[Len(s) + 1] = e
  <1> DEFINE A == {s[i] : i \in DOMAIN s} \cup {e}
             t == Append(s, e)
             B == {t[i] : i \in DOMAIN t}
  <1>1. s \in Seq(A)
    <2>1. {s[i] : i \in DOMAIN s} \subseteq A
      OBVIOUS
    <2> HIDE DEF A
    <2> QED
      BY <2>1, SeqMonotonic
  <1>2. e \in A
    OBVIOUS
  <1>3. /\ t \in Seq(A) /\ Len(t) = Len(s) + 1
        /\ \A i \in 1 .. Len(s) : t[i] = s[i]
        /\ t[Len(s) + 1] = e
    <2> HIDE DEF A
    <2> QED
      BY <1>1, <1>2, AppendProperties
  <1>4. Len(s) \in Nat
    <2> HIDE DEF A
    <2> QED
      BY <1>1, LenProperties
  <1>5. DOMAIN t = 1 .. Len(t) /\ Len(t) \in Nat
    <2> HIDE DEF A, t
    <2> QED
      BY <1>3, LenProperties
  <1>6. t \in [1 .. Len(t) -> B] /\ Len(t) \in Nat
    <2> HIDE DEF A
    <2>1. t \in [1 .. Len(t) -> A]
      <3> HIDE DEF t
      <3> QED
        BY <1>3, LenProperties
    <2> HIDE DEF t
    <2> QED
      BY <1>5, <2>1
  <1>7. t \in Seq(B)
    <2> HIDE DEF B, t
    <2> QED
      BY <1>6, SeqDef
  <1> QED
    BY <1>3, <1>4, <1>5, <1>7, Zenon

(* SplitR1CSShape::new of the next circuit. *)
LEMMA MakeShapeKeeps ==
  ASSUME LayoutInv, MakeShape
  PROVE  LayoutInv'
  <1> DEFINE k == Len(shapes) + 1
             c == circuits[k]
             S == NewShape(c)
             t == Append(shapes, S)
  <1>1. /\ stage = "shape" /\ shapes' = t /\ circuits' = circuits /\ filtered' = filtered
        /\ stage' = IF Len(t) < Len(circuits) THEN "shape"
                    ELSE IF Len(circuits) = 2 THEN "equalize" ELSE "precompute"
    BY DEF MakeShape
  <1>2. /\ Len(circuits) \in {1, 2} /\ Len(shapes) < Len(circuits) /\ Len(shapes) \in Nat
        /\ k \in Sides /\ c \in CircuitSizes
    BY <1>1, SetupCircuits DEF LayoutInv
  <1> HIDE DEF c
  <1>3. Good(S, c)
    <2>1. PICK n \in Nat, m \in Nat : Fits(c, n, m) /\ LaidOut(S, c, n, m)
      BY <1>2, NewShapeLaysOut
    <2> HIDE DEF S
    <2>2. NumVars(S) = n /\ S.num_cons = m
      BY <1>2, <2>1, Fields DEF LaidOut
    <2> QED
      BY <2>1, <2>2 DEF Good
  <1> HIDE DEF S
  <1>4. /\ t \in Seq({t[i] : i \in DOMAIN t})
        /\ Len(t) = Len(shapes) + 1 /\ DOMAIN t = 1 .. Len(shapes) + 1
        /\ \A i \in 1 .. Len(shapes) : t[i] = shapes[i]
        /\ t[k] = S
    <2>1. shapes \in Seq({shapes[i] : i \in DOMAIN shapes})
      BY DEF LayoutInv
    <2> QED
      BY <2>1, AppendedRows
  <1> HIDE DEF t
  <1>5. ASSUME NEW i \in DOMAIN t PROVE Good(t[i], circuits[i])
    <2>1. CASE i = k
      BY <1>3, <1>4, <2>1 DEF c
    <2>2. CASE i # k
      <3>1. i \in DOMAIN shapes
        BY <1>2, <1>4, <2>2, SetupCircuits
      <3>2. t[i] = shapes[i]
        BY <1>4, <3>1, SetupCircuits
      <3> QED
        BY <3>1, <3>2 DEF LayoutInv, Good
    <2> QED
      BY <2>1, <2>2
  <1>6. stage' = "precompute" => DOMAIN t = {1}
    <2>1. SUFFICES ASSUME stage' = "precompute" PROVE DOMAIN t = {1}
      OBVIOUS
    <2>2. Len(circuits) # 2
      BY <1>1, <2>1
    <2> DEFINE made == Len(shapes)
               all == Len(circuits)
    <2>3. made \in Nat /\ made < all /\ all \in {1, 2} /\ all # 2
      BY <1>2, <2>2
    <2>4. DOMAIN t = 1 .. made + 1
      BY <1>4
    <2> HIDE DEF made, all
    <2>5. made = 0
      BY <2>3
    <2> QED
      BY <2>4, <2>5
  <1>7. /\ stage' \in {"shape", "equalize", "precompute"}
        /\ IF stage' = "shape" THEN Len(t) < Len(circuits) ELSE Len(t) = Len(circuits)
        /\ stage' = "equalize" => Len(circuits) = 2
    BY <1>1, <1>2, <1>4
  <1> QED
    BY <1>1, <1>4, <1>5, <1>6, <1>7 DEF LayoutInv, Good

(* equalize makes the numbers of variables and constraints of both the same. *)
LEMMA EqualizeKeeps ==
  ASSUME LayoutInv, Equalize
  PROVE  LayoutInv'
  <1> DEFINE num_vars == GreatestOf(NumVars(shapes[1]), NumVars(shapes[2]))
             num_cons == GreatestOf(shapes[1].num_cons, shapes[2].num_cons)
             t == [i \in Sides |-> Equalized(shapes[i], num_vars, num_cons)]
  <1>1. /\ stage = "equalize" /\ shapes' = t /\ stage' = "precompute"
        /\ circuits' = circuits /\ filtered' = filtered
    BY DEF Equalize
  <1>2. /\ Len(circuits) = 2 /\ Sides = 1 .. 2 /\ DOMAIN shapes = Sides
        /\ \A i \in Sides : circuits[i] \in CircuitSizes
    BY <1>1, SetupCircuits DEF LayoutInv
  <1>3. ASSUME NEW i \in Sides PROVE Good(shapes[i], circuits[i])
    BY <1>2, <1>3 DEF LayoutInv, Good
  <1>4. /\ num_vars \in Nat /\ NextPowerOfTwo(num_vars) = num_vars
        /\ num_cons \in Nat /\ NextPowerOfTwo(num_cons) = num_cons
        /\ \A i \in Sides : num_vars >= NumVars(shapes[i])
    BY <1>2, <1>3 DEF GreatestOf, Good, Fits
  <1> HIDE DEF num_vars, num_cons
  <1>5. ASSUME NEW i \in Sides
        PROVE  /\ Fits(circuits[i], num_vars, num_cons)
               /\ LaidOut(t[i], circuits[i], num_vars, num_cons)
               /\ NumVars(t[i]) = num_vars /\ t[i].num_cons = num_cons
    <2>1. /\ circuits[i] \in CircuitSizes
          /\ NumVars(shapes[i]) \in Nat /\ shapes[i].num_cons \in Nat
          /\ Fits(circuits[i], NumVars(shapes[i]), shapes[i].num_cons)
          /\ LaidOut(shapes[i], circuits[i], NumVars(shapes[i]), shapes[i].num_cons)
      BY <1>2, <1>3 DEF Good, Fits
    <2>2. Fits(circuits[i], num_vars, num_cons)
      BY <2>1, <1>4, Sizes DEF Fits
    <2>3. LaidOut(t[i], circuits[i], num_vars, num_cons)
      BY <2>1, <1>4, EqualizedLaysOut
    <2> HIDE DEF t
    <2>4. NumVars(t[i]) = num_vars /\ t[i].num_cons = num_cons
      BY <2>1, <2>3, <1>4, Fields DEF LaidOut
    <2> QED
      BY <2>2, <2>3, <2>4
  <1>6. t \in Seq({t[i] : i \in DOMAIN t}) /\ Len(t) = 2 /\ DOMAIN t = Sides
    <2> DEFINE B == {t[i] : i \in DOMAIN t}
    <2>1. t \in [1 .. 2 -> B] /\ DOMAIN t = 1 .. 2
      <3>1. DOMAIN t = Sides /\ t = [i \in Sides |-> t[i]]
        OBVIOUS
      <3> HIDE DEF t
      <3> QED
        BY <1>2, <3>1
    <2> HIDE DEF B, t
    <2>2. t \in Seq(B)
      BY <2>1, SeqDef
    <2>3. Len(t) = 2
      BY <2>1, <2>2, LenProperties
    <2> QED
      BY <1>2, <2>1, <2>2, <2>3 DEF B
  <1> HIDE DEF t
  <1> QED
    BY <1>1, <1>2, <1>5, <1>6 DEF LayoutInv

(* precompute filters the columns and leaves the shapes as they are. *)
LEMMA PrecomputeKeeps ==
  ASSUME LayoutInv, Precompute
  PROVE  LayoutInv'
  <1>1. /\ stage = "precompute" /\ stage' = "done" /\ circuits' = circuits /\ shapes' = shapes
        /\ filtered' = [i \in Sides |-> BuildFiltered(shapes[i])]
    BY DEF Precompute
  <1>2. Sides' = Sides
    BY <1>1 DEF Sides
  <1> QED
    BY <1>1, <1>2 DEF LayoutInv

(* The invariant holds in every state. *)
THEOREM AlwaysLaidOut == Spec => []LayoutInv
  <1>1. Init => LayoutInv
    BY LayoutInit
  <1>2. LayoutInv /\ [Next]_vars => LayoutInv'
    <2>1. SUFFICES ASSUME LayoutInv, [Next]_vars PROVE LayoutInv'
      OBVIOUS
    <2>2. CASE MakeShape
      BY <2>1, <2>2, MakeShapeKeeps
    <2>3. CASE Equalize
      BY <2>1, <2>3, EqualizeKeeps
    <2>4. CASE Precompute
      BY <2>1, <2>4, PrecomputeKeeps
    <2>5. CASE UNCHANGED vars
      BY <2>1, <2>5 DEF vars, LayoutInv, Sides
    <2> QED
      BY <2>1, <2>2, <2>3, <2>4, <2>5 DEF Next
  <1> QED
    BY <1>1, <1>2, PTL DEF Spec

-----------------------------------------------------------------------------
(* What the invariant implies *)

(* DimensionsAgree for circuits of any sizes: padding and equalizing keep   *)
(* powers of two, room for the public part, and matrices of the shape's     *)
(* dimensions.                                                              *)
THEOREM DimensionsAlwaysAgree == Spec => []DimensionsAgree
  <1>1. ASSUME LayoutInv PROVE DimensionsAgree
    <2>1. ASSUME NEW i \in DOMAIN shapes
          PROVE  /\ NextPowerOfTwo(NumVars(shapes[i])) = NumVars(shapes[i])
                 /\ NextPowerOfTwo(shapes[i].num_cons) = shapes[i].num_cons
                 /\ shapes[i].M.rows = shapes[i].num_cons
                 /\ shapes[i].M.cols = NumVars(shapes[i]) + NumExtra(shapes[i])
                 /\ NumVars(shapes[i]) >= NumExtra(shapes[i])
      <3> DEFINE S == shapes[i]
                 c == circuits[i]
      <3>1. c \in CircuitSizes
        BY <1>1, <2>1, SetupCircuits
      <3>2. Fits(c, NumVars(S), S.num_cons) /\ LaidOut(S, c, NumVars(S), S.num_cons)
        BY <1>1, <2>1 DEF LayoutInv
      <3> HIDE DEF S, c
      <3>3. NumVars(S) \in Nat
        BY <3>2 DEF Fits
      <3>4. NumExtra(S) = NumInputs(c)
        BY <3>1, <3>2, <3>3, Fields
      <3>5. /\ NextPowerOfTwo(NumVars(S)) = NumVars(S)
            /\ NextPowerOfTwo(S.num_cons) = S.num_cons
            /\ S.M.rows = S.num_cons /\ S.M.cols = NumVars(S) + NumExtra(S)
            /\ NumVars(S) >= NumExtra(S)
        BY <3>2, <3>4 DEF Fits, LaidOut
      <3> QED
        BY <3>5 DEF S
    <2>2. stage \in {"precompute", "done"} => Sides = DOMAIN shapes
      BY <1>1, SetupCircuits DEF LayoutInv
    <2>3. stage \in {"precompute", "done"} =>
            \A i \in Sides, j \in Sides :
              NumVars(shapes[i]) = NumVars(shapes[j]) /\ shapes[i].num_cons = shapes[j].num_cons
      BY <1>1, <2>2 DEF LayoutInv
    <2> QED
      BY <2>1, <2>3 DEF DimensionsAgree, Shapes
  <1> QED
    BY <1>1, AlwaysLaidOut, PTL

(* Where the witness of a laid-out circuit holds each of its variables.     *)
LEMMA PlacedRight ==
  ASSUME NEW c \in CircuitSizes, NEW n, NEW m, Fits(c, n, m),
         NEW S, LaidOut(S, c, n, m), NEW v \in Variables(c)
  PROVE  /\ Place(c, n, v) \in DOMAIN Assignment(S)
         /\ Assignment(S)[Place(c, n, v)] = v
         /\ v[1] = "aux" => Place(c, n, v) < n /\ Place(c, n, v) < LoEff(S)
         /\ v[1] = "input" => Place(c, n, v) >= n /\ Place(c, n, v) - n < HiEff(S)
  <1> DEFINE p == Place(c, n, v)
  <1>1. /\ n \in Nat /\ n >= Before(c) + PadToWidth(Width, c.rest) /\ n >= NumInputs(c)
    BY DEF Fits
  <1>2. NumVars(S) = n /\ NumExtra(S) = NumInputs(c) /\ ColMin(S) = Before(c)
    BY <1>1, Fields
  <1>3. /\ S.num_shared = PadToWidth(Width, c.shared) /\ S.num_shared_unpadded = c.shared
        /\ S.num_precommitted = PadToWidth(Width, c.precommitted)
        /\ S.num_precommitted_unpadded = c.precommitted
        /\ S.num_rest_unpadded = c.rest
    BY DEF LaidOut
  <1>4. /\ DOMAIN Assignment(S) = 0 .. n + NumInputs(c) - 1
        /\ \A j \in 0 .. n + NumInputs(c) - 1 :
             Assignment(S)[j] = IF j < n THEN Witness(S)[j] ELSE Input(j - n)
    BY <1>2 DEF Assignment
  <1>5. \A j \in 0 .. n - 1 :
          Witness(S)[j] =
            IF j < c.shared THEN Aux(j)
            ELSE IF PadToWidth(Width, c.shared) <= j /\ j < PadToWidth(Width, c.shared) + c.precommitted
              THEN Aux(c.shared + j - PadToWidth(Width, c.shared))
            ELSE IF Before(c) <= j /\ j < Before(c) + c.rest
              THEN Aux(c.shared + c.precommitted + j - Before(c))
            ELSE Pad
    BY <1>2, <1>3 DEF Witness
  <1>6. CASE v[1] = "aux"
    <2>1. v[2] \in 0 .. NumAux(c) - 1 /\ v = Aux(v[2]) /\ v[1] # "input"
      BY <1>6, VariableKinds
    <2>2. p = IF v[2] < c.shared THEN v[2]
              ELSE IF v[2] < c.shared + c.precommitted THEN v[2] + PadToWidth(Width, c.shared) - c.shared
              ELSE v[2] + Before(c) - c.shared - c.precommitted
      BY <2>1 DEF Place
    <2>3. p \in 0 .. n - 1
      <3> HIDE DEF p
      <3> QED
        BY <1>1, <2>1, <2>2, Sizes
    <2>4. Witness(S)[p] = Aux(v[2])
      <3> HIDE DEF p
      <3>1. CASE v[2] < c.shared
        BY <1>5, <2>1, <2>2, <2>3, <3>1
      <3>2. CASE ~ (v[2] < c.shared) /\ v[2] < c.shared + c.precommitted
        <4>1. /\ p = v[2] + PadToWidth(Width, c.shared) - c.shared
              /\ ~ (p < c.shared) /\ PadToWidth(Width, c.shared) <= p
              /\ p < PadToWidth(Width, c.shared) + c.precommitted
              /\ c.shared + p - PadToWidth(Width, c.shared) = v[2]
          BY <2>1, <2>2, <3>2, Sizes
        <4> QED
          BY <1>5, <2>3, <4>1
      <3>3. CASE ~ (v[2] < c.shared) /\ ~ (v[2] < c.shared + c.precommitted)
        <4>1. /\ p = v[2] + Before(c) - c.shared - c.precommitted
              /\ ~ (p < c.shared)
              /\ ~ (p < PadToWidth(Width, c.shared) + c.precommitted)
              /\ Before(c) <= p /\ p < Before(c) + c.rest
              /\ c.shared + c.precommitted + p - Before(c) = v[2]
          BY <2>1, <2>2, <3>3, Sizes
        <4> QED
          BY <1>5, <2>3, <4>1
      <3> QED
        BY <3>1, <3>2, <3>3
    <2>5. p < LoEff(S)
      <3> HIDE DEF p
      <3>1. LoEff(S) = IF c.rest > 0 THEN Before(c) + c.rest
                       ELSE IF c.precommitted > 0 THEN PadToWidth(Width, c.shared) + c.precommitted
                       ELSE c.shared
        BY <1>2, <1>3 DEF LoEff
      <3> QED
        BY <2>1, <2>2, <3>1, Sizes
    <2> HIDE DEF p
    <2>6. p \in 0 .. n + NumInputs(c) - 1 /\ p < n
      BY <1>1, <2>3, Sizes
    <2>7. p \in DOMAIN Assignment(S) /\ Assignment(S)[p] = v
      BY <1>4, <2>1, <2>4, <2>6
    <2> QED
      BY <1>6, <2>1, <2>5, <2>6, <2>7 DEF p
  <1>7. CASE v[1] = "input"
    <2>1. v[2] \in 0 .. NumInputs(c) - 1 /\ v = Input(v[2]) /\ v[1] # "aux"
      BY <1>7, VariableKinds
    <2>2. p = v[2] + n
      BY <1>7 DEF Place
    <2> HIDE DEF p
    <2>3. p \in 0 .. n + NumInputs(c) - 1 /\ p >= n /\ p - n = v[2] /\ ~ (p < n)
      BY <1>1, <2>1, <2>2, Sizes
    <2>4. p \in DOMAIN Assignment(S) /\ Assignment(S)[p] = v
      BY <1>4, <2>1, <2>3
    <2>5. p - n < HiEff(S)
      BY <1>2, <2>1, <2>3, Sizes DEF HiEff
    <2> QED
      BY <2>1, <2>3, <2>4, <2>5 DEF p
  <1> QED
    BY <1>6, <1>7, VariableKinds

(* The same, of a shape of setup. *)
LEMMA ShapeReads ==
  ASSUME LayoutInv, NEW i \in DOMAIN shapes
  PROVE  /\ circuits[i] \in CircuitSizes /\ NumVars(shapes[i]) \in Nat
         /\ ColMin(shapes[i]) \in Nat
         /\ DOMAIN shapes[i].M.columns = Variables(circuits[i])
         /\ \A v \in Variables(circuits[i]) :
              /\ shapes[i].M.columns[v] \in Nat
              /\ shapes[i].M.columns[v] \in DOMAIN Assignment(shapes[i])
              /\ Assignment(shapes[i])[shapes[i].M.columns[v]] = v
              /\ IF shapes[i].M.columns[v] < NumVars(shapes[i])
                   THEN shapes[i].M.columns[v] < LoEff(shapes[i])
                   ELSE shapes[i].M.columns[v] - NumVars(shapes[i]) < HiEff(shapes[i])
  <1> DEFINE S == shapes[i]
             c == circuits[i]
             n == NumVars(S)
  <1>1. c \in CircuitSizes
    BY SetupCircuits
  <1>2. Fits(c, n, S.num_cons) /\ LaidOut(S, c, n, S.num_cons)
    BY DEF LayoutInv
  <1>3. n \in Nat
    BY <1>2 DEF Fits
  <1> HIDE DEF S, c, n
  <1>4. /\ NumVars(S) = n /\ NumExtra(S) = NumInputs(c) /\ ColMin(S) = Before(c)
        /\ DOMAIN S.M.columns = Variables(c)
        /\ \A v \in Variables(c) : S.M.columns[v] = Place(c, n, v)
    BY <1>1, <1>2, <1>3, Fields
  <1>5. ASSUME NEW v \in Variables(c)
        PROVE  /\ S.M.columns[v] \in Nat
               /\ S.M.columns[v] \in DOMAIN Assignment(S)
               /\ Assignment(S)[S.M.columns[v]] = v
               /\ IF S.M.columns[v] < n THEN S.M.columns[v] < LoEff(S)
                  ELSE S.M.columns[v] - n < HiEff(S)
    <2> DEFINE p == Place(c, n, v)
    <2>1. S.M.columns[v] = p
      BY <1>4
    <2>2. /\ p \in DOMAIN Assignment(S) /\ Assignment(S)[p] = v
          /\ v[1] = "aux" => p < n /\ p < LoEff(S)
          /\ v[1] = "input" => p >= n /\ p - n < HiEff(S)
      BY <1>1, <1>2, PlacedRight
    <2>3. DOMAIN Assignment(S) = 0 .. n + NumInputs(c) - 1
      BY <1>4 DEF Assignment
    <2>4. v[1] = "aux" \/ v[1] = "input"
      BY <1>1, VariableKinds
    <2> HIDE DEF p
    <2>5. p \in Nat
      BY <1>1, <1>3, <2>2, <2>3, Sizes
    <2> QED
      BY <1>3, <2>1, <2>2, <2>4, <2>5
  <1>6. ColMin(S) \in Nat
    BY <1>1, <1>4, Sizes
  <1>7. n = NumVars(S)
    BY DEF n
  <1> QED
    BY <1>1, <1>3, <1>4, <1>5, <1>6 DEF S, c, n

(* ColumnsReadTheirVariable for circuits of any sizes: every remapping of   *)
(* the columns follows the layout of the witness.                           *)
THEOREM ColumnsAlwaysRead == Spec => []ColumnsReadTheirVariable
  <1>1. ASSUME LayoutInv PROVE ColumnsReadTheirVariable
    BY <1>1, ShapeReads DEF ColumnsReadTheirVariable
  <1> QED
    BY <1>1, AlwaysLaidOut, PTL

(* NothingBeyondThePrefixes for circuits of any sizes: the prefixes the     *)
(* inner sum-check is given leave no entry of a matrix out.                 *)
THEOREM PrefixesAlwaysCover == Spec => []NothingBeyondThePrefixes
  <1>1. ASSUME LayoutInv PROVE NothingBeyondThePrefixes
    BY <1>1, ShapeReads DEF NothingBeyondThePrefixes
  <1> QED
    BY <1>1, AlwaysLaidOut, PTL

(* IncrementalIsFull for circuits of any sizes: the cached products and the *)
(* filtered matrices split every constraint.                                *)
THEOREM IncrementalAlwaysFull == Spec => []IncrementalIsFull
  <1>1. ASSUME LayoutInv PROVE IncrementalIsFull
    <2>1. SUFFICES ASSUME stage = "done", NEW i \in Sides,
                          NEW v \in DOMAIN shapes[i].M.columns
                   PROVE  CachedAt(shapes[i], v) \o AddedAt(shapes[i], filtered[i], v) = <<v>>
      BY DEF IncrementalIsFull
    <2> DEFINE S == shapes[i]
               kept == filtered[i]
               col == S.M.columns[v]
    <2>2. i \in DOMAIN shapes /\ kept = BuildFiltered(S)
      BY <1>1, <2>1, SetupCircuits DEF LayoutInv
    <2>3. col \in Nat /\ ColMin(S) \in Nat /\ Assignment(S)[col] = v
      BY <1>1, <2>1, <2>2, ShapeReads
    <2>4. v \in kept <=> col >= ColMin(S)
      BY <2>1, <2>2 DEF BuildFiltered
    <2>5. /\ CachedAt(S, v) = IF col < ColMin(S) THEN <<v>> ELSE <<>>
          /\ AddedAt(S, kept, v) = IF v \in kept THEN <<v>> ELSE <<>>
      BY <2>3 DEF CachedAt, AddedAt
    <2>6. <<v>> \o <<>> = <<v>> /\ <<>> \o <<v>> = <<v>>
      <3>1. <<v>> \in Seq({v})
        OBVIOUS
      <3> QED
        BY <3>1, ConcatEmptySeq
    <2> HIDE DEF S, kept, col
    <2>7. CachedAt(S, v) \o AddedAt(S, kept, v) = <<v>>
      <3>1. CASE col < ColMin(S)
        <4>1. CachedAt(S, v) = <<v>> /\ AddedAt(S, kept, v) = <<>>
          BY <2>3, <2>4, <2>5, <3>1
        <4> QED
          BY <2>6, <4>1, Zenon
      <3>2. CASE col >= ColMin(S)
        <4>1. CachedAt(S, v) = <<>> /\ AddedAt(S, kept, v) = <<v>>
          BY <2>3, <2>4, <2>5, <3>2
        <4> QED
          BY <2>6, <4>1, Zenon
      <3> QED
        BY <2>3, <3>1, <3>2
    <2> QED
      BY <2>7 DEF S, kept
  <1> QED
    BY <1>1, AlwaysLaidOut, PTL

-----------------------------------------------------------------------------
(* Commitments to segments *)

(* The entries of two sequences, one after the other. *)
LEMMA Concatenation ==
  ASSUME NEW S, NEW f \in Seq(S), NEW g \in Seq(S)
  PROVE  /\ f \o g \in Seq(S) /\ Len(f \o g) = Len(f) + Len(g)
         /\ \A i \in 1 .. Len(f) : (f \o g)[i] = f[i]
         /\ \A i \in 1 .. Len(g) : (f \o g)[Len(f) + i] = g[i]
  OBVIOUS

(* The entries of h are those of f and then those of g. *)
Joins(h, f, a, g, b, A) ==
  /\ f \in [1 .. a -> A] /\ g \in [1 .. b -> A] /\ h \in [1 .. a + b -> A]
  /\ \A i \in 1 .. a : f[i] = h[i]
  /\ \A i \in 1 .. b : g[i] = h[a + i]

(* Two joined sequences are their concatenation. *)
LEMMA ConcatenationIs ==
  ASSUME NEW a \in Nat, NEW b \in Nat, NEW A, NEW f, NEW g, NEW h, Joins(h, f, a, g, b, A)
  PROVE  f \o g = h
  <1>0. /\ f \in [1 .. a -> A] /\ g \in [1 .. b -> A] /\ h \in [1 .. a + b -> A]
        /\ \A i \in 1 .. a : f[i] = h[i]
        /\ \A i \in 1 .. b : g[i] = h[a + i]
    BY DEF Joins
  <1>1. f \in Seq(A) /\ g \in Seq(A) /\ h \in Seq(A)
    BY <1>0, SeqDef
  <1>2. Len(f) = a /\ Len(g) = b /\ Len(h) = a + b
    BY <1>0, <1>1, LenProperties
  <1>3. /\ f \o g \in Seq(A) /\ Len(f \o g) = a + b
        /\ \A i \in 1 .. a : (f \o g)[i] = f[i]
        /\ \A i \in 1 .. b : (f \o g)[a + i] = g[i]
    <2>1. /\ f \o g \in Seq(A) /\ Len(f \o g) = Len(f) + Len(g)
          /\ \A i \in 1 .. Len(f) : (f \o g)[i] = f[i]
          /\ \A i \in 1 .. Len(g) : (f \o g)[Len(f) + i] = g[i]
      BY <1>1, Concatenation
    <2> QED
      BY <1>2, <2>1
  <1>4. ASSUME NEW i \in 1 .. a + b PROVE (f \o g)[i] = h[i]
    <2>1. CASE i <= a
      <3>1. i \in 1 .. a
        BY <2>1
      <3> QED
        BY <1>0, <1>3, <3>1
    <2>2. CASE i > a
      <3>1. i - a \in 1 .. b /\ a + (i - a) = i
        BY <2>2
      <3> QED
        BY <1>0, <1>3, <3>1
    <2>3. i <= a \/ i > a
      OBVIOUS
    <2> QED
      BY <2>1, <2>2, <2>3, Zenon
  <1> QED
    BY <1>1, <1>2, <1>3, <1>4, SeqEqual

(* The entries of one row, counted from 0. *)
Row(W, first, n, i) ==
  [k \in 0 .. LeastOf(Width, n - (i - 1) * Width) - 1 |-> W[first + (i - 1) * Width + k]]

(* The rows of the r entries from next on are the last ones of the rows from first on. *)
Followed(W, first, n, next, r, all) ==
  Rows(W, first, n) \o Rows(W, next, r) = Rows(W, first, all)

(* A length that fills its last row. *)
WholeRows(n) == \E q \in Nat : n = q * Width

(* Whole rows, then the rows of what follows them. *)
LEMMA RowsAppend ==
  ASSUME NEW W, NEW first \in Nat, NEW n \in Nat, WholeRows(n), NEW r \in Nat,
         NEW next, next = first + n, NEW all, all = n + r
  PROVE  Followed(W, first, n, next, r, all)
  <1> PICK q \in Nat : n = q * Width
    BY DEF WholeRows
  <1> DEFINE f == Rows(W, first, n)
             g == Rows(W, first + n, r)
             h == Rows(W, first, n + r)
             b == NumRows(r)
  <1>0. Width \in Nat \ {0}
    BY WidthPositive
  <1>1. b \in Nat /\ NumRows(n + r) = q + b
    BY <1>0, CeilingCovers, CeilingAdds DEF NumRows
  <1>2. NumRows(n) = q
    <2>1. n <= q * Width /\ q * Width < n + Width
      BY <1>0
    <2> QED
      BY <1>0, <2>1, CeilingIs DEF NumRows
  <1> HIDE DEF b
  <1>3. /\ f = [i \in 1 .. q |-> Row(W, first, n, i)]
        /\ g = [i \in 1 .. b |-> Row(W, first + n, r, i)]
        /\ h = [i \in 1 .. q + b |-> Row(W, first, n + r, i)]
    <2>1. /\ f = [i \in 1 .. NumRows(n) |-> Row(W, first, n, i)]
          /\ g = [i \in 1 .. NumRows(r) |-> Row(W, first + n, r, i)]
          /\ h = [i \in 1 .. NumRows(n + r) |-> Row(W, first, n + r, i)]
      BY Zenon DEF Rows, Row
    <2> HIDE DEF f, g, h
    <2> QED
      BY <1>1, <1>2, <2>1 DEF b
  <1>4. ASSUME NEW i \in 1 .. q PROVE Row(W, first, n, i) = Row(W, first, n + r, i)
    <2>1. PICK e \in Nat : q = i + e
      <3>1. q - i \in Nat /\ q = i + (q - i)
        OBVIOUS
      <3> QED
        BY <3>1
    <2>2. (i - 1) * Width \in Nat /\ e * Width \in Nat /\ n = (i - 1) * Width + Width + e * Width
      BY <1>0, <2>1
    <2> DEFINE a == (i - 1) * Width
    <2>3. LeastOf(Width, n - a) = Width /\ LeastOf(Width, (n + r) - a) = Width
      <3> QED
        BY <1>0, <2>2 DEF LeastOf
    <2> QED
      BY <2>3 DEF Row
  <1>5. ASSUME NEW i \in 1 .. b PROVE Row(W, first + n, r, i) = Row(W, first, n + r, q + i)
    <2> DEFINE a == (i - 1) * Width
    <2>1. a \in Int /\ ((q + i) - 1) * Width = n + a
      BY <1>0, <1>1
    <2>2. (n + r) - (n + a) = r - a
      <3> HIDE DEF a
      <3> QED
        BY <1>0, <2>1
    <2>3. Row(W, first + n, r, i) = [k \in 0 .. LeastOf(Width, r - a) - 1 |-> W[(first + n) + a + k]]
      BY DEF Row
    <2>4. Row(W, first, n + r, q + i)
            = [k \in 0 .. LeastOf(Width, (n + r) - (n + a)) - 1 |-> W[first + (n + a) + k]]
      <3>1. Row(W, first, n + r, q + i)
              = [k \in 0 .. LeastOf(Width, (n + r) - ((q + i) - 1) * Width) - 1 |->
                   W[first + ((q + i) - 1) * Width + k]]
        BY Zenon DEF Row
      <3> HIDE DEF a
      <3> QED
        BY <2>1, <3>1
    <2>5. ASSUME NEW k \in Int PROVE (first + n) + a + k = first + (n + a) + k
      <3> HIDE DEF a
      <3> QED
        BY <1>0, <2>1
    <2>6. LeastOf(Width, r - a) \in Int
      <3> HIDE DEF a
      <3> QED
        BY <1>0, <2>1 DEF LeastOf
    <2>7. Row(W, first, n + r, q + i)
            = [k \in 0 .. LeastOf(Width, r - a) - 1 |-> W[first + (n + a) + k]]
      BY <2>2, <2>4
    <2>8. \A k \in 0 .. LeastOf(Width, r - a) - 1 :
            W[(first + n) + a + k] = W[first + (n + a) + k]
      <3> DEFINE u == LeastOf(Width, r - a)
      <3>1. u \in Int
        BY <2>6
      <3> HIDE DEF u, a
      <3>2. \A k \in 0 .. u - 1 : k \in Int
        BY <3>1
      <3> QED
        BY <2>5, <3>2 DEF u
    <2> HIDE DEF a
    <2> QED
      BY <2>3, <2>7, <2>8
  <1> HIDE DEF f, g, h
  <1> DEFINE A == {Row(W, first, n + r, i) : i \in 1 .. q + b}
  <1>6. /\ \A i \in 1 .. q : Row(W, first, n + r, i) \in A
        /\ \A i \in 1 .. b : Row(W, first, n + r, q + i) \in A
        /\ \A i \in 1 .. q + b : Row(W, first, n + r, i) \in A
    <2>1. \A i \in 1 .. q : i \in 1 .. q + b
      BY <1>1
    <2>2. \A i \in 1 .. b : q + i \in 1 .. q + b
      BY <1>1
    <2> QED
      BY <2>1, <2>2
  <1> HIDE DEF A
  <1>7. Joins(h, f, q, g, b, A)
    <2>1. \A i \in 1 .. q : i \in 1 .. q + b
      BY <1>1
    <2>2. \A i \in 1 .. b : q + i \in 1 .. q + b
      BY <1>1
    <2>3. /\ \A i \in 1 .. q : f[i] = Row(W, first, n + r, i)
          /\ \A i \in 1 .. b : g[i] = Row(W, first, n + r, q + i)
          /\ \A i \in 1 .. q + b : h[i] = Row(W, first, n + r, i)
      BY <1>3, <1>4, <1>5
    <2>4. f \in [1 .. q -> A] /\ g \in [1 .. b -> A] /\ h \in [1 .. q + b -> A]
      BY <1>3, <1>6, <2>3
    <2> HIDE DEF f, g, h
    <2> QED
      BY <2>1, <2>2, <2>3, <2>4 DEF Joins
  <1>8. f \o g = h
    BY <1>1, <1>7, ConcatenationIs
  <1> QED
    BY <1>8 DEF f, g, h, Followed

(* An empty segment has no rows. *)
LEMMA NoRows ==
  ASSUME NEW W, NEW first PROVE Rows(W, first, 0) = <<>>
  <1>1. NumRows(0) = 0
    <2>1. 0 <= 0 * Width /\ 0 * Width < 0 + Width
      BY WidthPositive
    <2> QED
      BY <2>1, WidthPositive, CeilingIs DEF NumRows
  <1>2. Rows(W, first, 0) = [i \in 1 .. NumRows(0) |-> Row(W, first, 0, i)]
    BY Zenon DEF Rows, Row
  <1> DEFINE f == Rows(W, first, 0)
  <1>3. f \in [1 .. 0 -> {}] /\ DOMAIN f = 1 .. 0
    BY <1>1, <1>2
  <1> HIDE DEF f
  <1>4. f \in Seq({})
    BY <1>3, SeqDef
  <1>5. Len(f) = 0
    BY <1>3, <1>4, LenProperties
  <1>6. f = <<>>
    BY <1>4, <1>5, EmptySeq
  <1> QED
    BY <1>6 DEF f

(* RowsConcatenate for circuits of any sizes: padding a segment to whole    *)
(* rows lets its commitment be made by itself.                              *)
THEOREM RowsAlwaysConcatenate == Spec => []RowsConcatenate
  <1>1. ASSUME LayoutInv PROVE RowsConcatenate
    <2>1. SUFFICES ASSUME NEW i \in DOMAIN shapes
                   PROVE  Combined(shapes[i]) = Rows(Witness(shapes[i]), 0, NumVars(shapes[i]))
      BY DEF RowsConcatenate
    <2> DEFINE S == shapes[i]
               c == circuits[i]
               n == NumVars(S)
               W == Witness(S)
               q1 == DivCeil(c.shared, Width)
               q2 == DivCeil(c.precommitted, Width)
               r == n - Before(c)
    <2>2. c \in CircuitSizes
      BY <1>1, <2>1, SetupCircuits
    <2>3. Fits(c, n, S.num_cons) /\ LaidOut(S, c, n, S.num_cons)
      BY <1>1, <2>1 DEF LayoutInv
    <2> HIDE DEF S, c, n, W
    <2>4. /\ q1 \in Nat /\ q2 \in Nat
          /\ PadToWidth(Width, c.shared) = q1 * Width /\ PadToWidth(Width, c.precommitted) = q2 * Width
      BY <2>2, Sizes, WidthPositive, CeilingCovers DEF PadToWidth
    <2> HIDE DEF q1, q2
    <2>5. /\ q1 + q2 \in Nat /\ Before(c) = (q1 + q2) * Width
          /\ q1 * Width + q2 * Width = (q1 + q2) * Width
          /\ q1 * Width \in Nat /\ 0 + q1 * Width = q1 * Width
      BY <2>2, <2>4, Sizes, WidthPositive
    <2>6. n \in Nat /\ r \in Nat /\ Before(c) + r = n
      BY <2>2, <2>3, Sizes DEF Fits
    <2>7. /\ S.num_shared = q1 * Width /\ S.num_precommitted = q2 * Width /\ S.num_rest = r
          /\ S.num_shared_unpadded = c.shared /\ S.num_precommitted_unpadded = c.precommitted
          /\ ColMin(S) = (q1 + q2) * Width
      <3>1. ColMin(S) = Before(c)
        BY <2>2, <2>3, <2>6, Fields
      <3> QED
        BY <2>3, <2>4, <2>5, <3>1 DEF LaidOut
    <2> HIDE DEF r
    <2>8. (IF S.num_shared_unpadded > 0 THEN Rows(W, 0, S.num_shared) ELSE <<>>)
            = Rows(W, 0, q1 * Width)
      <3>1. CASE c.shared > 0
        BY <2>7, <3>1
      <3>2. CASE ~ (c.shared > 0)
        <4>1. c.shared = 0 /\ q1 * Width = 0
          BY <2>2, <2>4, <3>2, Sizes, SegmentPadding
        <4> QED
          BY <2>7, <4>1, NoRows
      <3> QED
        BY <3>1, <3>2
    <2>9. (IF S.num_precommitted_unpadded > 0 THEN Rows(W, S.num_shared, S.num_precommitted)
           ELSE <<>>)
            = Rows(W, q1 * Width, q2 * Width)
      <3>1. CASE c.precommitted > 0
        BY <2>7, <3>1
      <3>2. CASE ~ (c.precommitted > 0)
        <4>1. c.precommitted = 0 /\ q2 * Width = 0
          BY <2>2, <2>4, <3>2, Sizes, SegmentPadding
        <4> QED
          BY <2>7, <4>1, NoRows
      <3> QED
        BY <3>1, <3>2
    <2>10. Combined(S)
             = Rows(W, 0, q1 * Width) \o Rows(W, q1 * Width, q2 * Width)
                 \o Rows(W, (q1 + q2) * Width, r)
      <3>1. Combined(S)
              = (IF S.num_shared_unpadded > 0 THEN Rows(W, 0, S.num_shared) ELSE <<>>)
                  \o (IF S.num_precommitted_unpadded > 0
                        THEN Rows(W, S.num_shared, S.num_precommitted) ELSE <<>>)
                  \o Rows(W, ColMin(S), S.num_rest)
        BY Zenon DEF Combined, W
      <3> QED
        BY <2>7, <2>8, <2>9, <3>1
    <2>11. Rows(W, 0, q1 * Width) \o Rows(W, q1 * Width, q2 * Width)
             = Rows(W, 0, (q1 + q2) * Width)
      <3> DEFINE n1 == q1 * Width
                 n2 == q2 * Width
      <3>1. n1 \in Nat /\ n2 \in Nat /\ WholeRows(n1) /\ 0 + n1 = n1
        BY <2>4, WidthPositive DEF WholeRows
      <3> HIDE DEF n1, n2
      <3> DEFINE all == n1 + n2
                 start == 0
      <3>2. all = n1 + n2 /\ n1 = start + n1 /\ start \in Nat
        BY <3>1
      <3> HIDE DEF all, start
      <3>3. Followed(W, start, n1, n1, n2, all)
        BY <3>1, <3>2, RowsAppend
      <3> QED
        BY <2>5, <3>3 DEF n1, n2, all, start, Followed
    <2>12. Rows(W, 0, (q1 + q2) * Width) \o Rows(W, (q1 + q2) * Width, r) = Rows(W, 0, n)
      <3> DEFINE n1 == (q1 + q2) * Width
      <3>1. n1 \in Nat /\ WholeRows(n1) /\ 0 + n1 = n1 /\ n1 + r = n
        BY <2>5, <2>6, WidthPositive DEF WholeRows
      <3> HIDE DEF n1
      <3> DEFINE start == 0
      <3>2. n = n1 + r /\ n1 = start + n1 /\ start \in Nat
        BY <3>1
      <3> HIDE DEF start
      <3>3. Followed(W, start, n1, n1, r, n)
        BY <2>6, <3>1, <3>2, RowsAppend
      <3> QED
        BY <3>3 DEF n1, start, Followed
    <2> QED
      BY <2>10, <2>11, <2>12 DEF S, n, W
  <1> QED
    BY <1>1, AlwaysLaidOut, PTL

=============================================================================
