---------------------------- MODULE ShapeLayout ----------------------------
(***************************************************************************)
(* Setup's shapes: the constraints of one or two circuits are recorded     *)
(* with the columns they were allocated at, moved when the segments of the *)
(* witness are padded, moved again when a step and a core circuit are made *)
(* equal, and split for the products the provers cache.  A witness vector  *)
(* is built independently from the same sizes.                             *)
(*                                                                         *)
(* A circuit is its sizes; every constraint of it mentions every variable. *)
(* A matrix is the column of each variable and its numbers of rows and     *)
(* columns.  What stands at a place of a witness is the variable that was  *)
(* written there.                                                          *)
(***************************************************************************)
EXTENDS Dimensions, Sequences, FiniteSets

CONSTANTS
  Width,     \* DEFAULT_COMMITMENT_WIDTH, a power of two
  Setups     \* sequences of one or two circuits [cons, shared, precommitted, rest,
             \* public, challenges]

CircuitSizes ==
  [cons : Nat, shared : Nat, precommitted : Nat, rest : Nat, public : Nat, challenges : Nat]

ASSUME WidthAssumption == Width \in Nat \ {0} /\ NextPowerOfTwo(Width) = Width
ASSUME SetupsAssumption ==
  \A cs \in Setups : cs \in Seq(CircuitSizes) /\ Len(cs) \in {1, 2}

VARIABLES
  circuits,  \* what setup is called with
  shapes,    \* the shapes made so far, one per circuit
  filtered,  \* per shape, the columns of the entries that are not cached
  stage      \* "shape", "equalize", "precompute", "done"

vars == <<circuits, shapes, filtered, stage>>

None == [none |-> TRUE]

Aux(i) == <<"aux", i>>        \* Index::Aux
Input(i) == <<"input", i>>    \* Index::Input, 0 being the constant one
Pad == <<"pad", 0>>

NumAux(c) == c.shared + c.precommitted + c.rest
NumInputs(c) == 1 + c.public + c.challenges
Variables(c) == {Aux(i) : i \in 0 .. NumAux(c) - 1} \cup {Input(i) : i \in 0 .. NumInputs(c) - 1}

-----------------------------------------------------------------------------
(* Shapes *)

(* add_constraint: the inputs come after the auxiliary variables.           *)
Column(c, v) == IF v[1] = "input" THEN v[2] + NumAux(c) ELSE v[2]

(* r1cs_shape, before SplitR1CSShape::new. *)
Synthesized(c) ==
  [columns |-> [v \in Variables(c) |-> Column(c, v)],
   rows |-> c.cons, cols |-> NumAux(c) + NumInputs(c)]

(* Fault: the room the public values need is not provided. *)
FaultyRestPadded(c) ==
  LET before == PadToWidth(Width, c.shared) + PadToWidth(Width, c.precommitted)
  IN  NextPowerOfTwo(before + PadToWidth(Width, c.rest)) - before

(* The last segment grows until the variables are at least as many as the   *)
(* one, the public values and the challenges, then to a power of two.       *)
RestPadded(c) ==
  LET before == PadToWidth(Width, c.shared) + PadToWidth(Width, c.precommitted)
      total == GreatestOf(before + PadToWidth(Width, c.rest), NumInputs(c))
  IN  NextPowerOfTwo(total) - before

ApplyPad(M, c, padded) ==
  [columns |-> [v \in DOMAIN M.columns |->
     LET col == M.columns[v]
     IN  IF c.shared <= col /\ col < c.shared + c.precommitted
           THEN col + padded.shared - c.shared
         ELSE IF c.shared + c.precommitted <= col /\ col < NumAux(c)
           THEN col + padded.shared + padded.precommitted - c.shared - c.precommitted
         ELSE IF col >= NumAux(c) THEN col + padded.vars - NumAux(c)
         ELSE col],
   rows |-> padded.cons, cols |-> M.cols + padded.vars - NumAux(c)]

NumVars(S) == S.num_shared + S.num_precommitted + S.num_rest
NumExtra(S) == 1 + S.num_public + S.num_challenges

(* SplitR1CSShape::new *)
NewShape(c) ==
  LET shared == PadToWidth(Width, c.shared)
      precommitted == PadToWidth(Width, c.precommitted)
      rest == RestPadded(c)
      cons == NextPowerOfTwo(c.cons)
  IN  [num_cons |-> cons, num_cons_unpadded |-> c.cons,
       num_shared |-> shared, num_precommitted |-> precommitted, num_rest |-> rest,
       num_shared_unpadded |-> c.shared, num_precommitted_unpadded |-> c.precommitted,
       num_rest_unpadded |-> c.rest,
       num_public |-> c.public, num_challenges |-> c.challenges,
       M |-> ApplyPad(Synthesized(c), c,
                      [shared |-> shared, precommitted |-> precommitted, cons |-> cons,
                       vars |-> shared + precommitted + rest])]

MovePublicVars(M, vars_before, vars_after, cons_before, cons_after) ==
  [columns |-> [v \in DOMAIN M.columns |->
     IF M.columns[v] >= vars_before THEN M.columns[v] + vars_after - vars_before
     ELSE M.columns[v]],
   rows |-> M.rows + cons_after - cons_before,
   cols |-> M.cols + vars_after - vars_before]

(* Fault: the number of variables is read after it has grown. *)
FaultyEqualized(S, num_vars, num_cons) ==
  LET grown == [S EXCEPT !.num_rest = num_vars - (S.num_shared + S.num_precommitted)]
  IN  [grown EXCEPT
         !.num_cons = num_cons,
         !.M = MovePublicVars(S.M, NumVars(grown), num_vars, S.num_cons, num_cons)]

(* equalize, for one of the two shapes: only the last segment grows.        *)
Equalized(S, num_vars, num_cons) ==
  [S EXCEPT
     !.num_cons = num_cons,
     !.num_rest = num_vars - (S.num_shared + S.num_precommitted),
     !.M = MovePublicVars(S.M, NumVars(S), num_vars, S.num_cons, num_cons)]

(* Fault: the cached columns are counted without their padding. *)
FaultyBuildFiltered(S) ==
  {v \in DOMAIN S.M.columns :
     S.M.columns[v] >= S.num_shared_unpadded + S.num_precommitted_unpadded}

(* precompute: the columns that no cached product covers.                   *)
ColMin(S) == S.num_shared + S.num_precommitted
BuildFiltered(S) == {v \in DOMAIN S.M.columns : S.M.columns[v] >= ColMin(S)}

-----------------------------------------------------------------------------
(* What is built from a shape *)

(* shared_witness, precommitted_witness and the synthesis that follows: the *)
(* three parts of the auxiliary assignment go to the start of their segment.*)
Witness(S) ==
  [j \in 0 .. NumVars(S) - 1 |->
    IF j < S.num_shared_unpadded THEN Aux(j)
    ELSE IF S.num_shared <= j /\ j < S.num_shared + S.num_precommitted_unpadded
      THEN Aux(S.num_shared_unpadded + j - S.num_shared)
    ELSE IF ColMin(S) <= j /\ j < ColMin(S) + S.num_rest_unpadded
      THEN Aux(S.num_shared_unpadded + S.num_precommitted_unpadded + j - ColMin(S))
    ELSE Pad]

(* z = W, 1, public values, challenges *)
Assignment(S) ==
  [j \in 0 .. NumVars(S) + NumExtra(S) - 1 |->
    IF j < NumVars(S) THEN Witness(S)[j] ELSE Input(j - NumVars(S))]

(* The rows a vector is committed in, and the rows of the three segment     *)
(* commitments put together.                                                *)
NumRows(n) == DivCeil(n, Width)
Rows(W, first, n) ==
  [i \in 1 .. NumRows(n) |->
    [k \in 0 .. LeastOf(Width, n - (i - 1) * Width) - 1 |-> W[first + (i - 1) * Width + k]]]

Combined(S) ==
  LET W == Witness(S)
  IN  (IF S.num_shared_unpadded > 0 THEN Rows(W, 0, S.num_shared) ELSE <<>>)
      \o (IF S.num_precommitted_unpadded > 0
            THEN Rows(W, S.num_shared, S.num_precommitted) ELSE <<>>)
      \o Rows(W, ColMin(S), S.num_rest)

(* multiply_vec_precommitted and the incremental product: how often a       *)
(* variable of a row is counted in each.                                    *)
CachedAt(S, v) ==
  LET col == S.M.columns[v] IN IF col < ColMin(S) THEN <<Assignment(S)[col]>> ELSE <<>>
AddedAt(S, kept, v) ==
  IF v \in kept THEN <<Assignment(S)[S.M.columns[v]]>> ELSE <<>>

(* Fault: without rest variables only the unpadded lengths are added up. *)
FaultyLoEff(S) ==
  IF S.num_rest_unpadded > 0 THEN ColMin(S) + S.num_rest_unpadded
  ELSE S.num_shared_unpadded + S.num_precommitted_unpadded

(* bind_and_prepare_poly_ABC_full: how far each half is not zero.           *)
LoEff(S) ==
  IF S.num_rest_unpadded > 0 THEN ColMin(S) + S.num_rest_unpadded
  ELSE IF S.num_precommitted_unpadded > 0 THEN S.num_shared + S.num_precommitted_unpadded
  ELSE S.num_shared_unpadded
HiEff(S) == NumExtra(S)

-----------------------------------------------------------------------------
Sides == DOMAIN circuits
Shapes == {shapes[i] : i \in Sides}

Init ==
  /\ circuits \in Setups
  /\ shapes = <<>>
  /\ filtered = <<>>
  /\ stage = "shape"

MakeShape ==
  /\ stage = "shape"
  /\ shapes' = Append(shapes, NewShape(circuits[Len(shapes) + 1]))
  /\ stage' = IF Len(shapes') < Len(circuits) THEN "shape"
              ELSE IF Len(circuits) = 2 THEN "equalize" ELSE "precompute"
  /\ UNCHANGED <<circuits, filtered>>

Equalize ==
  /\ stage = "equalize"
  /\ LET num_vars == GreatestOf(NumVars(shapes[1]), NumVars(shapes[2]))
         num_cons == GreatestOf(shapes[1].num_cons, shapes[2].num_cons)
     IN  shapes' = [i \in Sides |-> Equalized(shapes[i], num_vars, num_cons)]
  /\ stage' = "precompute"
  /\ UNCHANGED <<circuits, filtered>>

Precompute ==
  /\ stage = "precompute"
  /\ filtered' = [i \in Sides |-> BuildFiltered(shapes[i])]
  /\ stage' = "done"
  /\ UNCHANGED <<circuits, shapes>>

Next == MakeShape \/ Equalize \/ Precompute

Spec == Init /\ [][Next]_vars

-----------------------------------------------------------------------------
(* DimensionsAgree: the numbers of variables and of constraints are powers  *)
(* of two, the matrices have as many rows and columns as the shape and its  *)
(* vectors, the variables leave room for the one, the public values and the *)
(* challenges, and a step and a core shape have equal dimensions once they  *)
(* are equalized.                                                           *)
DimensionsAgree ==
  /\ \A S \in {shapes[i] : i \in DOMAIN shapes} :
       /\ NextPowerOfTwo(NumVars(S)) = NumVars(S)
       /\ NextPowerOfTwo(S.num_cons) = S.num_cons
       /\ S.M.rows = S.num_cons
       /\ S.M.cols = NumVars(S) + NumExtra(S)
       /\ NumVars(S) >= NumExtra(S)
  /\ stage \in {"precompute", "done"} =>
       \A S \in Shapes, T \in Shapes : NumVars(S) = NumVars(T) /\ S.num_cons = T.num_cons

(* ColumnsReadTheirVariable: after every move, the column of a variable is  *)
(* where the witness built from the shape puts that variable.               *)
ColumnsReadTheirVariable ==
  \A i \in DOMAIN shapes :
    LET z == Assignment(shapes[i])
    IN  \A v \in Variables(circuits[i]) :
          /\ shapes[i].M.columns[v] \in DOMAIN z
          /\ z[shapes[i].M.columns[v]] = v

(* RowsConcatenate: the rows of the commitments to the segments, one after  *)
(* the other, are the rows of the whole witness, so that the combined       *)
(* commitment is a commitment to it.                                        *)
RowsConcatenate ==
  \A i \in DOMAIN shapes :
    Combined(shapes[i]) = Rows(Witness(shapes[i]), 0, NumVars(shapes[i]))

(* NothingBeyondThePrefixes: no constraint has an entry past the lengths    *)
(* the inner sum-check takes for the non-zero part of each half.            *)
NothingBeyondThePrefixes ==
  \A S \in {shapes[i] : i \in DOMAIN shapes} : \A v \in DOMAIN S.M.columns :
    LET col == S.M.columns[v]
    IN  IF col < NumVars(S) THEN col < LoEff(S) ELSE col - NumVars(S) < HiEff(S)

(* IncrementalIsFull: at the end of setup, the cached product and the part  *)
(* added to it count every variable of a constraint once.                   *)
IncrementalIsFull ==
  stage = "done" =>
    \A i \in Sides : \A v \in DOMAIN shapes[i].M.columns :
      CachedAt(shapes[i], v) \o AddedAt(shapes[i], filtered[i], v) = <<v>>

(* PublicPartHasRoom: the padding makes the variables as many as the one,   *)
(* the public values and the challenges need (r1cs/mod.rs: "We need to make *)
(* sure num_vars_padded >= num_public + num_challenges + 1"), and the       *)
(* evaluation of their polynomial over the coordinates of the variables is  *)
(* then defined.                                                            *)
PublicPartHasRoom ==
  stage = "done" => \A S \in Shapes : SparseFits(Log2(NumVars(S)), NumExtra(S))

(* PowersAreAnOuterProduct: split_evals ("Computes two vectors such that    *)
(* their outer product equals the output of the `evals` function") is       *)
(* defined for the number of constraints of equalized shapes.               *)
PowersAreAnOuterProduct ==
  stage = "done" /\ Len(circuits) = 2 =>
    \A S \in Shapes : SplitEvalsFit(TensorRight(S.num_cons))

=============================================================================
