------------------------------- MODULE Hyrax -------------------------------
(***************************************************************************)
(* The commitments of provider/pcs/hyrax_pc.rs and the openings of         *)
(* hyrax_pc.rs and ipa.rs.  A vector is committed row by row, Width        *)
(* entries to a row.  A commitment to a row is the pair of the row and its *)
(* blind, added and scaled entry by entry: it is binding and linear, which *)
(* is all the protocols use of the group.                                  *)
(***************************************************************************)
EXTENDS R1CS

CONSTANT Width    \* num_cols of the commitment keys

ASSUME WidthAssumption == Width \in Nat \ {0} /\ NextPowerOfTwo(Width) = Width

NumRows(n) == DivCeil(n, Width)

Row(v, b) == [v |-> Padded(v, Width), b |-> b]
Commit(v, r) ==
  [i \in 0 .. NumRows(Size(v)) - 1 |->
     Row([j \in 0 .. Width - 1 |-> At(v, i * Width + j)], r[i])]

(* A linear combination of a sequence of rows. *)
Combination(rows, weights) ==
  [v |-> [j \in 0 .. Width - 1 |->
           SumOf([i \in 0 .. Len(rows) - 1 |-> Times(weights[i + 1], rows[i + 1].v[j])])],
   b |-> SumOf([i \in 0 .. Len(rows) - 1 |-> Times(weights[i + 1], rows[i + 1].b)])]
-----------------------------------------------------------------------------
(* Folding: sequences of commitments and of weights. *)

SameRows(comms) == \A i, j \in DOMAIN comms : Size(comms[i]) = Size(comms[j])

fold_commitments(comms, weights) ==
  [row \in DOMAIN comms[1] |->
     Combination([i \in DOMAIN comms |-> comms[i][row]], weights)]

(* Fault: the rows without data are left out of the fold. *)
FaultyPartial(comms, weights, num_data_rows, folded_blind) ==
  [row \in DOMAIN comms[1] |->
     IF row < num_data_rows THEN fold_commitments(comms, weights)[row]
     ELSE Row([j \in {} |-> 0], 0)]

(* Rows from num_data_rows on hold no data: they are the folded blind. *)
fold_commitments_partial(comms, weights, num_data_rows, folded_blind) ==
  [row \in DOMAIN comms[1] |->
     IF row < num_data_rows THEN fold_commitments(comms, weights)[row]
     ELSE Row([j \in {} |-> 0], folded_blind[row])]

-----------------------------------------------------------------------------
(* Openings at a point: its first coordinates combine the rows, the others  *)
(* the columns.                                                             *)

PointRows(point) == NumRows(PowerOfTwo[Len(point)])
RowWeights(point) == EvalsFromPoints(SubSeq(point, 1, Log2(PointRows(point))))
ColumnWeights(point) ==
  EvalsFromPoints(SubSeq(point, Log2(PointRows(point)) + 1, Len(point)))

(* The vector and the blind under the combined row. *)
BoundRow(poly, blind, point) ==
  LET L == RowWeights(point)
      n == Size(ColumnWeights(point))
  IN  [v |-> [j \in 0 .. n - 1 |->
               SumOf([i \in 0 .. Size(L) - 1 |-> Times(L[i], At(poly, i * n + j))])],
       blind |-> SumOf([i \in 0 .. LeastOf(Size(L), Size(blind)) - 1 |->
                         Times(L[i], blind[i])])]

prove_direct(poly, blind, point) ==
  LET row == BoundRow(poly, blind, point) IN [row EXCEPT !.v = Padded(@, Width)]

(* A folded witness may have fewer rows than the point has: the others are  *)
(* zero.                                                                    *)
DirectOpens(comm, opening, point) ==
  /\ Size(opening.v) = Width
  /\ Size(comm) \in 1 .. PointRows(point)
  /\ Combination(AsSeq(comm), AsSeq(RowWeights(point))) = Row(opening.v, opening.blind)

DirectEvaluation(opening, point) ==
  LET R == ColumnWeights(point)
  IN  SumOf([j \in 0 .. LeastOf(Size(R), Width) - 1 |-> Times(opening.v[j], R[j])])

(* The commitment to the combined row, for the verifier. *)
BoundCommitment(comm, point) == Combination(AsSeq(comm), AsSeq(RowWeights(point)))

InnerProduct(a, b) == SumOf([j \in 0 .. Size(b) - 1 |-> Times(At(a, j), b[j])])
Scalar(x) == [i \in {0} |-> x]

(* InnerProductArgumentLinear: masks d with their blinds, the first         *)
(* messages, the answer to the challenge r and the two checks.              *)
IpaMessages(mask, b_vec) ==
  [delta |-> Row(mask.d, mask.r_delta),
   beta |-> Row(Scalar(InnerProduct(mask.d, b_vec)), mask.r_beta)]
IpaAnswer(mask, row, blind_c, r) ==
  [z_vec |-> [j \in DOMAIN row.v |-> Plus(Times(r, row.v[j]), mask.d[j])],
   z_delta |-> Plus(Times(r, row.blind), mask.r_delta),
   z_beta |-> Plus(Times(r, blind_c), mask.r_beta)]
IpaHolds(comm_a, comm_c, b_vec, messages, answer, r) ==
  LET scaled(row, other) == Combination(<<row, other>>, <<r, 1>>)
  IN  /\ Size(answer.z_vec) = Size(b_vec)
      /\ scaled(comm_a, messages.delta) = Row(answer.z_vec, answer.z_delta)
      /\ scaled(comm_c, messages.beta)
           = Row(Scalar(InnerProduct(answer.z_vec, b_vec)), answer.z_beta)

=============================================================================
