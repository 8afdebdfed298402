-------------------------------- MODULE R1CS --------------------------------
(***************************************************************************)
(* Vectors of field elements as witnesses are made of them: padded, joined *)
(* and folded; and the relation of r1cs/mod.rs, in its relaxed form.       *)
(***************************************************************************)
EXTENDS Polynomials

SeqExt == INSTANCE SequencesExt

At(v, i) == IF i < Size(v) THEN v[i] ELSE 0
Padded(v, n) == [i \in 0 .. n - 1 |-> At(v, i)]

AsSeq(v) == [i \in 1 .. Size(v) |-> v[i - 1]]
AsVec(s) == [i \in 0 .. Len(s) - 1 |-> s[i + 1]]

(* combine_commitments, combine_blinds, and the segments of W *)
Joined(parts) == AsVec(SeqExt!FlattenSeq([i \in DOMAIN parts |-> AsSeq(parts[i])]))

(* The sum of vectors, or of their blinds, with weights. *)
fold_vectors(vectors, weights) ==
  [j \in DOMAIN vectors[1] |->
     SumOf([i \in 0 .. Len(vectors) - 1 |-> Times(weights[i + 1], vectors[i + 1][j])])]
fold_blinds(blinds, weights) == fold_vectors(blinds, weights)

-----------------------------------------------------------------------------
(* The relaxed relation Az * Bz = u * Cz + E, with z = (W, u, X). *)

Join(W, u, X) ==
  LET n == Size(W)
  IN  [i \in 0 .. n + Size(X) |-> IF i < n THEN W[i] ELSE IF i = n THEN u ELSE X[i - n - 1]]

Multiply(M, z) ==
  [i \in DOMAIN M |-> SumOf([j \in DOMAIN z |-> Times(M[i][j], z[j])])]

(* Az * Bz - u * Cz in every row. *)
Excess(shape, z, u) ==
  LET az == Multiply(shape.A, z)  bz == Multiply(shape.B, z)  cz == Multiply(shape.C, z)
  IN  [i \in DOMAIN az |-> Minus(Times(az[i], bz[i]), Times(u, cz[i]))]

(* The constraints of a shape are padded to a power of two, and the         *)
(* assignment fits in twice the padded variables, whose table the verifier  *)
(* reads it with.                                                           *)
IsShape(shape) ==
  LET matrices == [0 .. shape.num_cons - 1 -> Vectors(shape.num_vars + 1 + shape.num_io)]
  IN  /\ shape.num_cons \in Nat /\ shape.num_vars \in Nat /\ shape.num_io \in Nat
      /\ NextPowerOfTwo(shape.num_cons) = shape.num_cons
      /\ shape.num_vars > 0
      /\ shape.num_vars + 1 + shape.num_io <= 2 * NextPowerOfTwo(shape.num_vars)
      /\ shape.A \in matrices /\ shape.B \in matrices /\ shape.C \in matrices

=============================================================================
