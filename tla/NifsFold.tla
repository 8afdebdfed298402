------------------------------ MODULE NifsFold ------------------------------
(***************************************************************************)
(* VegaMcNIFS::prove of vega_mc_zkp.rs: the loop that folds the layers     *)
(* Az, Bz, Cz of a padded batch in place while it proves.  Each round is a *)
(* parallel iteration over pairs or over chunks of four layers, a barrier, *)
(* a compaction of the folded layers to the front, and the exchange of the *)
(* round's polynomial for a challenge.  A round folds with the previous    *)
(* challenge before it proves, except round 1 of the small-value path,     *)
(* which proves from the unfolded layers and folds them afterwards.        *)
(*                                                                         *)
(* A layer is a set of terms, as in FoldSpec; {} is the empty vector that  *)
(* std::mem::take leaves.  A and B undergo the same operations and are one *)
(* variable.  On the small-value path (has_i64) C is never folded: its     *)
(* values come from c_vals and prefix_coeffs.                              *)
(***************************************************************************)
EXTENDS Naturals, Sequences, Dimensions

CONSTANT Sizes     \* possible numbers of instances; setup rejects fewer than two

ASSUME SizesAssumption == Sizes \subseteq Nat \ {0, 1}

VARIABLES
  n,         \* Us.len()
  has_i64,   \* whether prep_prove cached small-value layers
  ab, c,     \* A_layers and B_layers, C_layers
  prefix,    \* prefix_coeffs: bits of each weight
  t,         \* the round being proved
  m,         \* layers in use
  stage,     \* the part of the round
  todo,      \* pairs or chunks whose worker has not finished
  acc,       \* contributions of the finished workers
  polys,     \* the polynomials sent
  out        \* the returned value

vars == <<n, has_i64, ab, c, prefix, t, m, stage, todo, acc, polys, out>>

Promise == INSTANCE FoldSpec WITH Sizes <- Sizes, n <- n, polys <- polys, out <- out

ell_b == Promise!NumRounds
n_padded == PowerOfTwo[ell_b]
Bits(k, len) == [s \in 1 .. len |-> (k \div PowerOfTwo[s - 1]) % 2]

(* The layers of the padded batch, in the field and as machine integers,    *)
(* which are zeroed at the positions that are large in any instance.        *)
FieldEntry(i) == {<<"small", <<>>, i>>, <<"large", <<>>, i>>}
Large(layer) == {x \in layer : x[1] = "large"}
Small(layer) == {x \in layer : x[1] = "small"}

PaddedIndex(b) == IF b < n THEN b ELSE 0
FieldLayers == [b \in 0 .. n_padded - 1 |-> FieldEntry(PaddedIndex(b))]
I64Layer(b) == Small(FieldEntry(PaddedIndex(b)))

(* c_vals: from the small layer, corrected at the large positions. *)
CVal(b) == I64Layer(b) \cup Large(FieldLayers[b])

-----------------------------------------------------------------------------
(* Folding in place *)

Weighted(layer, bits) == {<<x[1], x[2] \o bits, x[3]>> : x \in layer}

(* l += r * (h - l) over the zip of two layers. *)
Fold(lo, hi) ==
  IF lo = {} \/ hi = {} THEN lo ELSE Weighted(lo, <<0>>) \cup Weighted(hi, <<1>>)

FoldChunk(layers, j) ==
  [layers EXCEPT ![4 * j] = Fold(@, layers[4 * j + 1]),
                 ![4 * j + 2] = Fold(@, layers[4 * j + 3])]

Swap(layers, i, j) == [layers EXCEPT ![i] = layers[j], ![j] = layers[i]]

(* Fault: the second folded layer of a chunk is looked for next to the first. *)
FaultyCompact(layers, pairs) ==
  LET after[j \in 0 .. pairs] ==
        IF j = 0 THEN layers
        ELSE Swap(Swap(after[j - 1], 2 * (j - 1), 4 * (j - 1)),
                  2 * (j - 1) + 1, 4 * (j - 1) + 1)
  IN  after[pairs]

(* compact_folded_layers: from 4j and 4j+2 to 2j and 2j+1, one after another. *)
Compact(layers, pairs) ==
  LET after[j \in 0 .. pairs] ==
        IF j = 0 THEN layers
        ELSE Swap(Swap(after[j - 1], 2 * (j - 1), 4 * (j - 1)),
                  2 * (j - 1) + 1, 4 * (j - 1) + 2)
  IN  after[pairs]

(* fold_ab_pair!(2i, 2i + 1, i) for all i from first: the even layer is     *)
(* taken, which leaves {} in its place, and put back at i.                  *)
FoldPairs(layers, first, pairs) ==
  LET fold(l, i) == LET folded == Fold(l[2 * i], l[2 * i + 1])
                    IN  [[l EXCEPT ![2 * i] = {}] EXCEPT ![i] = folded]
      after[i \in first .. pairs] ==
        IF i = first THEN layers ELSE fold(after[i - 1], i - 1)
  IN  after[pairs]

(* The parallel form of the last fold: the pairs in place, then compacted. *)
FoldPairsInPlace(layers, pairs) ==
  LET folded == [i \in DOMAIN layers |->
                   IF i % 2 = 0 /\ i < 2 * pairs THEN Fold(layers[i], layers[i + 1])
                   ELSE layers[i]]
      after[i \in 0 .. pairs] ==
        IF i = 0 THEN folded ELSE Swap(after[i - 1], i - 1, 2 * (i - 1))
  IN  after[pairs]

(* Fault: the layers folded away stay in the vector. *)
FaultyTruncate(layers, len) == layers

Truncate(layers, len) == [i \in 0 .. len - 1 |-> layers[i]]

-----------------------------------------------------------------------------
(* Proving *)

(* Fault: the bits of the pair are weighed from the round's own rho on. *)
FaultySuffixWeight(round, j) == Bits(j, ell_b - round)

(* suffix_weight_full: pair j, bit by bit, against rhos[round + 1 ..]. *)
SuffixWeight(round, j) == Bits(j, ell_b - round - 1)

Contribution(j, lo, hi, cc) ==
  [weight |-> SuffixWeight(t, j), lo |-> lo, hi |-> hi, c |-> cc]

(* c_val_lo: the prefix-weighted values of the instances that the lower     *)
(* layer of pair j has folded.                                              *)
CValLo(j) ==
  UNION {Weighted(CVal(2 * j * Len(prefix) + v - 1), prefix[v]) : v \in 1 .. Len(prefix)}

(* Fault: the two copies of a coefficient are kept side by side. *)
FaultyExtended(coeffs) ==
  [v \in 1 .. 2 * Len(coeffs) |-> Append(coeffs[(v + 1) \div 2], (v + 1) % 2)]

(* prefix_coeffs after a round: old * (1 - r), then old * r. *)
Extended(coeffs) ==
  [v \in 1 .. Len(coeffs) |-> Append(coeffs[v], 0)]
    \o [v \in 1 .. Len(coeffs) |-> Append(coeffs[v], 1)]

(* Round 0: pairs of unfolded layers.  The small-value form reads the       *)
(* machine integers, and the field layers at the large positions only.      *)
ProvePair(j) ==
  LET read(i) == IF has_i64 THEN I64Layer(i) \cup Large(ab[i]) ELSE ab[i]
  IN  /\ stage = "prove_pairs"
      /\ j \in todo
      /\ acc' = acc \cup {Contribution(j, read(2 * j), read(2 * j + 1), {})}
      /\ todo' = todo \ {j}
      /\ UNCHANGED <<n, has_i64, ab, c, prefix, t, m, stage, polys, out>>

(* Round 1 with small values: the folded values are expanded over the four  *)
(* unfolded layers of the chunk (prove_helper_ab_cross).                    *)
ProveCross(j) ==
  LET read(i) == I64Layer(i) \cup Large(ab[i])
  IN  /\ stage = "prove_cross"
      /\ j \in todo
      /\ acc' = acc \cup {Contribution(j, Fold(read(4 * j), read(4 * j + 1)),
                                       Fold(read(4 * j + 2), read(4 * j + 3)), CValLo(j))}
      /\ todo' = todo \ {j}
      /\ UNCHANGED <<n, has_i64, ab, c, prefix, t, m, stage, polys, out>>

Chunks(len) == 0 .. len \div 4 - 1

CrossBarrier ==
  /\ stage = "prove_cross"
  /\ todo = {}
  /\ stage' = "fold_chunks"
  /\ todo' = Chunks(m)
  /\ UNCHANGED <<n, has_i64, ab, c, prefix, t, m, acc, polys, out>>

(* par_fold_ab_chunks *)
FoldChunkOnly(j) ==
  /\ stage = "fold_chunks"
  /\ j \in todo
  /\ ab' = FoldChunk(ab, j)
  /\ todo' = todo \ {j}
  /\ UNCHANGED <<n, has_i64, c, prefix, t, m, stage, acc, polys, out>>

(* The other rounds: a worker folds its chunk and proves from the result. *)
FoldAndProveChunk(j) ==
  /\ stage = "fold_and_prove"
  /\ j \in todo
  /\ ab' = FoldChunk(ab, j)
  /\ c' = IF has_i64 THEN c ELSE FoldChunk(c, j)
  /\ acc' = acc \cup {Contribution(j, ab'[4 * j], ab'[4 * j + 2],
                                   IF has_i64 THEN CValLo(j) ELSE c'[4 * j])}
  /\ todo' = todo \ {j}
  /\ UNCHANGED <<n, has_i64, prefix, t, m, stage, polys, out>>

-----------------------------------------------------------------------------
(* The end of a round *)

(* What comes after the challenge of round t, with len layers in use. *)
Continue(len) ==
  /\ t' = t + 1
  /\ m' = len
  /\ acc' = {}
  /\ stage' = IF t + 1 = ell_b THEN "finish"
              ELSE IF has_i64 /\ t = 0 THEN "prove_cross" ELSE "fold_and_prove"
  /\ todo' = IF t + 1 = ell_b THEN {} ELSE Chunks(len)

(* Round 0 folds at once when it is the only round. *)
FinishRound0 ==
  LET pairs == m \div 2
      fold(layers) == Truncate(FoldPairs(layers, 0, pairs), pairs)
  IN  /\ stage = "prove_pairs"
      /\ todo = {}
      /\ polys' = Append(polys, acc)
      /\ IF ell_b = 1
           THEN /\ ab' = fold(ab)
                /\ c' = IF has_i64 THEN c ELSE fold(c)
                /\ Continue(pairs)
           ELSE UNCHANGED <<ab, c>> /\ Continue(m)
      /\ prefix' = IF has_i64 THEN <<<<0>>, <<1>>>> ELSE <<>>
      /\ UNCHANGED <<n, has_i64, out>>

(* Compaction, the fold of what is left of an odd number of pairs, and the  *)
(* challenge.                                                               *)
FinishRound ==
  LET fold_pairs == m \div 2
      prove_pairs == fold_pairs \div 2
      shrink(layers) ==
        Truncate(FoldPairs(Compact(layers, prove_pairs), 2 * prove_pairs, fold_pairs),
                 fold_pairs)
  IN  /\ stage \in {"fold_chunks", "fold_and_prove"}
      /\ todo = {}
      /\ ab' = shrink(ab)
      /\ c' = IF has_i64 THEN c ELSE shrink(c)
      /\ polys' = Append(polys, acc)
      /\ prefix' = IF has_i64 THEN Extended(prefix) ELSE <<>>
      /\ Continue(fold_pairs)
      /\ UNCHANGED <<n, has_i64, out>>

(* weights_from_r applied to vectors that were never folded. *)
WeightedSum(layers) == UNION {Weighted(layers[b], Bits(b, ell_b)) : b \in DOMAIN layers}

(* The last fold, C from the originals on the small-value path, and the     *)
(* witnesses (the verifier folds the instances with the same weights).      *)
Finish ==
  LET pairs == m \div 2
      folded == IF ell_b = 1 THEN ab
                ELSE IF has_i64 THEN Truncate(FoldPairsInPlace(ab, pairs), pairs)
                ELSE Truncate(FoldPairs(ab, 0, pairs), pairs)
      folded_c == IF has_i64
                    THEN [k \in {0} |-> WeightedSum([b \in DOMAIN c |->
                                                       I64Layer(b) \cup Large(c[b])])]
                    ELSE IF ell_b = 1 THEN c ELSE Truncate(FoldPairs(c, 0, pairs), pairs)
  IN  /\ stage = "finish"
      /\ ab' = folded
      /\ c' = folded_c
      /\ out' = Promise!Done(folded[0], folded_c[0], WeightedSum(FieldLayers))
      /\ stage' = "end"
      /\ UNCHANGED <<n, has_i64, prefix, t, m, todo, acc, polys>>

(* rho_t or acc_eq has no inverse, or process_round fails. *)
Fails ==
  /\ stage \in {"prove_pairs", "fold_chunks", "fold_and_prove", "finish"}
  /\ todo = {}
  /\ out' = Promise!Failed
  /\ stage' = "end"
  /\ UNCHANGED <<n, has_i64, ab, c, prefix, t, m, todo, acc, polys>>

Init ==
  /\ n \in Sizes
  /\ has_i64 \in BOOLEAN
  /\ ab = FieldLayers
  /\ c = FieldLayers
  /\ prefix = <<>>
  /\ t = 0
  /\ m = n_padded
  /\ stage = "prove_pairs"
  /\ todo = 0 .. n_padded \div 2 - 1
  /\ acc = {}
  /\ polys = <<>>
  /\ out = Promise!Running

WorkerStep ==
  \/ \E j \in todo : ProvePair(j)
  \/ \E j \in todo : ProveCross(j)
  \/ \E j \in todo : FoldChunkOnly(j)
  \/ \E j \in todo : FoldAndProveChunk(j)

LoopStep == FinishRound0 \/ CrossBarrier \/ FinishRound \/ Finish

Next == WorkerStep \/ LoopStep \/ Fails

(* rayon runs every item of a parallel iteration; the thread that waits for *)
(* them goes on when they are done.                                         *)
Spec == Init /\ [][Next]_vars /\ WF_vars(WorkerStep) /\ WF_vars(LoopStep)

-----------------------------------------------------------------------------
(* Properties *)

(* The bookkeeping of the loop: the number of layers in memory is the       *)
(* number in use, and halves exactly when a challenge has been folded.      *)
TypeOK ==
  /\ n \in Sizes
  /\ has_i64 \in BOOLEAN
  /\ t \in 0 .. ell_b
  /\ stage \in {"prove_pairs", "prove_cross", "fold_chunks", "fold_and_prove", "finish", "end"}
  /\ todo \subseteq 0 .. m - 1
  /\ Len(polys) = t
  /\ stage # "end" =>
       /\ m = IF t = 0 \/ ell_b = 1 THEN PowerOfTwo[ell_b - t] ELSE PowerOfTwo[ell_b - t + 1]
       /\ DOMAIN ab = 0 .. m - 1
       /\ DOMAIN c = IF has_i64 THEN 0 .. n_padded - 1 ELSE 0 .. m - 1

(* However the workers of a round interleave, the layers that a worker has  *)
(* still to read are those the rounds before left there: layer i is the     *)
(* partial evaluation at the challenges folded so far and the bits of i.    *)
PendingLayersAreIntact ==
  LET bound == IF t = 0 THEN 0 ELSE t - 1
      expected(i) == Promise!PartialEvaluation(bound, Bits(i, ell_b - bound))
      per_worker == IF stage = "prove_pairs" THEN 2 ELSE 4
      pending == IF stage = "finish" /\ ell_b > 1 THEN {0, 1}
                 ELSE {i \in 0 .. m - 1 : i \div per_worker \in todo}
  IN  \A i \in pending :
        ab[i] = expected(i) /\ (~has_i64 => c[i] = expected(i))

(* C is not folded on the small-value path; the coefficient that multiplies *)
(* the v-th value of a group is the weight by which the folds of A and B    *)
(* multiplied the v-th layer of that group.                                 *)
PrefixMatchesFolds ==
  has_i64 /\ t > 0 =>
    /\ Len(prefix) = PowerOfTwo[t]
    /\ \A v \in 1 .. Len(prefix) : prefix[v] = Bits(v - 1, t)

(* The loop sends the polynomials of the sum-check over the padded batch,   *)
(* every instance counted once in each, hands on Az, Bz, Cz and W as one    *)
(* and the same combination of the instances, and always comes to an end:   *)
(* no barrier waits for a worker that has nothing to do.                    *)
RefinesFoldSpec == Promise!Spec

=============================================================================
