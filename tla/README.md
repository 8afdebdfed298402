# Verification of vega-prover

TLA+ models, TLC runs and TLAPS proofs for the zero-knowledge provers in `src/`
of this repository. They are about the control of the program: which state the
provers keep and reuse, in which order and at which index they commit, draw
challenges and fold, how vectors are laid out, padded and bound, and what the
verifier relies on. Field values are symbolic where only their origin matters,
and the integers below a small prime where the algebra does; a curve is what a
commitment promises: binding and linear.

## The system

| Part | Code | State | Operations |
|---|---|---|---|
| Multi-circuit prover (MC) | `vega_mc_zkp.rs` | keys; prepared state `VegaMcPrepZkSNARK` (one `PrecommittedState` per circuit, cached products, cached machine-integer layers, their public values) | `setup`, `prep_prove`, `prove`, `verify` |
| Single-circuit prover (SC) | `vega_sc_zkp.rs`, `vega_sc.rs` | prepared state with a cached rest commitment and scratch buffers | the same four |
| Witness building | `bellpepper/r1cs.rs` | assignment, witness vector, commitments and blinds of the shared, precommitted and rest segments | `shared_witness`, `precommitted_witness`, `r1cs_instance_and_witness`, two rerandomizations |
| MC folding (NIFS) | `vega_mc_zkp.rs` 71-1268 | layers Az, Bz, Cz of the batch, prefix coefficients, current claim | one loop, folded in place by parallel workers |
| Multi-round witness | `bellpepper/r1cs.rs` 606-847 | assignment, padded witness vector, variables, challenges and commitments per round | `initialize`, `process_round`, `finalize` |
| Verifier circuits | `zk.rs` | fields the driver fills in before each round | `rounds`, `num_challenges` |
| Shapes and instances | `r1cs/mod.rs`, `r1cs/sparse.rs`, `r1cs/folds.rs` | padded matrices, segment sizes | `new`, `equalize`, `validate`, `to_regular_instance`, folds |
| Sum-check provers | `sumcheck.rs` | polynomials bound variable by variable | `prove_*_zk` and plain variants |
| Transcript | `provider/keccak.rs` | round counter, state, absorbed bytes | `absorb`, `squeeze` |
| Commitments | `provider/pcs/hyrax_pc.rs`, `ipa.rs`, `provider/msm.rs` | keys | `commit`, `rerandomize_commitment`, `combine`, `prove`, `verify` |
| Relaxed folding and Spartan | `nifs.rs`, `spartan_relaxed.rs` | none between calls | `prove`, `verify` |
| Small-value arithmetic | `big_num/` | accumulators | multiply-accumulate, reduction |

**How the parts interact.** A client calls `setup` once, then `prep_prove`, and
then `prove` any number of times. `prove` takes the prepared state by value and
returns it with the proof, so an error loses it. Inside, it rerandomizes the
core and, in parallel, the steps; compares the circuits with the caches; builds
one instance and witness per circuit, in parallel; and hands these to the
argument. The argument (folding, outer and inner sum-check) never sends its
messages in the clear. It puts each into the verifier circuit and calls
`process_round`, which synthesizes one round of that circuit, commits to its
variables, absorbs the commitment into the transcript and draws the challenges
of the next step. The finished multi-round instance is folded with a random
one, proved by relaxed Spartan, and the evaluations of the witnesses are opened
by Hyrax. `verify` replays the transcripts, slices the challenges out of the
public input of the multi-round instance and recomputes its public values.

**What is hard.** There are no messages between machines, no crashes to recover
from and no timeouts. The difficulty is in

- the reuse of the prepared state by one prove after another, on batches that
  need not be the one it was prepared for, with leftovers of the last prove in it;
- parallel workers that rerandomize, build, fold and prove in place;
- bookkeeping by index: layers compacted in place, rounds numbered in three
  places, offsets with and without padding, challenges used one round late and
  read again three protocols later;
- the order of commitments and challenges;
- short cuts that hold for some inputs only: products and commitments updated
  by a difference, prefixes known to be non-zero, evaluations derived from the
  claim by a division, rows rebuilt from a blind;
- lengths at their limits: rows, powers of two, one variable, one row;
- errors in the middle of a prove.

**What makes each part correct.**

- *Session*: stored commitments always open, the shared commitment is common to
  the batch, blinds are never used in two proofs, caches are current, honest
  proofs verify and accepted proofs are true.
- *Folding*: each round sends the sum-check polynomial of the padded batch, and
  Az, Bz, Cz and W end as the same combination of the instances.
- *Multi-round witness and verifier circuit*: every enforced equation holds for
  the honest prover, every challenge is bound to all commitments before it, the
  padded witness satisfies the padded shape, and what is finalized verifies.
- *Shapes*: padding and equalizing move every column to where the witness has
  it, and the rows of the segments are the rows of the whole.
- *SC session*: the cached rest commitment and scratch buffers never leak one
  prove into the next.
- *Sum-check provers*: every short cut sends the polynomial the definition asks
  for, and the last claim is the value of the summand.
- *Fold and opening*: what the verifier folds from commitments opens to what
  the prover folds from witnesses, both sides ask the same challenges, and each
  commitment that is opened was absorbed before the challenge it is opened at.

## Modules

| Module | Models | EXTENDS / INSTANCE |
|---|---|---|
| `HidingCommitment` | Hyrax commitments: value plus formal sum of blinds | |
| `ProvingService` | what both provers promise a client | |
| `McSession` | the client's calls and the stages of `prove` (MC) | `HidingCommitment`, instantiates `ProvingService` |
| `McSessionProofs` | its invariants and the refinement of the service, proved | `McSession`, `TLAPS` |
| `ScSession` | the same for the single-circuit provers, with and without zero knowledge | `HidingCommitment`, instantiates `ProvingService` |
| `ScSessionProofs` | its invariants and the refinement of the service, proved | `ScSession`, `TLAPS` |
| `FoldSpec` | what the folding prover promises | `Dimensions` |
| `NifsFold` | the loop of `VegaMcNIFS::prove` | `Dimensions`, instantiates `FoldSpec` |
| `NifsFoldProofs` | its invariants and the refinement of the promise, proved | `NifsFold`, `OperatorFacts` |
| `Transcript` | Keccak transcript over a lazily sampled oracle | |
| `MultiRound` | multi-round witness, its shape and instance | `Transcript` |
| `CircuitAlgebra` | the helpers the two verifier circuits share | |
| `VerifierCircuit`, `ScVerifierCircuit` | `VegaMcVerifierCircuit`, `VegaVerifierCircuit` | `CircuitAlgebra` |
| `McArgument`, `ScArgument` | driver and verifier around them | the circuit, `MultiRound` |
| `OperatorFacts` | lemmas on lengths, sequences, rounds, the padded layout, the transcript, channels, vectors, polynomials and the relation | `MultiRound`, `Channel`, `R1CS`, `TLAPS` |
| `ScArgumentProofs` | the invariants of `ScArgument`, proved | `ScArgument`, `OperatorFacts` |
| `McArgumentProofs` | the invariants of `McArgument`, proved | `McArgument`, `OperatorFacts` |
| `Dimensions` | logarithms, powers of two, tensor splits | |
| `ShapeLayout` | shapes, padding, equalizing, rows, column filters | `Dimensions` |
| `ShapeLayoutProofs` | the properties of `ShapeLayout`, proved | `ShapeLayout`, `OperatorFacts` |
| `Polynomials` | the polynomials of `polys/` over a prime field | `Dimensions` |
| `R1CS` | vectors of a witness and the relaxed relation | `Polynomials` |
| `Channel` | a transcript with its oracle and answers, what both sides absorb and ask | `Transcript` |
| `SumCheck` | the sum-check provers, round by round | `Polynomials` |
| `Hyrax` | row commitments, folds, both openings | `R1CS` |
| `FoldAndOpen` | relaxed NIFS, relaxed Spartan, fold of the steps, PCS opening, both sides | `Hyrax`, `Channel` |
| `PlainArgument` | the prover and verifier without zero knowledge | `FoldAndOpen` |
| `FoldAndOpenProofs` | challenges, commitments, folds and completeness of both sides, proved | `PlainArgument`, `OperatorFacts` |
| `MC...` | values for the constants | the module they are named after |

`map` in `PROJECT.json` names the lines each definition stands for. Operators
called `Faulty...` are deliberate mistakes, used by no action: each shows what
one of the properties would catch.

### `ProvingService`, `McSession` and `ScSession`

`ProvingService` is the abstract view of a client: slots that hold a prepared
state, requests, and proofs delivered. A prepared state is a summary of the
calls that made it and nothing else. A request is answered by a proof that
verifies exactly when a predicate of summary and request says so, or fails and
takes the prepared state with it. Public values are reported only with a proof
that verifies. `SafeSpec` is the part without fairness.

In `McSession`, `pk` is the key, `ps[0]` the prepared state of the core,
`ps[i]` that of step `i`, `cache` the cached products with their public values,
`inst` the instances and witnesses the workers of the running prove have built,
`proofs` all proofs returned. Each segment of a witness holds one abstract value
and a challenge is the transcript it is drawn from. `aux` is the assignment
`cs.aux_assignment`, whose length matters, because a prove leaves its rest
variables there. `Setup`, `PrepProve` and `Prove` are the calls.
`RerandomizeStep(i)` and `BuildInstance(i)` are workers of the two parallel
iterations, which may run in any order. `CheckInputs` compares batch and caches,
`FinishProve` returns proof and prepared state, `ProveFails` is any error: both
it and a failed check drop the prepared state. The succinct argument is ideal
here. It binds the statement and convinces exactly when the witness satisfies
it, which `IsSat`, `OpensTo` and `Layer` decide from the data the prover really
used (the cached products where there are any). The other modules look inside
it. The verifier's part is `Verify`.

`ScSession` adds what only the single-circuit prover keeps: the product with the
precommitted columns, the rest witness of the first prove with its unblinded
commitment, to which later proves add the commitment of the difference, and the
scratch buffers. The prepared state derives `Clone` and the client keeps
several, in `Slots`, whose proves may overlap. `is_small` is the caller's claim
that values fit a machine word. Where it is false the commitment is to the low
bits, which `CommitWithoutBlind` has as a value of its own. `key.zk = FALSE` is
the prover of `vega_sc.rs`. `of`, `sound` and `before` record the history for
the properties and are not in the code.

`ImplementsService`, checked for both, maps the caches, buffers and blinds away.
Its content is that they have no influence a client could see: whether a proof
verifies is decided by the input of `prep_prove`, that of `prove`, and (SC) the
claims made so far.

### `FoldSpec` and `NifsFold`

A layer is a set of terms: the small or the large entries of an instance, times
an eq polynomial of bits at the first challenges. `{}` is the empty vector that
`std::mem::take` leaves, and a fold stops at the shorter of two layers as `zip`
does. Layers are indexed from 0 as in the code. `ProvePair`, `ProveCross`,
`FoldChunkOnly` and `FoldAndProveChunk` are single workers; `FinishRound0`,
`CrossBarrier`, `FinishRound` and `Finish` are the sequential code between the
parallel sections; `Fails` is a missing inverse or an error of `process_round`.
`RefinesFoldSpec` states the refinement, with `n`, `polys` and `out` shared by
both modules. `FoldSpec` is fair, so the refinement includes that a fold ends;
`SafeSpec` is the part without fairness.

### `Transcript`, `MultiRound`, the verifier circuits, `McArgument`, `ScArgument`

Field elements are symbolic: a polynomial carries the claim it was computed
for, an evaluation names polynomial and point. `VerifierCircuit` and
`ScVerifierCircuit` give for each round what it allocates (witness variables and
public inputs, in order), what it hands to later rounds and the equations it
enforces. Temporaries inside one evaluation are collapsed into the value they
end in. `MultiRound` concatenates these, copies the variables to their padded
place, commits and draws challenges; the oracle is the list of queries made so
far, so equal queries have equal answers. `McArgument` and `ScArgument` have one
action per message of the driver, at the index the driver computes, then the
verifier round by round. In `McArgument`, `key` are the dimensions setup used and
`dims` those of the call; they differ in the number of folding rounds when a
batch of another size is proved. In `ScArgument` the first inner round is the
driver's own and the generic loop goes on with a start round and an offset.

### `Dimensions`, `ShapeLayout`

A circuit is its sizes, and every constraint of it mentions every variable; a
matrix is the column of each variable and its numbers of rows and columns.
`MakeShape` is `add_constraint` and `SplitR1CSShape::new`, `Equalize` is
`equalize`, `Precompute` the column filters of the incremental product. The
witness vector is built independently from the same sizes, as the prover does,
and the properties compare the two.

### `Polynomials`, `SumCheck`

Vectors over the integers below `P`. `Polynomials` has the equality and power
tables, binding with known non-zero prefixes, sparse evaluation, interpolation
and compression; `SumCheck` runs one job through its rounds, each action one
round: `RoundPoly` as the code computes it (factored equality polynomial,
evaluation derived from the claim, fallback when the divisor is zero, powers
that are never bound, compact tables), `Received` as the verifier
decompresses it. The reference is the definition, a sum over the remaining
cube. A batched prover adds the polynomials of several instances with fixed
weights, so one instance at a time is enough for it.

### `Hyrax`, `FoldAndOpen`, `PlainArgument`

A commitment to a row is the pair of row and blind, added and scaled entry by
entry: binding and linear by construction, which is what the protocols assume of
the curve. `FoldAndOpen` runs a job through `FoldProve`, `OuterProve`,
`InnerProve`, `Combine` and `Open`, and then the same proof through
`FoldVerify`, `OuterVerify`, `InnerVerify`, `CombineVerify` and `OpenVerify`
with a transcript of the verifier's own. The oracle remembers its answers, so
the two agree on a challenge exactly when they asked the same question. A
sum-check here is one message per round, its total and its value at the point of
its challenges: `SumCheck` checks that the rounds deliver those.
`PlainArgument` adds the jobs of `vega_sc.rs` on the same variables:
`InstanceProve`, `PlainOuterProve` and `PlainInnerProve`, then `Open`; and
`InstanceVerify`, `PlainOuterVerify` and `PlainInnerVerify`, then `OpenVerify`.
The rest of its witness is a function of the circuit's challenges. Stage
"failed" is the error of a division by zero.

`R1CS` and `Channel` hold what these modules share: the vectors and the relation
on one side, what is absorbed and asked on the other. The conjuncts of `IsShape`
are what the code makes of every shape before it gets here: the number of
constraints is padded to a power of two (`r1cs/mod.rs:892`, `:1668`), the vector
`z` has at most twice the padded number of variables (`spartan_relaxed.rs:113-117`)
and columns are read at the same place in `z` and in the table of the inner
sum-check (`:281-292`). `AnswersAssumption` says that the oracle answers in the
field and the masks of an opening are vectors of it.

## Runs

| Run | Shows | Bounds |
|---|---|---|
| `mc_session` | the seven invariants of `McSession` and the service | 4 calls that sample blinds, 7 keys, 5 batches, 2 shared and 3 private values |
| `sc_session` | the five invariants of `ScSession` and the service | 3 calls, 2 slots, 5 keys (3 with zero knowledge), 3 inputs (one beyond a word), both claims |
| `nifs_fold` | invariants of `NifsFold`, its refinement of `FoldSpec`, and its end | batches of 2, 3, 4, 5, 6, 8, 9 and 16, with and without small values |
| `mc_argument` | driver, circuit, padded shape and verifier agree (MC) | folding rounds 1 to 3, outer 1 to 2, inner 2 to 3, calls with 1 to 3 folding rounds, commitment width 4 |
| `sc_argument` | the same (SC) | outer rounds 1 to 4, inner 2 to 5, commitment width 4 |
| `shape_layout` | columns, rows, prefixes and filters | width 2, up to 3 variables per segment (6 in the core), up to 5 public values |
| `sum_check` | round polynomials, prefixes and final claims of seven variants | GF(7), up to 6 coordinates, challenges 0, 1 and 3 |
| `fold_and_open` | relaxed fold and argument, fold of the steps, plain argument, opening, on both sides | GF(7), width 2, eight kinds of job, challenges 0, 1 and 3, two points per draw |
| `mc_session_input_order`, `mc_argument_challenges`, `shape_public_room`, `shape_powers` | a violation each: see findings | |

*Why the bounds suffice.* `mc_session`: one `prep_prove` and three `prove`
calls let a state be used, reused and reused after reuse, or prepared anew
after an error. The keys have every combination of segments that takes another
path (cached or not, with and without shared, precommitted and rest variables
and challenges), and one is for a circuit that allocates its challenges before
its public values, for which `HonestProofsVerify` claims nothing
(`OrderSupported`; see findings); a batch of one is rejected by setup. The batches pair each way
in which the batch of `prove` can differ from that of `prep_prove`: same
public values with another witness, other public values, another shared value,
one step more (three steps against keys for three and for four). Two private
inputs have the same output so that a witness can change behind unchanged
public values. `sc_session`: three calls are a first prove that fills the cache
and a second that uses it, or the same on a clone while the original runs. A wrong
difference shows only in the second (`PublishedCommitmentsAreCurrent`), and a
false claim in the first is there to be mended, or not, by the second.
`nifs_fold`: 16 has all kinds of round (first, second, later,
last); 3, 5, 6 and 9 need one, several and almost half of the padding. The
interleavings are complete. `mc_argument`, `sc_argument`: each protocol has its
smallest number of rounds and more; width 4 makes every round need padding.
`shape_layout`: segments of 0 to 3 variables are empty, part of a row, a row,
and a row and a part; the pairs make either side the longer one in variables and
in constraints. `sum_check`: the challenges 0 and 1 with taus 0 and 1 make the
divisor of the derived evaluation zero in every round, 3 is an ordinary one; odd
and even numbers of coordinates cross the middle of the split equality
polynomial in both ways; zero tails have every length. Polynomials of degree
three are compared at four points, which determines them. `fold_and_open`: the
shapes have 6 variables (padded to 8) and 4 (a power of two), two rows of errors
and one; the main witness has one row (no row coordinate), two and four, with
the rest all padding, so that only the leading rows are folded, and not. The
plain jobs have two early segments and a challenge, no early segment, one row
and no public value, and a rest that is only padding; one of the two points
starts with the coordinate one, where the evaluation cannot be recovered.

Deadlock is not checked: a client may stop calling, the number of calls is
bounded, and a fold, an argument or a setup ends.

*Fairness.* The code waits for nobody, and its workers are tasks of a fork-join
section that rayon runs to the end. Fair are therefore only the steps of a call
in progress: in `McSession` the workers that rerandomize and build, the check
and the end of a prove (`FairSpec`); in `ScSession` the next step or the failure
of each running prove; in `NifsFold` some worker's step and the sequential step
of the loop. The client's calls are not fair: it may stop at any time. Under it
`ImplementsService` says that every request is answered, and `RefinesFoldSpec`
that every fold ends. The other runs claim safety only.

### Findings

- `traits/circuit.rs:43` tells circuit authors that challenges "must be
  allocated as public IO prior to other public IO". `bellpepper/r1cs.rs:500`
  takes the first public inputs as the public values, as `traits/circuit.rs:21`
  has it ("these values followed by the challenges"). A circuit written to the
  first comment gets proofs that do not verify (`mc_session_input_order`).
- `traits/circuit.rs:69` says that the challenges passed to a round are "the
  challenges for this round". `bellpepper/r1cs.rs:753-757` passes those drawn
  at the end of the round before (`mc_argument_challenges`). The circuits in
  `zk.rs` are written for what the code does, which `ChecksHold` confirms.
- `r1cs/mod.rs:874` asks the padded variables to be at least `num_public +
  num_challenges + 1`, and the padding gives no more. The evaluation of the
  public part, `polys/multilinear.rs:194`, needs the entries to take at most
  half of them and underflows otherwise (`shape_public_room`).
- `polys/power.rs:80` writes the second entry of the right part of the power
  table, which has one entry for at most two constraints, so the multi-circuit
  prover panics on such circuits (`shape_powers`).

Without a run: the comment on `log_2` (`math.rs:17`) says the logarithm is
rounded down; the code rounds up, and its callers pass powers of two or want it
so.

## Proofs

Every theorem below is for all values of the constants that meet the named
assumptions of the module it is about; TLC evaluates the assumptions in the run
of that module. They say: keys are records of the flags that select a path, and
a circuit's private input lives in some segment; a batch has at least one step
(an empty one ends `prep_prove`), and a batch that is folded at least two
(`SizesAssumption`); the bound on calls is any natural number; `None`
and the content of an empty segment are no values; a public value is not a transcript
(`OutputsAssumption` of `McSession`: a challenge is drawn after its transcript
and cannot be in it), the commitment width is a power of two (`WidthAssumption`)
and setup is called with one or two circuits of natural sizes
(`SetupsAssumption`).

*`McSession`* (`McSessionProofs`). `TypeCorrect`, `CommitmentsOpen` and `SharedIsCommon`
need the invariant `SessionInv`. None of the three properties is inductive. That
a commitment opens after a prove depends on what the assignment holds in its
first entries, because `ps.W` is filled again from there; that it opens after
`RerandomizeStep` depends on the core's commitment opening under the core's blind
and on the step's shared content being the core's. `SessionInv` adds these: the
phases in which there is a prepared state, what the leading entries of the
assignment are, that stored commitments open, and that shared content is common
at all times while commitment and blind are common for those already
rerandomized.

`Unlinkable` (`BlindsNeverReused`) compares any two proofs ever returned, so its
invariant `BlindInv` must say which call a proof belongs to: states rerandomized
in the running prove, and instances built in it, carry the blinds of the current
call; every proof belongs to one call, earlier than the running one; and two
proofs of one call are the same proof. It uses `SessionInv`: that a published
commitment carries the blind of this call follows from the blind stored beside
it only because stored commitments open. That two draws never give the same
blind is the one assumption (a blind is the record of its call, segment and
circuit).

`CachedCurrent`, `HonestVerify`, `AcceptedTrue` and `RefinesService` rest on
`OutcomeInv`: however often it was rerandomized, the prepared state still holds
the witness of the batch it was prepared for, the caches are its products, each
instance already built is that of the requested batch over this witness, and a
delivered proof is `Faithful`. The last part is the heart: `Verify`, computed
from the commitments, products and challenges the prove really used, holds
exactly when `AcceptedBatch` of the two batches does. From left to right it
gives soundness (`AcceptedProofsAreTrue`: every accepted proof is true of one
shared value and reports the requested values), from right to left completeness
under reuse (`HonestProofsVerify`), and both together the refinement.

*`ScSession`* (`ScSessionProofs`). The invariant is a conjunction over the slots, because
clones run independently; `SlotInv` has one part for each state of a slot. At
rest (`Resting`) the ghost `sound` says exactly that no stored commitment and no
cached rest commitment was truncated by a false claim; before and after the rest
commitment of a prove (`BeforeCommit`, `AfterCommit`) the same is said of the
locals, so that `sound` can be carried over the update of the cached rest commitment. It
gives `TypeCorrect`, `CommitmentsOpen`, `CacheStaysOnePair` and
`CommitmentsCurrent` (`PublishedCommitmentsAreCurrent`). The last follows because
the cached commitment plus the difference to the cached witness is whole exactly
when the cached one is (`AddDeltaPoint`).
`Unlinkable` needs its own `BlindInv` as above, with one part more: two running
proves never have the same number.

`RefinesService` is proved for both provers: every step is a step of
`ProvingService` or leaves the client's view unchanged, so `Spec` implies the
service's `SafeSpec`. The service reports values only with a proof that
verifies, so the refinement includes that accepted values are the requested
ones.

*`NifsFold`* (`NifsFoldProofs`). The three invariants and the safety part of the
refinement hold for batches of every size and for every interleaving of the
workers. `FoldInv` is inductive:

- `CountersInv` and `StagesInv`: which round each stage can be in, how many layers
  are in use, and that the work left is about the pairs of the round.
- `DataInv`: what every vector of layers holds. Before the folds, the padded
  batch (`Unfolded`); while chunks are being folded, each chunk of four is still
  the layers of the round before (`ChunkPending`) or has the two of this round at
  its even places (`ChunkFolded`); at the end, the last pair. A worker changes its
  own chunk only, which is why the order of the workers does not matter
  (`LayersFold`); compaction and truncation bring the layers of all chunks to the
  front although each swap overwrites the place of an earlier one (`LayersShrink`).
- `AccInv`: the finished workers have contributed exactly the terms of their pairs.
  `PendingLayersAreIntact` does not say so, and the refinement needs it.
- `PrefixInv`: the prefix coefficients are the weights of the folds.

The lemmas before it are of two kinds. A position in memory is a number and a
term of the specification is a string of bits; that the two are the same view of
the padded batch is proved by induction on the length (`BitsSplit`,
`StringsAreBits`, `BitsInjective`, `IndexIsValue`), and gives that a fold of two
layers is a layer of the next round (`FoldLayers`), that the sum never folded is
one (`SumOfLayers`, `CValLoIsLayer`), and that layers and pairs are what
`FoldSpec` sums over (`PartialIsLayer`, `PolynomialIsIdeal`). The loops that move
layers are recursive functions over the steps taken; what they leave is proved by
`NatSetInduction` (`CompactMoves`). Batches of two, where no chunk is ever folded,
are the case `ell_b = 1` of each lemma about the end of a round.

*`ShapeLayout`* (`ShapeLayoutProofs`). The invariant `LayoutInv` says where
every variable of every circuit is: each shape is its circuit laid out
(`LaidOut`) on the numbers of variables and constraints the shape has, and these
are powers of two with room for segments and public part (`Fits`).
`SplitR1CSShape::new` lays a circuit out, `equalize` lays it out again on the
larger numbers (`EqualizedLaysOut`: moving the public columns of a circuit laid
out on n variables gives the one laid out on more), and the five properties
follow for circuits of every size and every width that is a power of two. For
`RowsConcatenate` it is needed that padded segments fill whole rows
(`RowsAppend`).

*`ScArgument`* (`ScArgumentProofs`, over the lemmas of `OperatorFacts`). All
four properties hold for all numbers of rounds and all widths that
`DimsAssumption` allows: at least one outer and two inner rounds, a width that is
a power of two. They are proved along a chain of invariants, each using those
before it:

- `TypeInv` counts: how many rounds are committed, and how long each message of
  the proof is, at every stage of the prover. With the shape from setup
  (`SetupShape`, whose recursive table of syntheses is shown to exist by
  `NatSetInduction`) it shows that every round fits its shape, so the error paths
  of `process_round` are taken by no run of the driver (`TypeCorrect`).
- `BoundInv`: the transcript has absorbed every commitment so far, and each
  challenge was squeezed from one that had absorbed those of its round and of all
  before (`ChallengesComeLast`). It needs no counting of rounds, only that the
  transcript grows.
- `ValueInv`: the circuit was handed the challenges the driver keeps, the
  variables of the previous round are the ones the next round refers to, and the
  claim the driver carries is the last polynomial at the last challenge. The
  equations enforced in one round are between values of different rounds, so
  `ChecksHold` alone is not inductive (`HonestValuesSatisfy`).
- `InputsInv`, `WitnessInv`: where the public inputs of every round lie, and that
  the segment committed in a round is its variables, padded. `ReplayInv`: while
  the verifier goes through the rounds it has the prover's transcript of the same
  round, so that the oracle gives it the same challenges. At the end
  `HonestProofsAccepted` needs all of them: what `finalize` stored passes
  `validate`, and the public values `verify` computes from the proof are those
  the circuit put out.

*`McArgument`* (`McArgumentProofs`, over the same lemmas). All five properties hold
for all numbers of rounds and all widths that `KeyDimsAssumption` allows: at least
one round of NIFS, one outer and two inner rounds. The chain of invariants is that
of `ScArgument`, with these differences:

- The shape is the key's, the rounds are the call's, and the two may have
  different numbers of NIFS rounds. `TypeInv`, `BoundInv` and `ValueInv` hold in
  any case: a call for fewer or more circuits runs until `process_round` meets a
  round without the challenge the driver takes, and what it enforces up to there
  is true of its values. `WitnessInv` is said of calls of the key's dimensions
  only, since a segment of another round does not fit its place. `ReplayInv` says
  that a finalized instance is of such a call: `finalize` compares the number of
  rounds (`FinalizedAsKeyed`). So `FinalizedAccepted` says both that no finalized
  instance is rejected and that none comes of a call on another number of rounds.
- `ValueInv` follows the claim of NIFS through `t_out_step` into the outer
  sum-check of the step branch, and then both branches: `HeldOK` says which
  variables each round hands to the next, `ClaimOK` what the driver claims.
  The final round of NIFS has no challenge, so the index of a public input and
  the round of its challenge differ by one from there on (`RoundOf`); `InputsInv`
  and `FlattenChallenges` say that the circuit, the instance and the verifier's
  slices count the same way.
- `WitnessInv` says where each variable is (`Laid`) instead of which segment was
  committed. With it `WitnessFitsShape` follows: the place a round writes to and
  the column `apply_pad` computes, from the unpadded index alone, are one.

*`Dimensions`* (`OperatorFacts`). `PowerOfTwo` is a recursive function; that
its definition defines one, that it increases, and that `Log2` and
`NextPowerOfTwo` exist and do what their callers assume, is proved by induction
over a set of natural numbers (`NatSetInduction`), since the library's induction
theorems are for an operator.

*`FoldAndOpen` and `PlainArgument`* (`FoldAndOpenProofs`). A channel is a
transcript with the oracle and its answers. The module first shows that every
exchange, of however many rounds, only adds to what the transcript has seen and
to what its last challenge depends on (`Follows`), and that the same questions
over all that is known later get the same answers (`On`). Then it says what each
step does with the fields of the proof by name, since a proof grows field by
field and no message is overwritten (`FieldsInv`). `BoundInv` then carries what
has been seen (`SeenBy`) into what the next challenge depends on (`Fixed`), which
is all that `OpenedCommitmentsAreBound` and `InstanceIsBound` say in the stages
they are about (`OpenedCommitmentsAreAlwaysBound`, `InstanceIsAlwaysBound`).

`SameChallenges` (`VerifierAsksTheSame`) says of two sides that never see each
other's data that they absorb the same. It needs both parts of the argument:

- *What is absorbed is the same value.* Folding commitments,
  folding them in part and rebuilding the other rows from the folded blind,
  joining the commitments of segments, and binding a commitment at the first
  coordinates of a point commute with committing (`FoldCommitmentsIs`,
  `PartialFoldIs`, `JoinedCommits`, `BoundCommitmentIs`). It is algebra modulo P
  over vectors of any length and rows of any width. The hypotheses are those of
  `JobsAssumption` and `SegmentsAssumption`: vectors of the lengths the shape
  gives, a blind for each row, a weight for each step, segments that fill whole
  rows up to the last, and zeros after the prefix when the rest is padding. The
  prover's checks and the padding of `SplitR1CSShape::new` see to all of them.
- *So the next challenge is the same.* Each step is stated once, as what leads
  from one channel to the next for given messages (`Taken`), and the
  step repeated over all that is known later is shown to lead to the same channel again
  (`StepRepeats`). `PlayInv` says how many steps each side has taken: the prover
  has a history of them (`ProverAt`), and the verifier is at the same place of
  that history over the prover's whole oracle (`VerifierAt`), so that it never
  asks what is not there. `HeldInv` says what each side holds that a later step
  absorbs: u and X of the folded instance, and the claim that is opened with
  what it opens to. A message that a later step overwrote, or a commitment the
  verifier folded in another way, would break one of the two.

The oracle may answer anything in the field (`AnswersAssumption`).

`FoldIsSatisfied` with zero knowledge (`FoldedIsSatisfied`) is what the fold is
for. It is proved of one fold first: the fold of a relaxed witness that
satisfies the relation and a regular one satisfies it again for every challenge,
because the cross term is what is left over when the product of two sums is
multiplied out and `u` and the error take up the rest (`FoldOfSatisfiedIsSatisfied`);
and the instance the verifier folds from commitments is that of the folded
witness, cross term and error included (`FoldedInstanceIsOfFoldedWitness`). What
the steps then need is already noted in `HeldInv` for `SameChallenges`: the prover
holds that fold (`FoldNoted`) and that claim (`ClaimNoted`) with the messages it
sent. The opening adds that the multilinear extension is linear in the vector, so
that the fold of the evaluations the prover sent is the evaluation of the folded
witness (`ExtensionIs`, `PartsEvaluate`). That the oracle returned the challenges
of the prover, which the verifier folds by, is `SameChallenges`.

`ProofIsAccepted` with zero knowledge (`HonestProofIsAccepted`) says that no check
of the verifier fails: two sum-checks, the fold of the instances and the
opening of the claim. Each is first shown of one exchange:

- the claims of the outer sum-check are the values of `Az`, `Bz` and `Cz + E` at
  the point of its challenges, and their sum weighted by the equality polynomial
  is zero for a satisfied witness;
- the joint claim of the inner sum-check is the sum over the columns, and its value
  at the point of its challenges is what the verifier puts together from the
  evaluations of the matrices, the two openings and the public part
  (`InnerHoldsIfSatisfied`), which needs that the table of the inner sum-check holds
  witness, `u` and public part where the columns read them;
- a direct opening passes (`DirectOpeningHolds`), and so does the last opening, for
  all masks and challenges (`ClaimOpens`, over `ArgumentHolds`: the row the commitment is
  bound to by the first coordinates, masked, against its weights by the others).

A check that holds of an exchange says nothing yet of the verifier, which makes
the exchange again with questions of its own and an instance it folded itself. So the
prover notes of each step what it sent and that the check passes over all that
may be known later (`Note`, `Noted`), and the notes are read again by the verifier
at the same place of the history (`ZkHas`). In between it must be known that a
message is not overwritten (`Remembers`), that a later answer of the oracle changes
no earlier challenge (`Steady`), and that the instance the verifier holds is that of the
witness the prover folded. `AcceptInv` puts them together.

*Only model-checked*: the sum-check provers (`RoundPolynomials`, `ZeroPrefixes`,
`FinalClaims`), `FoldIsSatisfied` and `ProofIsAccepted` for `vega_sc`,
and the liveness halves of `ImplementsService` and `RefinesFoldSpec`. Liveness and
`ENABLED` are out of the prover's reach.
That the rounds of a sum-check deliver its value is an induction over tables bound
one coordinate at a time; that is mathematics known from the
papers, and what can go wrong in the code (indices, prefixes, fallbacks) shows on
the small fields of the runs. No module declares a RECURSIVE operator; loops are
recursive functions or folds.

## Plan

Everything planned at first is modelled except the small-value arithmetic and the
multi-scalar multiplication. Proved are both sessions with their refinements, the
folding loop with its own, the shapes, both arguments, and for the end of a proof
what its challenges depend on, that the verifier draws them again, that what
is folded is satisfied and opens, and that an honest proof is accepted.

## Not modelled, and why

- *Cryptography.* Soundness of the sum-check, of Spartan, Hyrax and of
  Fiat-Shamir are facts no model checker establishes: commitments are assumed
  binding, blinds distinct, and polynomials that differ are taken to differ at
  the challenge where field values are symbolic.
- *Word arithmetic* (`big_num/`): limbs, carries and delayed reductions are pure
  functions whose hazards lie at 64 and 128 bits; a small instance does not
  reach them and a bit-precise tool does. The models keep what the provers see of
  it: which values fit a word and what happens to those that do not.
- *False claims of smallness in the batch prover*: `McSession` takes commitments
  to be to whole values; the path that truncates (`bellpepper/r1cs.rs:471`,
  `hyrax_pc.rs:569`) is in `ScSession` only.
- *How `prep_prove` chooses the positions it keeps out of the small layers*
  (`vega_mc_zkp.rs:1580`): `I64Layer` has the entries already split, so no run
  shows that they are zeroed in every instance.
- *Multi-scalar multiplication and fixed-base tables* (`provider/msm.rs`, part of
  `hyrax_pc.rs`): pure functions, taken by their result.
- *Encodings of sparse matrices* (`r1cs/sparse.rs`): unit, small and general
  coefficients are one matrix here.
- *The transcript's bytes*: the hash, labels as bytes, and the 16-bit round
  counter, whose overflow is an error after 65535 challenges of one transcript;
  the schedules need a few per logarithm of the circuit.
- *Circuits with one constraint* (no outer round): both provers end in an
  assertion or an index out of bounds there (`zk.rs:337`), so the arguments take
  at least one outer and two inner rounds. An empty batch ends `prep_prove` in a
  panic as well.
- *Public inputs allocated in `shared` or `precommitted`*: no circuit of the
  repository does that; the code loses them.
- *Front ends, solver, digests, serialization, curves, errors, logging* and the
  Python reference: no state of their own that the provers depend on.

`PROJECT.json` lists every part with its status and every hazard with the
properties that cover it or the reason why none does.
