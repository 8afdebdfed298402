----------------------------- MODULE McSession -----------------------------
(***************************************************************************)
(* The life of the multi-circuit prover of vega_mc_zkp.rs: setup makes the *)
(* keys, prep_prove commits to the shared and precommitted witness once,   *)
(* and the prepared state is then rerandomized and reused by one prove     *)
(* after another, each of which consumes it and, on success only, hands it *)
(* back.                                                                   *)
(*                                                                         *)
(* A circuit is [sh, w]: the value of its shared variables and its private *)
(* input.  A segment of the witness holds one abstract value.  The random  *)
(* oracle is symbolic: a challenge IS the transcript it was squeezed from. *)
(* The succinct argument of one prove (NIFS, sum-checks, verifier circuit, *)
(* PCS) is ideal: it fixes the statement it was made for and is convincing *)
(* exactly when the witness satisfies that statement.                      *)
(***************************************************************************)
EXTENDS Naturals, Sequences, HidingCommitment

CONSTANTS
  Keys,            \* what setup can be called on: [n, shared, step, core, order]
  Batches,         \* what prep_prove and prove can be called on: [steps, core]
  Shared,          \* values of the shared variables
  Private,         \* private inputs of the circuits
  Out,             \* the public value a circuit computes, as a function
  Zero,            \* content of a segment that holds only padding
  None,            \* Option::None
  MaxCalls         \* bound on the calls that sample randomness

Circuit == [sh : Shared, w : Private]
SegmentShape == [precommitted : BOOLEAN, rest : BOOLEAN, challenge : BOOLEAN]

ASSUME KeysAssumption ==
  /\ Keys \subseteq [n : Nat, shared : BOOLEAN, step : SegmentShape,
                     core : SegmentShape, order : {"values_first", "challenges_first"}]
  \* the circuit's private input lives in some segment
  /\ \A k \in Keys : \A S \in {k.step, k.core} : S.precommitted \/ S.rest
ASSUME BatchesAssumption ==
  Batches \subseteq [steps : Seq(Circuit) \ {<<>>}, core : Circuit]
ASSUME ValuesAssumption ==
  /\ Zero \notin Shared \cup Private
  /\ DOMAIN Out = (Shared \cup {Zero}) \X Private
  /\ MaxCalls \in Nat

(* What blinds and commitments are. *)
Option(S) == S \cup {None}
Blind(k, segment, i) == [k |-> k, segment |-> segment, who |-> i]
Atom == [k : Nat, segment : {"shared", "precommitted", "rest"}, who : Nat]
SharedValue == Shared \cup {Zero}
PrecommittedValue == Private \cup {Zero}
CommitmentTo(S) == [v : S, plus : SUBSET Atom, minus : SUBSET Atom]

ASSUME NoneAssumption ==
  /\ None \notin Keys /\ None \notin Batches /\ None \notin Atom
  /\ None \notin CommitmentTo(SharedValue)
  /\ None \notin CommitmentTo(PrecommittedValue)

VARIABLES
  pk,        \* the proving key, None before setup (the verifier key agrees with it)
  phase,     \* where the client is: between calls, or at which stage of prove
  prepped,   \* the batch prep_prove ran on, None when there is no prepared state
  ps,        \* ps_core at index Core, ps_step[i - 1] at index i
  cache,     \* cached_step_matvec and cached_step_public_values
  call,      \* the running prove: its batch and the workers not yet done
  inst,      \* instance and witness of each circuit, as the workers build them
  proofs,    \* every proof returned to the client, with the calls it came from
  calls      \* number of calls that sampled blinds so far

vars == <<pk, phase, prepped, ps, cache, call, inst, proofs, calls>>

Core == 0
StepsOf(batch) == 1 .. Len(batch.steps)
Indices(batch) == {Core} \cup StepsOf(batch)
CircuitAt(batch, i) == IF i = Core THEN batch.core ELSE batch.steps[i]
ShapeAt(i) == IF i = Core THEN pk.core ELSE pk.step

NextPowerOfTwo(n) == CHOOSE p \in {2 ^ e : e \in 0 .. n} :
                       p >= n /\ \A q \in {2 ^ e : e \in 0 .. n} : q >= n => p <= q

(* VegaCircuit::public_values of a circuit. *)
PublicValues(c) == <<Out[<<IF pk.shared THEN c.sh ELSE Zero, c.w>>]>>

-----------------------------------------------------------------------------
(* SatisfyingAssignment: the prepared state of one circuit *)

SharedWitness(c, k) ==
  LET v == IF pk.shared THEN c.sh ELSE Zero
      r == Blind(k, "shared", Core)
  IN  [aux |-> IF pk.shared THEN <<v>> ELSE <<>>,
       W |-> [shared |-> v, precommitted |-> Zero, rest |-> Zero],
       comm_W_shared |-> IF pk.shared THEN Commit(v, r) ELSE None,
       r_W_shared |-> IF pk.shared THEN r ELSE None,
       comm_W_precommitted |-> None,
       r_W_precommitted |-> None]

PrecommittedWitness(s, S, c, i, k) ==
  LET r == Blind(k, "precommitted", i)
  IN  IF S.precommitted
        THEN [s EXCEPT !.aux = Append(@, c.w),
                       !.W.precommitted = c.w,
                       !.comm_W_precommitted = Commit(c.w, r),
                       !.r_W_precommitted = r]
        ELSE s

(* Fault: the precommitted commitment keeps its blind. *)
FaultyKeepPrecommitted(s, i, k) == s

RerandomizePrecommitted(s, i, k) ==
  LET r == Blind(k, "precommitted", i)
  IN  IF s.comm_W_precommitted # None
        THEN [s EXCEPT !.comm_W_precommitted =
                          RerandomizeCommitment(@, s.r_W_precommitted, r),
                       !.r_W_precommitted = r]
        ELSE s

RerandomizeInPlace(s, i, k) ==
  LET r == Blind(k, "shared", i)
      t == IF s.comm_W_shared # None
             THEN [s EXCEPT !.comm_W_shared = RerandomizeCommitment(@, s.r_W_shared, r),
                            !.r_W_shared = r]
             ELSE s
  IN  RerandomizePrecommitted(t, i, k)

(* Fault: the shared commitment is replaced, its blind is not. *)
FaultyKeepSharedBlind(s, comm, r, i, k) ==
  RerandomizePrecommitted([s EXCEPT !.comm_W_shared = comm], i, k)

(* Fault: a step rerandomizes the shared commitment on its own. *)
FaultyOwnShared(s, comm, r, i, k) == RerandomizeInPlace(s, i, k)

RerandomizeWithSharedInPlace(s, comm, r, i, k) ==
  RerandomizePrecommitted([s EXCEPT !.comm_W_shared = comm, !.r_W_shared = r], i, k)

(* Entries of aux_assignment that prep_prove left there. *)
PrepAuxLen(S) == (IF pk.shared THEN 1 ELSE 0) + (IF S.precommitted THEN 1 ELSE 0)

(* The transcript of one circuit up to its challenges, and what is squeezed *)
(* from it.  Steps are bound to their number and index, the core is not.    *)
Domain(i, n) == IF i = Core THEN <<"core">> ELSE <<"step", n, i>>
Challenges(S, domain, public_values, comm_shared, comm_precommitted) ==
  IF S.challenge
    THEN <<[domain |-> domain, public_values |-> public_values,
            shared |-> comm_shared, precommitted |-> comm_precommitted]>>
    ELSE <<>>

(* The rest variables a circuit computes in synthesize. *)
RestValue(c, challenges) == [w |-> c.w, challenges |-> challenges]

(* Fault: the assignment of the previous prove is not cut off. *)
FaultyNoTruncate(s, S, c, challenges) ==
  s.aux \o (IF S.rest THEN <<RestValue(c, challenges)>> ELSE <<>>)

(* aux_assignment after synthesize: cut back to its prep length, then the   *)
(* rest variables.                                                          *)
SynthesizedAux(s, S, c, challenges) ==
  SubSeq(s.aux, 1, PrepAuxLen(S))
    \o (IF S.rest THEN <<RestValue(c, challenges)>> ELSE <<>>)

(* The public inputs synthesize allocates, in the circuit's order; the      *)
(* first num_public of them become the instance's public_values.            *)
Inputize(c, challenges) ==
  IF pk.order = "values_first"
    THEN PublicValues(c) \o challenges
    ELSE challenges \o PublicValues(c)

(* ps.W for the next call: shared and precommitted again, rest cleared.     *)
RepopulatedW(S, aux) ==
  [shared |-> IF pk.shared THEN aux[1] ELSE Zero,
   precommitted |-> IF S.precommitted THEN aux[PrepAuxLen(S)] ELSE Zero,
   rest |-> Zero]

R1csInstanceAndWitness(s, S, c, i, n, k) ==
  LET chals == Challenges(S, Domain(i, n), PublicValues(c),
                          s.comm_W_shared, s.comm_W_precommitted)
      skip  == ~S.rest /\ chals = <<>>
      aux   == IF skip THEN s.aux ELSE SynthesizedAux(s, S, c, chals)
      W     == IF S.rest THEN [s.W EXCEPT !.rest = aux[PrepAuxLen(S) + 1]] ELSE s.W
      r     == Blind(k, "rest", i)
  IN  [ps |-> [s EXCEPT !.aux = aux, !.W = RepopulatedW(S, aux)],
       U  |-> [comm_W_shared |-> s.comm_W_shared,
               comm_W_precommitted |-> s.comm_W_precommitted,
               comm_W_rest |-> Commit(W.rest, r),
               public_values |-> IF skip THEN PublicValues(c)
                                 ELSE SubSeq(Inputize(c, chals), 1, 1),
               challenges |-> chals],
       W  |-> W,
       r_W |-> <<s.r_W_shared, s.r_W_precommitted, r>>]

(* to_regular_instance: one commitment, one vector of public inputs. *)
Present(c) == IF c = None THEN <<>> ELSE <<c>>
RegularInstance(U) ==
  [comm_W |-> Present(U.comm_W_shared) \o Present(U.comm_W_precommitted)
                \o <<U.comm_W_rest>>,
   X |-> U.public_values \o U.challenges]

-----------------------------------------------------------------------------
(* What the circuits constrain, and what the argument establishes *)

(* z = (W, 1, X).  multiply_vec is a function of z, so its result is        *)
(* represented by z itself.                                                 *)
MultiplyVec(W, X) == [W |-> W, X |-> X]

(* The R1CS relation: the public value is the output on the witness, and    *)
(* the rest was computed from the same private input and challenges, read   *)
(* from the columns of X where the circuit allocated them.                  *)
IsSat(z, S) ==
  LET w      == IF S.precommitted THEN z.W.precommitted ELSE z.W.rest.w
      output == IF pk.order = "values_first" THEN z.X[1] ELSE z.X[Len(z.X)]
      chals  == IF ~S.challenge THEN <<>>
                ELSE IF pk.order = "values_first" THEN <<z.X[2]>> ELSE <<z.X[1]>>
  IN  /\ output = Out[<<z.W.shared, w>>]
      /\ z.W.rest = IF S.rest THEN [w |-> w, challenges |-> chals] ELSE Zero

OpensTo(b) ==
  /\ b.U.comm_W_shared # None => Opens(b.U.comm_W_shared, b.W.shared, b.r_W[1])
  /\ b.U.comm_W_precommitted # None
       => Opens(b.U.comm_W_precommitted, b.W.precommitted, b.r_W[2])
  /\ Opens(b.U.comm_W_rest, b.W.rest, b.r_W[3])

(* NIFS reads the cached products where there are any and multiplies else.  *)
Layer(i, b) == IF i # Core /\ cache # None THEN cache.matvec[i]
               ELSE MultiplyVec(b.W, RegularInstance(b.U).X)

Convincing(built) ==
  \A i \in DOMAIN built :
    LET z == MultiplyVec(built[i].W, RegularInstance(built[i].U).X)
    IN  OpensTo(built[i]) /\ Layer(i, built[i]) = z /\ IsSat(z, ShapeAt(i))

(* The instances the folding runs over, padded with copies of the first.    *)
PaddedSteps(steps) ==
  [j \in 1 .. NextPowerOfTwo(Len(steps)) |->
     RegularInstance(IF j <= Len(steps) THEN steps[j] ELSE steps[1])]

Statement(core, steps) == [core |-> RegularInstance(core), steps |-> PaddedSteps(steps)]

(* The proof: the shared commitment once, the instances without it, and     *)
(* the argument.                                                            *)
MakeProof(built, n) ==
  LET steps == [i \in 1 .. n |-> built[i].U]
      strip(U) == [U EXCEPT !.comm_W_shared = None]
  IN  [comm_W_shared |-> steps[1].comm_W_shared,
       step_instances |-> [i \in 1 .. n |-> strip(steps[i])],
       core_instance |-> strip(built[Core].U),
       argument |-> [statement |-> Statement(built[Core].U, steps),
                     convincing |-> Convincing(built)]]

-----------------------------------------------------------------------------
(* The verifier *)

Validate(U, S, domain) ==
  /\ Len(U.public_values) = 1
  /\ pk.shared <=> U.comm_W_shared # None
  /\ S.precommitted <=> U.comm_W_precommitted # None
  /\ U.challenges = Challenges(S, domain, U.public_values,
                               U.comm_W_shared, U.comm_W_precommitted)

(* Fault: the number of steps the key is bound to is not compared. *)
FaultyAnyCount(proof, num_instances) ==
  num_instances # 0 /\ num_instances = Len(proof.step_instances)

(* The number of instances is the caller's, the proof's and the key's.      *)
CountsAgree(proof, num_instances) ==
  /\ num_instances # 0
  /\ num_instances = Len(proof.step_instances)
  /\ num_instances = pk.n

Verify(proof, num_instances) ==
  LET attach(U) == [U EXCEPT !.comm_W_shared = proof.comm_W_shared]
      n     == Len(proof.step_instances)
      steps == [i \in 1 .. n |-> attach(proof.step_instances[i])]
      core  == attach(proof.core_instance)
  IN  /\ CountsAgree(proof, num_instances)
      /\ \A i \in 1 .. n : Validate(steps[i], pk.step, Domain(i, n))
      /\ Validate(core, pk.core, Domain(Core, n))
      /\ proof.argument.statement = Statement(core, steps)
      /\ proof.argument.convincing

(* The public values verify returns. *)
VerifiedValues(proof) ==
  [i \in {Core} \cup DOMAIN proof.step_instances |->
     IF i = Core THEN proof.core_instance.public_values
                 ELSE proof.step_instances[i].public_values]

-----------------------------------------------------------------------------
(* Calls of the client and steps of prove *)

NoCall == [batch |-> None, todo |-> {}]

Init ==
  /\ pk = None
  /\ phase = "unkeyed"
  /\ prepped = None
  /\ ps = <<>>
  /\ cache = None
  /\ call = NoCall
  /\ inst = <<>>
  /\ proofs = {}
  /\ calls = 0

(* setup rejects a batch of fewer than two steps. *)
Setup(key) ==
  /\ phase = "unkeyed"
  /\ key.n >= 2
  /\ pk' = key
  /\ phase' = "idle"
  /\ UNCHANGED <<prepped, ps, cache, call, inst, proofs, calls>>

CanCacheMatvec == ~pk.step.challenge /\ ~pk.step.rest

(* prep_prove: the first step's shared witness is everyone's; each circuit  *)
(* adds its own precommitted variables; the products are cached when the    *)
(* whole step witness is already known.                                     *)
PrepProve(batch) ==
  LET k      == calls + 1
      shared == SharedWitness(batch.steps[1], k)
      state  == [i \in Indices(batch) |->
                   PrecommittedWitness(shared, ShapeAt(i), CircuitAt(batch, i), i, k)]
      values == [i \in StepsOf(batch) |-> PublicValues(batch.steps[i])]
  IN  /\ phase \in {"idle", "prepped"}
      /\ calls < MaxCalls
      /\ ps' = state
      /\ cache' = IF CanCacheMatvec
                    THEN [matvec |-> [i \in StepsOf(batch) |->
                                        MultiplyVec(state[i].W, values[i])],
                          public_values |-> values]
                    ELSE None
      /\ prepped' = batch
      /\ phase' = "prepped"
      /\ calls' = k
      /\ UNCHANGED <<pk, call, inst, proofs>>

(* prove takes the prepared state and first rerandomizes the core. *)
Prove(batch) ==
  /\ phase = "prepped"
  /\ calls < MaxCalls
  /\ ps' = [ps EXCEPT ![Core] = RerandomizeInPlace(@, Core, calls + 1)]
  /\ call' = [batch |-> batch, todo |-> DOMAIN ps \ {Core}]
  /\ phase' = "rerandomize"
  /\ calls' = calls + 1
  /\ UNCHANGED <<pk, prepped, cache, inst, proofs>>

(* One worker of the parallel iteration over ps_step. *)
RerandomizeStep(i) ==
  /\ phase = "rerandomize"
  /\ i \in call.todo
  /\ ps' = [ps EXCEPT ![i] = RerandomizeWithSharedInPlace(@, ps[Core].comm_W_shared,
                                                ps[Core].r_W_shared, i, calls)]
  /\ call' = [call EXCEPT !.todo = @ \ {i}]
  /\ UNCHANGED <<pk, phase, prepped, cache, inst, proofs, calls>>

(* Fault: the public values behind the cache are not compared. *)
FaultyStaleCache == DOMAIN ps = Indices(call.batch)

(* The prepared state belongs to as many circuits as prove was given, and   *)
(* the cache to the same public values.                                     *)
InputsMatch ==
  /\ DOMAIN ps = Indices(call.batch)
  /\ cache # None => \A i \in StepsOf(call.batch) :
                       cache.public_values[i] = PublicValues(call.batch.steps[i])

(* Fault: the error path hands the prepared state back as it is.            *)
FaultyKeepPrep ==
  /\ phase' = "prepped"
  /\ call' = NoCall
  /\ inst' = <<>>
  /\ UNCHANGED <<prepped, ps, cache>>

(* prove owned the prepared state: an error drops it. *)
DropPrep ==
  /\ phase' = "idle"
  /\ prepped' = None
  /\ ps' = <<>>
  /\ cache' = None
  /\ call' = NoCall
  /\ inst' = <<>>

CheckInputs ==
  /\ phase = "rerandomize"
  /\ call.todo = {}
  /\ \/ /\ InputsMatch
        /\ phase' = "build"
        /\ call' = [call EXCEPT !.todo = DOMAIN ps]
        /\ UNCHANGED <<prepped, ps, cache, inst>>
     \/ ~InputsMatch /\ DropPrep
  /\ UNCHANGED <<pk, proofs, calls>>

(* One of the parallel workers that build the instances and witnesses. *)
BuildInstance(i) ==
  LET c == CircuitAt(call.batch, i)
      b == R1csInstanceAndWitness(ps[i], ShapeAt(i), c, i, Len(call.batch.steps), calls)
  IN  /\ phase = "build"
      /\ i \in call.todo
      /\ ps' = [ps EXCEPT ![i] = b.ps]
      /\ inst' = [j \in DOMAIN inst \cup {i} |->
                    IF j = i THEN [U |-> b.U, W |-> b.W, r_W |-> b.r_W] ELSE inst[j]]
      /\ call' = [call EXCEPT !.todo = @ \ {i}]
      /\ UNCHANGED <<pk, phase, prepped, cache, proofs, calls>>

(* NIFS, sum-checks and PCS.  The verifier circuit of the key has rounds    *)
(* for NextPowerOfTwo(pk.n) instances; any other number ends in an error.   *)
RoundsMatch == NextPowerOfTwo(Len(call.batch.steps)) = NextPowerOfTwo(pk.n)

FinishProve ==
  /\ phase = "build"
  /\ call.todo = {}
  /\ \/ /\ RoundsMatch
        /\ proofs' = proofs \cup
             {[proof |-> MakeProof(inst, Len(call.batch.steps)),
               batch |-> call.batch, prepped |-> prepped]}
        /\ phase' = "prepped"
        /\ call' = NoCall
        /\ inst' = <<>>
        /\ UNCHANGED <<prepped, ps, cache>>
     \/ ~RoundsMatch /\ DropPrep /\ UNCHANGED proofs
  /\ UNCHANGED <<pk, calls>>

(* A circuit's synthesize, a transcript or a field inversion may fail at    *)
(* any point of prove.                                                      *)
ProveFails ==
  /\ phase \in {"rerandomize", "build"}
  /\ DropPrep
  /\ UNCHANGED <<pk, proofs, calls>>

Next ==
  \/ \E key \in Keys : Setup(key)
  \/ \E batch \in Batches : PrepProve(batch)
  \/ \E batch \in Batches : Prove(batch)
  \/ \E i \in call.todo : RerandomizeStep(i)
  \/ CheckInputs
  \/ \E i \in call.todo : BuildInstance(i)
  \/ FinishProve
  \/ ProveFails

Spec == Init /\ [][Next]_vars

(* A prove runs to its end: rayon runs every item of a parallel iteration,  *)
(* and what follows the iteration.  Nothing obliges the client to call.     *)
Workers == UNION {Indices(batch) : batch \in Batches}
FairSpec ==
  /\ Spec
  /\ \A i \in Workers : WF_vars(RerandomizeStep(i)) /\ WF_vars(BuildInstance(i))
  /\ WF_vars(CheckInputs)
  /\ WF_vars(FinishProve)

-----------------------------------------------------------------------------
(* Types *)

PublicValue == {Out[p] : p \in DOMAIN Out}
Transcript == [domain : {<<"core">>} \cup ({"step"} \X Nat \X Nat),
               public_values : Seq(PublicValue),
               shared : Option(CommitmentTo(SharedValue)),
               precommitted : Option(CommitmentTo(PrecommittedValue))]
AuxValue == Shared \cup Private \cup [w : Private, challenges : Seq(Transcript)]

PrecommittedState ==
  [aux : Seq(AuxValue),
   W : [shared : SharedValue, precommitted : PrecommittedValue, rest : {Zero}],
   comm_W_shared : Option(CommitmentTo(SharedValue)),
   r_W_shared : Option(Atom),
   comm_W_precommitted : Option(CommitmentTo(PrecommittedValue)),
   r_W_precommitted : Option(Atom)]

(* A public output of a circuit is not one of the challenges. *)
ASSUME OutputsAssumption == \A v \in PublicValue : v \notin Transcript

(* Shape of the state between any two steps; in particular the assignment   *)
(* a prove leaves behind (r1cs_instance_and_witness) never grows from one   *)
(* prove to the next, and the rest segment is always cleared.               *)
TypeOK ==
  /\ pk \in Option(Keys)
  /\ phase \in {"unkeyed", "idle", "prepped", "rerandomize", "build"}
  /\ prepped \in Option(Batches)
  /\ ps \in [IF prepped = None THEN {} ELSE Indices(prepped) -> PrecommittedState]
  /\ \A i \in DOMAIN ps :
       Len(ps[i].aux) \in PrepAuxLen(ShapeAt(i)) ..
                          PrepAuxLen(ShapeAt(i)) + (IF ShapeAt(i).rest THEN 1 ELSE 0)
  /\ cache # None => DOMAIN cache.matvec = DOMAIN ps \ {Core}
  /\ call \in [batch : Option(Batches), todo : SUBSET DOMAIN ps]
  /\ DOMAIN inst \subseteq DOMAIN ps
  /\ calls \in 0 .. MaxCalls

-----------------------------------------------------------------------------
(* Safety *)

(* Whatever the stage of a prove and however many came before, each stored  *)
(* commitment of the prepared state opens to the stored witness segment     *)
(* under the stored blind: the rerandomizations and the move of W out of    *)
(* r1cs_instance_and_witness leave a state the next prove can use.          *)
StoredCommitmentsOpen ==
  \A i \in DOMAIN ps :
    LET s == ps[i] IN
    /\ s.comm_W_shared # None <=> pk.shared
    /\ pk.shared => Opens(s.comm_W_shared, s.W.shared, s.r_W_shared)
    /\ s.comm_W_precommitted # None <=> ShapeAt(i).precommitted
    /\ ShapeAt(i).precommitted
         => Opens(s.comm_W_precommitted, s.W.precommitted, s.r_W_precommitted)

(* The states already rerandomized in this prove share one commitment to    *)
(* the shared segment, one blind and one content with the core: verify      *)
(* attaches a single comm_W_shared to all instances.                        *)
SharedCommitmentIsCommon ==
  \A i \in DOMAIN ps \ (IF phase = "rerandomize" THEN call.todo ELSE {}) :
    /\ ps[i].comm_W_shared = ps[Core].comm_W_shared
    /\ ps[i].r_W_shared = ps[Core].r_W_shared
    /\ ps[i].W.shared = ps[Core].W.shared

(* The commitments a proof publishes, by the place they appear in. *)
Published(proof) ==
  LET of(U, i) == {<<<<i, "precommitted">>, U.comm_W_precommitted>>,
                   <<<<i, "rest">>, U.comm_W_rest>>}
  IN  {x \in {<<<<Core, "shared">>, proof.comm_W_shared>>}
                 \cup of(proof.core_instance, Core)
                 \cup UNION {of(proof.step_instances[i], i) :
                               i \in DOMAIN proof.step_instances} : x[2] # None}

(* Proofs made from one prepared state cannot be linked by their            *)
(* commitments: no blind appears in two proofs, nor in two places of one    *)
(* proof, and every commitment is blinded by one fresh atom only.           *)
BlindsNeverReused ==
  \A p, q \in proofs : \A x \in Published(p.proof), y \in Published(q.proof) :
    /\ x[2].minus = {}
    /\ x[2].plus \cap y[2].plus # {} => p = q /\ x = y

(* The products cached at prep time are those of the witness and public     *)
(* inputs of the instances this prove folds.                                *)
CachedProductsAreCurrent ==
  cache # None =>
    \A i \in DOMAIN inst \ {Core} :
      cache.matvec[i] = MultiplyVec(inst[i].W, RegularInstance(inst[i].U).X)

(* A batch whose circuits agree on the shared variables. *)
CommonShared(batch) ==
  pk.shared => \A i \in Indices(batch) : CircuitAt(batch, i).sh = batch.steps[1].sh

(* A circuit with challenges has to allocate its public values before them, *)
(* because the first inputs are taken for the public values.                *)
OrderSupported(key) ==
  \A S \in {key.step, key.core} : S.challenge => key.order = "values_first"

(* Completeness under reuse: any prove on the batch that was prepared, the  *)
(* first or a later one, yields a proof that verify accepts and whose       *)
(* public values are the circuits'.                                         *)
HonestProofsVerify ==
  \A p \in proofs :
    (/\ p.batch = p.prepped /\ CommonShared(p.batch)
     /\ Len(p.batch.steps) = pk.n /\ OrderSupported(pk))
      => /\ Verify(p.proof, pk.n)
         /\ \A i \in Indices(p.batch) :
              VerifiedValues(p.proof)[i] = PublicValues(CircuitAt(p.batch, i))

(* Soundness of the composition, whatever batches prep_prove and prove were *)
(* given: what verify accepts has as many steps as the key says, reports    *)
(* the public values of the circuits prove was called on, and these are     *)
(* outputs for one value of the shared variables.                           *)
AcceptedProofsAreTrue ==
  \A p \in proofs : \A num_instances \in 0 .. 4 :
    Verify(p.proof, num_instances) =>
      /\ Len(p.batch.steps) = pk.n
      /\ \A i \in Indices(p.batch) :
           VerifiedValues(p.proof)[i] = PublicValues(CircuitAt(p.batch, i))
      /\ \E v \in SharedValue : \A i \in Indices(p.batch) : \E w \in Private :
           VerifiedValues(p.proof)[i] = <<Out[<<v, w>>]>>

(* traits/circuit.rs:43 tells the author of a circuit that challenges "must *)
(* be allocated as public IO prior to other public IO"; a circuit that      *)
(* obeys gets proofs that verify.                                           *)
DocumentedInputOrderWorks ==
  \A p \in proofs :
    (p.batch = p.prepped /\ CommonShared(p.batch) /\ Len(p.batch.steps) = pk.n)
      => Verify(p.proof, pk.n)

-----------------------------------------------------------------------------
(* The service it implements *)

ReportedValues(key, batch) ==
  [i \in Indices(batch) |->
     LET c == CircuitAt(batch, i) IN <<Out[<<IF key.shared THEN c.sh ELSE Zero, c.w>>]>>]

Summary(key, batch) == batch
After(key, before, batch) == before

(* A proof verifies when it has the number of steps of the key, the inputs  *)
(* are allocated in the order that works and, for each circuit, the witness *)
(* that is used, precommitted or from the request and always with the first *)
(* prepared step's shared value, gives the value requested and is one and   *)
(* the same where the rest meets it.                                        *)
AcceptedBatch(key, before, batch) ==
  LET sh == IF key.shared THEN before.steps[1].sh ELSE Zero
  IN  /\ Len(batch.steps) = key.n /\ Len(before.steps) = key.n
      /\ OrderSupported(key)
      /\ \A i \in Indices(batch) :
           LET S == IF i = Core THEN key.core ELSE key.step
               w == CircuitAt(batch, i).w
               prepared_w == CircuitAt(before, i).w
           IN  /\ S.precommitted /\ S.rest => prepared_w = w
               /\ ReportedValues(key, batch)[i]
                     = <<Out[<<sh, IF S.precommitted THEN prepared_w ELSE w>>]>>

Service == INSTANCE ProvingService WITH
  Slots <- {"prep"},
  Inputs <- Batches,
  Values <- ReportedValues,
  Accepted <- AcceptedBatch,
  key <- pk,
  prepared <- [s \in {"prep"} |-> prepped],
  request <- [s \in {"prep"} |-> call.batch],
  delivered <- {[prepared |-> p.prepped, input |-> p.batch,
                 values |-> IF Verify(p.proof, pk.n) THEN VerifiedValues(p.proof)
                            ELSE None,
                 accepted |-> Verify(p.proof, pk.n)] : p \in proofs}

(* However often the prepared state was rerandomized, by workers in         *)
(* whatever order, and its assignment truncated and its caches read, it is  *)
(* to the client only the batch it was prepared for: each proof verifies    *)
(* exactly when that batch, the requested one and the key say so, and every *)
(* prove that is started delivers a proof or fails.                         *)
ImplementsService == Service!Spec

=============================================================================
