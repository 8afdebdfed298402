----------------------------- MODULE ScSession -----------------------------
(***************************************************************************)
(* The life of the single-circuit provers: vega_sc_zkp.rs (zero-knowledge, *)
(* key.zk) and vega_sc.rs.  As in McSession, prep_prove commits once and   *)
(* prove reuses the prepared state and hands it back on success only.  New *)
(* here are what the prepared state carries along: the product of the      *)
(* matrices with the precommitted columns, the rest witness of the first   *)
(* prove with its unblinded commitment, to which later proves add only the *)
(* difference, and buffers whose content the sum-checks destroy.           *)
(*                                                                         *)
(* A prepared state can be cloned (it derives Clone), so the client keeps  *)
(* several, in Slots, and their proves may overlap.  is_small is the       *)
(* caller's claim that the witness fits in machine words; a commitment     *)
(* made under it is to the low 64 bits of every entry (rows are taken to   *)
(* be long enough for that path).                                          *)
(***************************************************************************)
EXTENDS Naturals, Sequences, HidingCommitment

CONSTANTS
  Slots,           \* where the client keeps prepared states
  Keys,            \* what setup can be called on
  Circuits,        \* circuits: [sh, w], shared value and private input
  Shared, Private, \* values of the two
  Large,           \* the values that do not fit in a machine word
  Out,             \* the public value a circuit computes, as a function
  Zero,            \* content of a segment that holds only padding
  None,            \* Option::None
  MaxCalls         \* bound on the calls that sample randomness

ASSUME KeysAssumption ==
  /\ Keys \subseteq [zk : BOOLEAN, shared : BOOLEAN, precommitted : BOOLEAN,
                     rest : BOOLEAN, challenge : BOOLEAN]
  \* the circuit's private input lives in some segment
  /\ \A k \in Keys : k.precommitted \/ k.rest
(* What the segments of a witness hold, blinds, and commitments.  The point  *)
(* that a commitment blinds is to a whole value, to its low words, or to    *)
(* what a difference of two values made of another point.                   *)
Option(S) == S \cup {None}
Value == Shared \cup Private \cup {Zero}
SharedValue == Shared \cup {Zero}
PrecommittedValue == Private \cup {Zero}
Atom == [k : Nat, segment : {"shared", "precommitted", "rest"}]
Point(S) == {"whole", "truncated"} \X S
CommitmentTo(P) == [v : P, plus : SUBSET Atom, minus : SUBSET Atom]

(* What one circuit squeezes its challenge from. *)
PublicValue == {Out[p] : p \in DOMAIN Out}
Transcript == [public_values : Seq(PublicValue),
               shared : Option(CommitmentTo(Point(SharedValue))),
               precommitted : Option(CommitmentTo(Point(PrecommittedValue)))]
RestContent == [w : Private, challenges : Seq(Transcript)]
RestSegment == RestContent \cup {Zero}
BlindedPoint == Point(RestSegment)
  \cup ({"mixed"} \X Point(RestSegment) \X RestSegment \X RestSegment)

(* The prepared state and the local variables of a prove. *)
Inputs == [circuit : Circuits, is_small : BOOLEAN]
Witness == [shared : SharedValue, precommitted : PrecommittedValue, rest : RestSegment]
Buffer == {"zeros", "taken", "bound"}
PreparedState ==
  [aux : Seq(Value \cup RestContent),
   W : Witness,
   comm_W_shared : Option(CommitmentTo(Point(SharedValue))),
   r_W_shared : Option(Atom),
   comm_W_precommitted : Option(CommitmentTo(Point(PrecommittedValue))),
   r_W_precommitted : Option(Atom),
   cached_product : SharedValue \X PrecommittedValue,
   cached_rest_witness : Option(RestSegment),
   cached_rest_msm : Option(Point(RestSegment)),
   scratch : Buffer,
   z_buffer : Buffer,
   of : Circuits,
   sound : BOOLEAN]
Before == [of : Circuits, sound : BOOLEAN, first : BOOLEAN]
Running ==
  [input : Inputs,
   stage : {"synthesize", "commit", "build", "multiply", "argue"},
   k : Nat,
   challenges : Seq(Transcript),
   W : Option(Witness),
   r_W : Option(Option(Atom) \X Option(Atom) \X Atom),
   U : Option([comm_W_shared : Option(CommitmentTo(Point(SharedValue))),
               comm_W_precommitted : Option(CommitmentTo(Point(PrecommittedValue))),
               comm_W_rest : CommitmentTo(BlindedPoint),
               public_values : Seq(PublicValue),
               challenges : Seq(Transcript)]),
   z : Option([W : Witness, X : Seq(PublicValue \cup Transcript)]),
   product : Option([pre : SharedValue \X PrecommittedValue,
                     tail : RestSegment \X Seq(PublicValue \cup Transcript)]),
   before : Before]

ASSUME ValuesAssumption ==
  /\ Circuits \subseteq [sh : Shared, w : Private]
  /\ Zero \notin Shared \cup Private
  /\ Large \subseteq Shared \cup Private
  /\ DOMAIN Out = (Shared \cup {Zero}) \X Private
  /\ MaxCalls \in Nat
  \* a value is not the content of a rest segment
  /\ \A v \in Value : v \notin RestContent
ASSUME NoneAssumption ==
  /\ None \notin Keys /\ None \notin Inputs
  /\ None \notin Atom /\ None \notin RestSegment /\ None \notin Point(RestSegment)
  /\ None \notin CommitmentTo(Point(SharedValue))
  /\ None \notin CommitmentTo(Point(PrecommittedValue))
  /\ None \notin PreparedState /\ None \notin Running /\ None \notin Before

VARIABLES
  pk,      \* the proving key, None before setup
  prep,    \* the prepared state in each slot, None when there is none
  run,     \* the prove that runs on each slot, with its local variables
  proofs,  \* every proof returned, with the calls it came from
  calls    \* number of calls that sampled blinds so far

vars == <<pk, prep, run, proofs, calls>>

Blind(k, segment) == [k |-> k, segment |-> segment]

-----------------------------------------------------------------------------
(* Commitments *)

FitsWord(v) ==
  IF v \in Value THEN v \notin Large
  ELSE v.w \notin Large /\ v.challenges = <<>>

(* The unblinded commitment to a segment under the claim that it is small.  *)
CommitWithoutBlind(v, is_small) ==
  IF is_small /\ ~FitsWord(v) THEN <<"truncated", v>> ELSE <<"whole", v>>

(* commit_incremental: the given points plus the commitment to new - old.   *)
AddDelta(raw, new, old) ==
  IF new = old THEN raw
  ELSE IF raw = <<"whole", old>> THEN <<"whole", new>>
  ELSE <<"mixed", raw, new, old>>

OpensWhole(comm, v, r) == Opens(comm, <<"whole", v>>, r)

-----------------------------------------------------------------------------
(* prep_prove *)

Values(key, c) == <<Out[<<IF key.shared THEN c.sh ELSE Zero, c.w>>]>>

(* multiply_vec is linear in z, so a product is represented by the parts of *)
(* z it was computed from: the precommitted columns and the others.         *)
PrecommittedProduct(W) == <<W.shared, W.precommitted>>
Product(z) == [pre |-> <<z.W.shared, z.W.precommitted>>, tail |-> <<z.W.rest, z.X>>]

(* What prep_prove leaves; `of` is the input it was called on and sound     *)
(* whether the claims that made it were true, neither of them in the code.  *)
Prepared(input, k) ==
  LET c  == input.circuit
      sh == IF pk.shared THEN c.sh ELSE Zero
      pw == IF pk.precommitted THEN c.w ELSE Zero
      commit(v, segment) == Commit(CommitWithoutBlind(v, input.is_small), Blind(k, segment))
      W  == [shared |-> sh, precommitted |-> pw, rest |-> Zero]
  IN  [aux |-> (IF pk.shared THEN <<sh>> ELSE <<>>)
                 \o (IF pk.precommitted THEN <<pw>> ELSE <<>>),
       W |-> W,
       comm_W_shared |-> IF pk.shared THEN commit(sh, "shared") ELSE None,
       r_W_shared |-> IF pk.shared THEN Blind(k, "shared") ELSE None,
       comm_W_precommitted |-> IF pk.precommitted THEN commit(pw, "precommitted") ELSE None,
       r_W_precommitted |-> IF pk.precommitted THEN Blind(k, "precommitted") ELSE None,
       cached_product |-> PrecommittedProduct(W),
       cached_rest_witness |-> None,
       cached_rest_msm |-> None,
       scratch |-> "zeros",
       z_buffer |-> "zeros",
       of |-> c,
       sound |-> input.is_small => FitsWord(sh) /\ FitsWord(pw)]

PrepAuxLen == (IF pk.shared THEN 1 ELSE 0) + (IF pk.precommitted THEN 1 ELSE 0)

-----------------------------------------------------------------------------
(* The steps of prove *)

(* Fault: only a shared commitment is rerandomized. *)
FaultyRerandomize(p, k) ==
  IF p.comm_W_shared = None THEN p
  ELSE [p EXCEPT !.comm_W_shared = RerandomizeCommitment(@, p.r_W_shared, Blind(k, "shared")),
                 !.r_W_shared = Blind(k, "shared")]

(* Fault: the commitments are rerandomized, the stored blinds are not. *)
FaultyKeepBlinds(p, k) ==
  LET fresh(comm, r, segment) ==
        IF comm = None THEN None ELSE RerandomizeCommitment(comm, r, Blind(k, segment))
  IN  [p EXCEPT !.comm_W_shared = fresh(@, p.r_W_shared, "shared"),
                !.comm_W_precommitted = fresh(@, p.r_W_precommitted, "precommitted")]

RerandomizeInPlace(p, k) ==
  LET fresh(comm, r, segment) ==
        IF comm = None THEN None ELSE RerandomizeCommitment(comm, r, Blind(k, segment))
      blind(comm, segment) == IF comm = None THEN None ELSE Blind(k, segment)
  IN  [p EXCEPT
         !.comm_W_shared = fresh(@, p.r_W_shared, "shared"),
         !.r_W_shared = blind(p.comm_W_shared, "shared"),
         !.comm_W_precommitted = fresh(@, p.r_W_precommitted, "precommitted"),
         !.r_W_precommitted = blind(p.comm_W_precommitted, "precommitted")]

Challenges(public_values, comm_shared, comm_precommitted) ==
  IF pk.challenge
    THEN <<[public_values |-> public_values, shared |-> comm_shared,
            precommitted |-> comm_precommitted]>>
    ELSE <<>>

(* The assignment is cut to its prep length and synthesize appends the rest *)
(* variables, computed from the circuit prove was given.                    *)
RestValue(c, challenges) == [w |-> c.w, challenges |-> challenges]
(* Fault: the rest of the previous prove is left in the assignment. *)
FaultyNoTruncate(aux, c, challenges) ==
  aux \o (IF pk.rest THEN <<RestValue(c, challenges)>> ELSE <<>>)

SynthesizedAux(aux, c, challenges) ==
  SubSeq(aux, 1, PrepAuxLen) \o (IF pk.rest THEN <<RestValue(c, challenges)>> ELSE <<>>)
WithRest(W, aux) == [W EXCEPT !.rest = IF pk.rest THEN aux[PrepAuxLen + 1] ELSE Zero]

(* The rest commitment of vega_sc_zkp.rs, unblinded: what the first prove   *)
(* cached, plus the difference to the witness it cached with it.            *)
FirstRest(p, is_small) ==
  [p EXCEPT !.cached_rest_witness = p.W.rest,
            !.cached_rest_msm = CommitWithoutBlind(p.W.rest, is_small)]

(* Fault: the cached witness follows the proves, its commitment does not. *)
FaultyCacheRest(p, is_small) ==
  IF p.cached_rest_msm # None THEN [p EXCEPT !.cached_rest_witness = p.W.rest]
  ELSE FirstRest(p, is_small)

CacheRest(p, is_small) ==
  IF p.cached_rest_msm # None /\ p.cached_rest_witness # None THEN p
  ELSE FirstRest(p, is_small)

(* Fault: the difference is taken from the new witness to the cached one. *)
FaultyRestPoint(p, cached) ==
  AddDelta(cached.cached_rest_msm,
           IF p.cached_rest_msm = None THEN p.W.rest ELSE p.cached_rest_witness, p.W.rest)

(* The point the rest commitment blinds: raw in the first prove.            *)
RestPoint(p, cached) ==
  AddDelta(cached.cached_rest_msm, p.W.rest,
           IF p.cached_rest_msm = None THEN p.W.rest ELSE p.cached_rest_witness)

(* Fault: the buffer of the last prove is extended and not cleared. *)
FaultyBuildZ(buffer, W, X) ==
  [W |-> IF buffer = "zeros" THEN W ELSE [W EXCEPT !.rest = Zero], X |-> X]

(* z = (W, 1, X) in a cleared buffer, and the product: the cached part in a *)
(* cleared buffer plus the columns from the rest on.                        *)
BuildZ(buffer, W, X) == [W |-> W, X |-> X]
MultiplyIncrementalInto(scratch, cached, z) ==
  [pre |-> cached, tail |-> <<z.W.rest, z.X>>]

(* The relation, as in McSession, and what the argument establishes.        *)
IsSat(z) ==
  LET w == IF pk.precommitted THEN z.W.precommitted ELSE z.W.rest.w
  IN  /\ z.X[1] = Out[<<z.W.shared, w>>]
      /\ z.W.rest = IF pk.rest THEN [w |-> w, challenges |-> Tail(z.X)] ELSE Zero

OpensTo(U, W, r_W) ==
  /\ U.comm_W_shared # None => OpensWhole(U.comm_W_shared, W.shared, r_W[1])
  /\ U.comm_W_precommitted # None
       => OpensWhole(U.comm_W_precommitted, W.precommitted, r_W[2])
  /\ OpensWhole(U.comm_W_rest, W.rest, r_W[3])

MakeProof(U, W, r_W, z, product) ==
  [U |-> U,
   argument |-> [statement |-> U,
                 convincing |-> /\ OpensTo(U, W, r_W)
                                /\ z = [W |-> W, X |-> U.public_values \o U.challenges]
                                /\ product = Product(z)
                                /\ IsSat(z)]]

(* Both verifiers: validate recomputes the challenges, and the rest of the  *)
(* proof is the argument for the instance it carries.                       *)
Verify(proof) ==
  /\ Len(proof.U.public_values) = 1
  /\ pk.shared <=> proof.U.comm_W_shared # None
  /\ pk.precommitted <=> proof.U.comm_W_precommitted # None
  /\ proof.U.challenges = Challenges(proof.U.public_values, proof.U.comm_W_shared,
                                     proof.U.comm_W_precommitted)
  /\ proof.argument.statement = proof.U
  /\ proof.argument.convincing

-----------------------------------------------------------------------------
(* Calls of the client *)

Init ==
  /\ pk = None
  /\ prep = [s \in Slots |-> None]
  /\ run = [s \in Slots |-> None]
  /\ proofs = {}
  /\ calls = 0

Setup(key) == pk = None /\ pk' = key /\ UNCHANGED <<prep, run, proofs, calls>>

PrepProve(s, input) ==
  /\ pk # None
  /\ run[s] = None
  /\ calls < MaxCalls
  /\ prep' = [prep EXCEPT ![s] = Prepared(input, calls + 1)]
  /\ calls' = calls + 1
  /\ UNCHANGED <<pk, run, proofs>>

Clone(s, t) ==
  /\ prep[s] # None
  /\ run[s] = None
  /\ prep[t] = None
  /\ prep' = [prep EXCEPT ![t] = prep[s]]
  /\ UNCHANGED <<pk, run, proofs, calls>>

Started(input, stage, p) ==
  [input |-> input, stage |-> stage, k |-> calls + 1,
   challenges |-> Challenges(Values(pk, input.circuit), p.comm_W_shared, p.comm_W_precommitted),
   W |-> None, r_W |-> None, U |-> None, z |-> None, product |-> None,
   before |-> [of |-> p.of, sound |-> p.sound, first |-> p.cached_rest_msm = None]]

(* prove of vega_sc_zkp.rs: rerandomize, then the transcript up to the      *)
(* challenges.                                                              *)
ProveZk(s, input) ==
  LET p == RerandomizeInPlace(prep[s], calls + 1)
  IN  /\ pk # None /\ pk.zk
      /\ prep[s] # None /\ run[s] = None
      /\ calls < MaxCalls
      /\ prep' = [prep EXCEPT ![s] = p]
      /\ run' = [run EXCEPT ![s] = Started(input, "synthesize", p)]
      /\ calls' = calls + 1
      /\ UNCHANGED <<pk, proofs>>

(* prove of vega_sc.rs does not rerandomize: its proofs are not zero-knowledge. *)
ProvePlain(s, input) ==
  /\ pk # None /\ ~pk.zk
  /\ prep[s] # None /\ run[s] = None
  /\ calls < MaxCalls
  /\ run' = [run EXCEPT ![s] = Started(input, "build", prep[s])]
  /\ calls' = calls + 1
  /\ UNCHANGED <<pk, prep, proofs>>

Synthesize(s) ==
  LET aux == SynthesizedAux(prep[s].aux, run[s].input.circuit, run[s].challenges)
  IN  /\ run[s] # None /\ run[s].stage = "synthesize"
      /\ prep' = [prep EXCEPT ![s].aux = aux, ![s].W = WithRest(@, aux)]
      /\ run' = [run EXCEPT ![s].stage = "commit"]
      /\ UNCHANGED <<pk, proofs, calls>>

(* The instance and witness the two provers hand to the argument.           *)
WithInstance(r, p, W, comm_rest, r_rest) ==
  [r EXCEPT !.stage = "multiply",
            !.W = W,
            !.r_W = <<p.r_W_shared, p.r_W_precommitted, r_rest>>,
            !.U = [comm_W_shared |-> p.comm_W_shared,
                   comm_W_precommitted |-> p.comm_W_precommitted,
                   comm_W_rest |-> comm_rest,
                   public_values |-> Values(pk, r.input.circuit),
                   challenges |-> r.challenges]]

CommitRest(s) ==
  LET p == prep[s]
      r == Blind(run[s].k, "rest")
      cached == CacheRest(p, run[s].input.is_small)
      comm == Commit(RestPoint(p, cached), r)
  IN  /\ run[s] # None /\ run[s].stage = "commit"
      /\ prep' = [prep EXCEPT ![s] = cached]
      /\ run' = [run EXCEPT ![s] = WithInstance(@, p, p.W, comm, r)]
      /\ UNCHANGED <<pk, proofs, calls>>

(* vega_sc.rs goes through r1cs_instance_and_witness: W is moved out and    *)
(* filled again from the assignment, without the rest.                      *)
BuildPlain(s) ==
  LET p == prep[s]
      skip == ~pk.rest /\ run[s].challenges = <<>>
      aux == IF skip THEN p.aux
             ELSE SynthesizedAux(p.aux, run[s].input.circuit, run[s].challenges)
      W == IF skip THEN p.W ELSE WithRest(p.W, aux)
      r == Blind(run[s].k, "rest")
      comm == Commit(CommitWithoutBlind(W.rest, run[s].input.is_small), r)
  IN  /\ run[s] # None /\ run[s].stage = "build"
      /\ prep' = [prep EXCEPT
           ![s].aux = aux,
           ![s].W = [shared |-> IF pk.shared THEN aux[1] ELSE Zero,
                     precommitted |-> IF pk.precommitted THEN aux[PrepAuxLen] ELSE Zero,
                     rest |-> Zero]]
      /\ run' = [run EXCEPT ![s] = WithInstance(@, p, W, comm, r)]
      /\ UNCHANGED <<pk, proofs, calls>>

(* The buffers are taken out of the prepared state and filled. *)
Multiply(s) ==
  LET p == prep[s]
      z == BuildZ(p.z_buffer, run[s].W, run[s].U.public_values \o run[s].U.challenges)
  IN  /\ run[s] # None /\ run[s].stage = "multiply"
      /\ run' = [run EXCEPT
             ![s].stage = "argue",
             ![s].z = z,
             ![s].product = MultiplyIncrementalInto(p.scratch, p.cached_product, z)]
      /\ prep' = [prep EXCEPT ![s].z_buffer = "taken", ![s].scratch = "taken"]
      /\ UNCHANGED <<pk, proofs, calls>>

(* Whether the claims behind a zero-knowledge prepared state stay true when *)
(* a prove uses it: only the first prove commits under its own claim.       *)
StillSound(before, key, input) ==
  /\ before.sound
  /\ (key.zk => before.first) /\ key.rest /\ input.is_small
       => input.circuit.w \notin Large /\ ~key.challenge

(* The sum-checks, NIFS and PCS; they leave the buffers bound to a point.   *)
Argue(s) ==
  LET r == run[s]
  IN  /\ r # None /\ r.stage = "argue"
      /\ proofs' = proofs \cup
           {[proof |-> MakeProof(r.U, r.W, r.r_W, r.z, r.product),
             before |-> r.before, input |-> r.input]}
      /\ prep' = [prep EXCEPT
             ![s].z_buffer = "bound", ![s].scratch = "bound",
             ![s].sound = IF pk.zk THEN StillSound(r.before, pk, r.input) ELSE @]
      /\ run' = [run EXCEPT ![s] = None]
      /\ UNCHANGED <<pk, calls>>

(* The circuit, a length check, a transcript or an inversion may fail at    *)
(* any stage; prove owned the prepared state, so it is gone.                *)
Fail(s) ==
  /\ run[s] # None
  /\ run' = [run EXCEPT ![s] = None]
  /\ prep' = [prep EXCEPT ![s] = None]
  /\ UNCHANGED <<pk, proofs, calls>>

Step(s) == Synthesize(s) \/ CommitRest(s) \/ BuildPlain(s) \/ Multiply(s) \/ Argue(s)

Next ==
  \/ \E key \in Keys : Setup(key)
  \/ \E s \in Slots :
       \/ \E input \in Inputs : PrepProve(s, input) \/ ProveZk(s, input) \/ ProvePlain(s, input)
       \/ \E t \in Slots : Clone(s, t)
       \/ Step(s)
       \/ Fail(s)

(* A call of prove runs to its end, whatever the other calls do.            *)
Spec == Init /\ [][Next]_vars /\ \A s \in Slots : WF_vars(Step(s) \/ Fail(s))

-----------------------------------------------------------------------------
(* Types *)

(* Shape of the state; a prove between its first step and its last has      *)
(* taken what the stage says, and no prove leaves a buffer missing.         *)
TypeOK ==
  /\ pk \in Option(Keys)
  /\ prep \in [Slots -> Option(PreparedState)]
  /\ run \in [Slots -> Option(Running)]
  /\ calls \in 0 .. MaxCalls
  /\ \A s \in Slots :
       /\ run[s] # None => prep[s] # None /\ run[s].k \in 1 .. calls
       /\ prep[s] # None =>
            /\ Len(prep[s].aux) \in PrepAuxLen .. PrepAuxLen + (IF pk.rest THEN 1 ELSE 0)
            /\ (prep[s].scratch = "taken" \/ prep[s].z_buffer = "taken")
                  <=> (run[s] # None /\ run[s].stage = "argue")
            /\ prep[s].cached_product = PrecommittedProduct(prep[s].W)

-----------------------------------------------------------------------------
(* Safety *)

(* At every stage of every prove, of whatever clone, the stored shared and  *)
(* precommitted commitments are to the stored segments under the stored     *)
(* blinds, up to a false claim of the caller that their entries are small.  *)
StoredCommitmentsOpen ==
  \A s \in Slots : prep[s] # None =>
    LET p == prep[s]
        opens(comm, v, r) == \E claim \in BOOLEAN :
                               /\ claim => ~p.sound \/ FitsWord(v)
                               /\ Opens(comm, CommitWithoutBlind(v, claim), r)
    IN  /\ p.comm_W_shared # None => opens(p.comm_W_shared, p.W.shared, p.r_W_shared)
        /\ p.comm_W_precommitted # None
             => opens(p.comm_W_precommitted, p.W.precommitted, p.r_W_precommitted)

(* The cached rest commitment and the cached rest witness come from one and *)
(* the same prove, so that the one plus the difference to the other is what *)
(* any later prove has to commit to; they exist only together.              *)
CachedRestIsOnePair ==
  \A s \in Slots : prep[s] # None =>
    LET p == prep[s]
    IN  /\ p.cached_rest_msm = None <=> p.cached_rest_witness = None
        /\ p.cached_rest_msm # None =>
             /\ pk.zk
             /\ \E claim \in BOOLEAN :
                  p.cached_rest_msm = CommitWithoutBlind(p.cached_rest_witness, claim)
             /\ p.sound /\ run[s] = None
                  => p.cached_rest_msm = <<"whole", p.cached_rest_witness>>

Published(proof) ==
  {c \in {<<"shared", proof.U.comm_W_shared>>,
          <<"precommitted", proof.U.comm_W_precommitted>>,
          <<"rest", proof.U.comm_W_rest>>} : c[2] # None}

(* Zero knowledge: no blind appears in two proofs or in two places of one,  *)
(* whether they were made one after another from one prepared state or from *)
(* clones of it.  Without it (vega_sc.rs) the shared and precommitted       *)
(* commitments repeat, but the rest is blinded afresh.                      *)
BlindsNeverReused ==
  \A p, q \in proofs : \A x \in Published(p.proof), y \in Published(q.proof) :
    (pk.zk \/ x[1] = "rest") =>
      /\ x[2].minus = {}
      /\ x[2].plus \cap y[2].plus # {} => p = q /\ x = y

(* The first or a later prove, on a clone or not, accepted or not: what a   *)
(* proof commits to is what was prepared and the rest that the requested    *)
(* circuit computes from the challenges of this proof (vega_sc_zkp.rs:332), *)
(* exactly when no claim behind it was false.  The first rest commitment is *)
(* the base of all updates, so that one made under a false claim is never   *)
(* mended, by no later witness and in no clone.                             *)
PublishedCommitmentsAreCurrent ==
  \A p \in proofs :
    LET U == p.proof.U
        rest == IF pk.rest THEN RestValue(p.input.circuit, U.challenges) ELSE Zero
    IN  StillSound(p.before, pk, p.input) <=>
          /\ pk.shared => U.comm_W_shared.v = <<"whole", p.before.of.sh>>
          /\ pk.precommitted => U.comm_W_precommitted.v = <<"whole", p.before.of.w>>
          /\ U.comm_W_rest.v = <<"whole", rest>>

-----------------------------------------------------------------------------
(* The service it implements *)

Summary(key, input) ==
  [of |-> input.circuit, first |-> TRUE,
   sound |-> /\ input.is_small /\ key.shared => input.circuit.sh \notin Large
             /\ input.is_small /\ key.precommitted => input.circuit.w \notin Large]

After(key, before, input) ==
  IF key.zk THEN [before EXCEPT !.first = FALSE, !.sound = StillSound(before, key, input)]
  ELSE before

(* A proof verifies when no claim was false and the private inputs agree    *)
(* where they meet; without rest variables the request only adds its public *)
(* value, and without precommitted ones the prepared input is not used.     *)
Accepted(key, before, input) ==
  LET sh == IF key.shared THEN before.of.sh ELSE Zero
      w  == IF key.precommitted THEN before.of.w ELSE input.circuit.w
  IN  /\ StillSound(before, key, input)
      /\ key.precommitted /\ key.rest => before.of.w = input.circuit.w
      /\ Values(key, input.circuit) = <<Out[<<sh, w>>]>>

ReportedValues(key, input) == Values(key, input.circuit)

Service == INSTANCE ProvingService WITH
  Values <- ReportedValues,
  key <- pk,
  prepared <- [s \in Slots |->
    IF prep[s] = None THEN None
    ELSE IF run[s] # None THEN run[s].before
    ELSE [of |-> prep[s].of, sound |-> prep[s].sound,
          first |-> prep[s].cached_rest_msm = None]],
  request <- [s \in Slots |-> IF run[s] = None THEN None ELSE run[s].input],
  delivered <- {[prepared |-> p.before, input |-> p.input,
                 values |-> IF Verify(p.proof) THEN p.proof.U.public_values ELSE None,
                 accepted |-> Verify(p.proof)] : p \in proofs}

(* The prepared state with its rerandomized commitments, its caches, its    *)
(* buffers and its clones is only a summary of the calls that made it, each *)
(* proof verifies exactly when that summary and the request say so, and     *)
(* every prove that is started delivers a proof or fails.                   *)
ImplementsService == Service!Spec

=============================================================================
