-------------------------- MODULE McSessionProofs --------------------------
(***************************************************************************)
(* Proofs about McSession, for any keys, batches, values and number of     *)
(* calls: the prepared state keeps its type through every prove, each of   *)
(* its commitments opens, after rerandomization all circuits carry the     *)
(* core's shared commitment, and no two proofs share a blind.  The second  *)
(* part is about what prove delivers: completeness, soundness of the       *)
(* composition and the refinement of ProvingService.                       *)
(***************************************************************************)
EXTENDS McSession, TLAPS

(* The assignment still holds what prep_prove put there; this is what the   *)
(* repopulation of W at the end of r1cs_instance_and_witness relies on.     *)
AuxHoldsPrep(s, S) ==
  /\ s.W.shared = IF pk.shared THEN s.aux[1] ELSE Zero
  /\ s.W.precommitted = IF S.precommitted THEN s.aux[PrepAuxLen(S)] ELSE Zero

SharedOpens(s) ==
  /\ s.comm_W_shared # None <=> pk.shared
  /\ pk.shared => /\ s.r_W_shared \in Atom
                  /\ Opens(s.comm_W_shared, s.W.shared, s.r_W_shared)

PrecommittedOpens(s, S) ==
  /\ s.comm_W_precommitted # None <=> S.precommitted
  /\ S.precommitted => /\ s.r_W_precommitted \in Atom
                       /\ Opens(s.comm_W_precommitted, s.W.precommitted,
                                s.r_W_precommitted)

AuxLength(s, S) ==
  Len(s.aux) \in PrepAuxLen(S) .. PrepAuxLen(S) + (IF S.rest THEN 1 ELSE 0)

(* A prepared state that the next prove can use. *)
Usable(s, S) ==
  /\ s \in PrecommittedState
  /\ AuxLength(s, S)
  /\ AuxHoldsPrep(s, S)
  /\ SharedOpens(s)
  /\ PrecommittedOpens(s, S)

IsInstance(U) ==
  U = [comm_W_shared |-> U.comm_W_shared, comm_W_precommitted |-> U.comm_W_precommitted,
       comm_W_rest |-> U.comm_W_rest, public_values |-> U.public_values,
       challenges |-> U.challenges]

(* The inductive strengthening of the two safety properties. *)
SessionInv ==
  /\ TypeOK
  /\ phase = "unkeyed" <=> pk = None
  /\ phase \in {"unkeyed", "idle"} <=> prepped = None
  /\ phase \notin {"rerandomize", "build"} => call = NoCall
  /\ phase # "build" => inst = <<>>
  /\ phase = "rerandomize" => Core \notin call.todo
  /\ phase \in {"rerandomize", "build"} => call.batch \in Batches
  /\ phase = "build" => DOMAIN ps = Indices(call.batch)
  /\ \A i \in DOMAIN ps : /\ Usable(ps[i], ShapeAt(i))
                          /\ ps[i].W.shared = ps[Core].W.shared
  /\ SharedCommitmentIsCommon

-----------------------------------------------------------------------------
(* A blind drawn in some call for a segment of some circuit is an atom. *)
LEMMA BlindIsAtom ==
  ASSUME NEW k \in Nat, NEW i \in Nat,
         NEW segment \in {"shared", "precommitted", "rest"}
  PROVE  Blind(k, segment, i) \in Atom
BY DEF Blind, Atom

(* Commitments under atoms have the type of commitments. *)
LEMMA CommitType ==
  ASSUME NEW V, NEW v \in V, NEW r \in Atom
  PROVE  Commit(v, r) \in CommitmentTo(V)
BY DEF Commit, CommitmentTo

(* Rerandomizing with the blind a commitment carries replaces that blind.   *)
LEMMA RerandomizeOpens ==
  ASSUME NEW v, NEW r, NEW s
  PROVE  RerandomizeCommitment(Commit(v, r), r, s) = Commit(v, s)
BY DEF RerandomizeCommitment, Commit

LEMMA PrepAuxLenBound ==
  ASSUME NEW S
  PROVE  /\ PrepAuxLen(S) \in 0 .. 2
         /\ pk.shared => PrepAuxLen(S) >= 1
         /\ S.precommitted => PrepAuxLen(S) >= 1
BY DEF PrepAuxLen

(* RerandomizePrecommitted leaves everything but the precommitted           *)
(* commitment and its blind alone, and keeps the state usable.              *)
LEMMA RerandomizePrecommittedUsable ==
  ASSUME pk \in Keys, NEW S \in SegmentShape, NEW s, Usable(s, S),
         NEW i \in Nat, NEW k \in Nat
  PROVE  LET t == RerandomizePrecommitted(s, i, k)
         IN  /\ Usable(t, S)
             /\ t.comm_W_shared = s.comm_W_shared
             /\ t.r_W_shared = s.r_W_shared
             /\ t.W = s.W
<1> DEFINE r == Blind(k, "precommitted", i)
           t == RerandomizePrecommitted(s, i, k)
<1>1. r \in Atom
  BY BlindIsAtom
<1>2. CASE s.comm_W_precommitted = None
  BY <1>2 DEF RerandomizePrecommitted
<1>3. CASE s.comm_W_precommitted # None
  <2>1. /\ S.precommitted
        /\ s.r_W_precommitted \in Atom
        /\ s.comm_W_precommitted = Commit(s.W.precommitted, s.r_W_precommitted)
    BY <1>3 DEF Usable, PrecommittedOpens, Opens
  <2> HIDE DEF r
  <2>a. RerandomizeCommitment(s.comm_W_precommitted, s.r_W_precommitted, r)
          = Commit(s.W.precommitted, r)
    BY <2>1, RerandomizeOpens
  <2>2. t = [s EXCEPT !.comm_W_precommitted = Commit(s.W.precommitted, r),
                      !.r_W_precommitted = r]
    BY <1>3, <2>a, Zenon DEF RerandomizePrecommitted, r
  <2>3. Commit(s.W.precommitted, r) \in CommitmentTo(PrecommittedValue)
    BY <1>1, CommitType DEF Usable, PrecommittedState
  <2>4. Commit(s.W.precommitted, r) # None
    BY <2>3, NoneAssumption
  <2>5. /\ t \in PrecommittedState
        /\ t.aux = s.aux /\ t.W = s.W
        /\ t.comm_W_shared = s.comm_W_shared /\ t.r_W_shared = s.r_W_shared
        /\ t.comm_W_precommitted = Commit(s.W.precommitted, r)
        /\ t.r_W_precommitted = r
    BY <2>2, <2>3, <1>1 DEF Usable, PrecommittedState, Option
  <2>6. AuxLength(t, S) /\ AuxHoldsPrep(t, S) /\ SharedOpens(t)
    BY <2>5 DEF Usable, AuxLength, AuxHoldsPrep, SharedOpens
  <2>7. PrecommittedOpens(t, S)
    BY <2>1, <2>4, <2>5, <1>1 DEF PrecommittedOpens, Opens
  <2>8. QED
    BY <2>5, <2>6, <2>7 DEF Usable
<1>4. QED
  BY <1>2, <1>3

(* The core's own rerandomization. *)
LEMMA RerandomizeInPlaceUsable ==
  ASSUME pk \in Keys, NEW S \in SegmentShape, NEW s, Usable(s, S),
         NEW i \in Nat, NEW k \in Nat
  PROVE  /\ Usable(RerandomizeInPlace(s, i, k), S)
         /\ RerandomizeInPlace(s, i, k).W = s.W
<1> DEFINE r == Blind(k, "shared", i)
           t == IF s.comm_W_shared # None
                  THEN [s EXCEPT !.comm_W_shared =
                                   RerandomizeCommitment(@, s.r_W_shared, r),
                                 !.r_W_shared = r]
                  ELSE s
<1>1. r \in Atom
  BY BlindIsAtom
<1>2. Usable(t, S) /\ t.W = s.W
  <2>1. CASE s.comm_W_shared = None
    BY <2>1
  <2>2. CASE s.comm_W_shared # None
    <3>1. /\ pk.shared
          /\ s.comm_W_shared = Commit(s.W.shared, s.r_W_shared)
      BY <2>2 DEF Usable, SharedOpens, Opens
    <3> HIDE DEF r
    <3>a. RerandomizeCommitment(s.comm_W_shared, s.r_W_shared, r)
            = Commit(s.W.shared, r)
      BY <3>1, RerandomizeOpens
    <3>2. t = [s EXCEPT !.comm_W_shared = Commit(s.W.shared, r), !.r_W_shared = r]
      BY <2>2, <3>a, Zenon DEF t
    <3>3. Commit(s.W.shared, r) \in CommitmentTo(SharedValue)
      BY <1>1, CommitType DEF Usable, PrecommittedState
    <3>4. Commit(s.W.shared, r) # None
      BY <3>3, NoneAssumption
    <3>5. /\ t \in PrecommittedState
          /\ t.aux = s.aux /\ t.W = s.W
          /\ t.comm_W_precommitted = s.comm_W_precommitted
          /\ t.r_W_precommitted = s.r_W_precommitted
          /\ t.comm_W_shared = Commit(s.W.shared, r)
          /\ t.r_W_shared = r
      BY <3>2, <3>3, <1>1 DEF Usable, PrecommittedState, Option
    <3>6. AuxLength(t, S) /\ AuxHoldsPrep(t, S) /\ PrecommittedOpens(t, S)
      BY <3>5 DEF Usable, AuxLength, AuxHoldsPrep, PrecommittedOpens
    <3>7. SharedOpens(t)
      BY <3>1, <3>4, <3>5, <1>1 DEF SharedOpens, Opens
    <3>8. QED
      BY <3>5, <3>6, <3>7 DEF Usable
  <2>3. QED
    BY <2>1, <2>2
<1>3. RerandomizeInPlace(s, i, k) = RerandomizePrecommitted(t, i, k)
  BY DEF RerandomizeInPlace
<1> HIDE DEF t
<1>4. QED
  BY <1>2, <1>3, RerandomizePrecommittedUsable

(* A step that takes over the commitment and the blind of a core with the   *)
(* same shared content stays usable.                                        *)
LEMMA RerandomizeWithSharedUsable ==
  ASSUME pk \in Keys, NEW S \in SegmentShape, NEW s, Usable(s, S),
         NEW T \in SegmentShape, NEW core, Usable(core, T),
         s.W.shared = core.W.shared,
         NEW i \in Nat, NEW k \in Nat
  PROVE  LET t == RerandomizeWithSharedInPlace(s, core.comm_W_shared,
                                               core.r_W_shared, i, k)
         IN  /\ Usable(t, S)
             /\ t.comm_W_shared = core.comm_W_shared
             /\ t.r_W_shared = core.r_W_shared
             /\ t.W = s.W
<1> DEFINE u == [s EXCEPT !.comm_W_shared = core.comm_W_shared,
                          !.r_W_shared = core.r_W_shared]
<1>1. /\ u \in PrecommittedState
      /\ u.aux = s.aux /\ u.W = s.W
      /\ u.comm_W_precommitted = s.comm_W_precommitted
      /\ u.r_W_precommitted = s.r_W_precommitted
      /\ u.comm_W_shared = core.comm_W_shared
      /\ u.r_W_shared = core.r_W_shared
  BY DEF Usable, PrecommittedState
<1>2. AuxLength(u, S) /\ AuxHoldsPrep(u, S) /\ PrecommittedOpens(u, S)
  BY <1>1 DEF Usable, AuxLength, AuxHoldsPrep, PrecommittedOpens
<1>3. SharedOpens(u)
  BY <1>1 DEF Usable, SharedOpens
<1>4. Usable(u, S)
  BY <1>1, <1>2, <1>3 DEF Usable
<1>5. RerandomizeWithSharedInPlace(s, core.comm_W_shared, core.r_W_shared, i, k)
        = RerandomizePrecommitted(u, i, k)
  BY DEF RerandomizeWithSharedInPlace
<1> HIDE DEF u
<1>6. QED
  BY <1>1, <1>4, <1>5, RerandomizePrecommittedUsable

(* What prep_prove makes for a circuit is usable, and its shared part is    *)
(* the one made from the first step.                                        *)
LEMMA PrepUsable ==
  ASSUME pk \in Keys, NEW S \in SegmentShape, NEW c0 \in Circuit, NEW c \in Circuit,
         NEW i \in Nat, NEW k \in Nat
  PROVE  /\ Usable(PrecommittedWitness(SharedWitness(c0, k), S, c, i, k), S)
         /\ PrecommittedWitness(SharedWitness(c0, k), S, c, i, k).comm_W_shared
              = SharedWitness(c0, k).comm_W_shared
         /\ PrecommittedWitness(SharedWitness(c0, k), S, c, i, k).r_W_shared
              = SharedWitness(c0, k).r_W_shared
         /\ PrecommittedWitness(SharedWitness(c0, k), S, c, i, k).W.shared
              = SharedWitness(c0, k).W.shared
<1> DEFINE r0 == Blind(k, "shared", Core)
           r == Blind(k, "precommitted", i)
           v == IF pk.shared THEN c0.sh ELSE Zero
           s == SharedWitness(c0, k)
           t == PrecommittedWitness(s, S, c, i, k)
<1>1. r0 \in Atom /\ r \in Atom
  BY BlindIsAtom DEF Core
<1>2. /\ v \in SharedValue /\ c0.sh \in Shared
      /\ c.w \in Private /\ c.w \in PrecommittedValue
  BY DEF Circuit, SharedValue, PrecommittedValue
<1> HIDE DEF r0, r
<1>3. /\ Commit(v, r0) \in CommitmentTo(SharedValue)
      /\ Commit(c.w, r) \in CommitmentTo(PrecommittedValue)
  BY <1>1, <1>2, CommitType
<1>4. Commit(v, r0) # None /\ Commit(c.w, r) # None
  BY <1>3, NoneAssumption
<1>5. s = [aux |-> IF pk.shared THEN <<v>> ELSE <<>>,
           W |-> [shared |-> v, precommitted |-> Zero, rest |-> Zero],
           comm_W_shared |-> IF pk.shared THEN Commit(v, r0) ELSE None,
           r_W_shared |-> IF pk.shared THEN r0 ELSE None,
           comm_W_precommitted |-> None,
           r_W_precommitted |-> None]
  BY Zenon DEF SharedWitness, r0
<1> HIDE DEF s
<1>6. t = IF S.precommitted
            THEN [s EXCEPT !.aux = Append(@, c.w), !.W.precommitted = c.w,
                           !.comm_W_precommitted = Commit(c.w, r),
                           !.r_W_precommitted = r]
            ELSE s
  BY Zenon DEF PrecommittedWitness, r
<1>7. /\ s.aux \in Seq(AuxValue)
      /\ s.aux = IF pk.shared THEN <<c0.sh>> ELSE <<>>
      /\ Append(s.aux, c.w) \in Seq(AuxValue)
      /\ Len(s.aux) = IF pk.shared THEN 1 ELSE 0
      /\ pk.shared => s.aux[1] = c0.sh
      /\ Len(Append(s.aux, c.w)) = Len(s.aux) + 1
      /\ pk.shared => Append(s.aux, c.w)[1] = c0.sh
      /\ Append(s.aux, c.w)[Len(s.aux) + 1] = c.w
  <2>1. s.aux = IF pk.shared THEN <<c0.sh>> ELSE <<>>
    BY <1>5
  <2>2. c0.sh \in AuxValue /\ c.w \in AuxValue
    BY <1>2 DEF AuxValue
  <2>3. s.aux \in Seq(AuxValue)
    BY <2>1, <2>2
  <2>4. /\ Len(s.aux) = IF pk.shared THEN 1 ELSE 0
        /\ pk.shared => s.aux[1] = c0.sh
    BY <2>1
  <2>5. QED
    BY <2>1, <2>2, <2>3, <2>4
<1> HIDE DEF v, t
<1>8. /\ t.aux = IF S.precommitted THEN Append(s.aux, c.w) ELSE s.aux
      /\ t.W = [shared |-> v, precommitted |-> IF S.precommitted THEN c.w ELSE Zero,
                rest |-> Zero]
      /\ t.comm_W_shared = s.comm_W_shared
      /\ t.r_W_shared = s.r_W_shared
      /\ t.comm_W_precommitted = IF S.precommitted THEN Commit(c.w, r) ELSE None
      /\ t.r_W_precommitted = IF S.precommitted THEN r ELSE None
  BY <1>5, <1>6
<1>9. t \in PrecommittedState
  <2>1. t = [aux |-> t.aux, W |-> t.W, comm_W_shared |-> t.comm_W_shared,
             r_W_shared |-> t.r_W_shared,
             comm_W_precommitted |-> t.comm_W_precommitted,
             r_W_precommitted |-> t.r_W_precommitted]
    BY <1>5, <1>6
  <2>2. /\ t.aux \in Seq(AuxValue)
        /\ t.W \in [shared : SharedValue, precommitted : PrecommittedValue,
                    rest : {Zero}]
    BY <1>2, <1>7, <1>8 DEF PrecommittedValue
  <2>3. /\ t.comm_W_shared \in Option(CommitmentTo(SharedValue))
        /\ t.r_W_shared \in Option(Atom)
        /\ t.comm_W_precommitted \in Option(CommitmentTo(PrecommittedValue))
        /\ t.r_W_precommitted \in Option(Atom)
    BY <1>1, <1>3, <1>5, <1>8 DEF Option
  <2>4. QED
    BY <2>1, <2>2, <2>3 DEF PrecommittedState
<1>10. AuxLength(t, S) /\ AuxHoldsPrep(t, S)
  BY <1>7, <1>8 DEF AuxLength, AuxHoldsPrep, PrepAuxLen, v
<1>11. SharedOpens(t)
  BY <1>1, <1>4, <1>5, <1>8 DEF SharedOpens, Opens
<1>12. PrecommittedOpens(t, S)
  BY <1>1, <1>4, <1>8 DEF PrecommittedOpens, Opens
<1>13. Usable(t, S)
  BY <1>9, <1>10, <1>11, <1>12 DEF Usable
<1>14. QED
  BY <1>5, <1>8, <1>13 DEF s, t

(* Public values and challenges have the types the assignment needs. *)
LEMMA ChallengesType ==
  ASSUME pk \in Keys, NEW S \in SegmentShape, NEW s \in PrecommittedState,
         NEW c \in Circuit, NEW i \in Nat, NEW n \in Nat
  PROVE  Challenges(S, Domain(i, n), PublicValues(c), s.comm_W_shared,
                    s.comm_W_precommitted) \in Seq(Transcript)
<1>1. PublicValues(c) \in Seq(PublicValue)
  <2> DEFINE p == <<IF pk.shared THEN c.sh ELSE Zero, c.w>>
  <2>1. p \in DOMAIN Out
    BY ValuesAssumption DEF Circuit
  <2>2. Out[p] \in PublicValue
    BY <2>1 DEF PublicValue
  <2>3. QED
    BY <2>2 DEF PublicValues
<1>2. Domain(i, n) \in {<<"core">>} \cup ({"step"} \X Nat \X Nat)
  BY DEF Domain
<1>3. [domain |-> Domain(i, n), public_values |-> PublicValues(c),
       shared |-> s.comm_W_shared, precommitted |-> s.comm_W_precommitted]
        \in Transcript
  BY <1>1, <1>2 DEF Transcript, PrecommittedState
<1>4. QED
  BY <1>3 DEF Challenges

(* After r1cs_instance_and_witness the prepared state is as usable as       *)
(* before, with the same commitments, blinds and witness.                   *)
LEMMA BuildUsable ==
  ASSUME pk \in Keys, NEW S \in SegmentShape, NEW s, Usable(s, S),
         NEW c \in Circuit, NEW i \in Nat, NEW n \in Nat, NEW k \in Nat
  PROVE  /\ Usable(R1csInstanceAndWitness(s, S, c, i, n, k).ps, S)
         /\ R1csInstanceAndWitness(s, S, c, i, n, k).ps.comm_W_shared = s.comm_W_shared
         /\ R1csInstanceAndWitness(s, S, c, i, n, k).ps.r_W_shared = s.r_W_shared
         /\ R1csInstanceAndWitness(s, S, c, i, n, k).ps.W = s.W
<1> DEFINE chals == Challenges(S, Domain(i, n), PublicValues(c),
                               s.comm_W_shared, s.comm_W_precommitted)
           tail == IF S.rest THEN <<RestValue(c, chals)>> ELSE <<>>
           aux == IF ~S.rest /\ chals = <<>> THEN s.aux
                  ELSE SynthesizedAux(s, S, c, chals)
           t == R1csInstanceAndWitness(s, S, c, i, n, k).ps
           len == PrepAuxLen(S)
<1>1. chals \in Seq(Transcript)
  BY ChallengesType DEF Usable
<1>2. len \in 0 .. 2 /\ (pk.shared => len >= 1) /\ (S.precommitted => len >= 1)
  BY PrepAuxLenBound
<1>3. /\ s.aux \in Seq(AuxValue)
      /\ Len(s.aux) >= len
  BY <1>2 DEF Usable, PrecommittedState, AuxLength
<1>4. t = [s EXCEPT !.aux = aux, !.W = RepopulatedW(S, aux)]
  BY Zenon DEF R1csInstanceAndWitness
<1> HIDE DEF chals, len, t
<1>5. /\ tail \in Seq(AuxValue)
      /\ Len(tail) = IF S.rest THEN 1 ELSE 0
  <2>1. RestValue(c, chals) \in AuxValue
    BY <1>1 DEF RestValue, AuxValue, Circuit
  <2>2. QED
    BY <2>1
<1> HIDE DEF tail
<1>6. SynthesizedAux(s, S, c, chals) = SubSeq(s.aux, 1, len) \o tail
  BY DEF SynthesizedAux, tail, len
<1>7. /\ SubSeq(s.aux, 1, len) \in Seq(AuxValue)
      /\ Len(SubSeq(s.aux, 1, len)) = len
      /\ \A j \in 1 .. len : SubSeq(s.aux, 1, len)[j] = s.aux[j]
  BY <1>2, <1>3
<1>8. /\ aux \in Seq(AuxValue)
      /\ Len(aux) \in len .. len + (IF S.rest THEN 1 ELSE 0)
      /\ \A j \in 1 .. len : aux[j] = s.aux[j]
  <2>1. CASE ~S.rest /\ chals = <<>>
    BY <2>1, <1>2, <1>3 DEF Usable, AuxLength, len
  <2>2. CASE ~(~S.rest /\ chals = <<>>)
    BY <2>2, <1>2, <1>5, <1>6, <1>7
  <2>3. QED
    BY <2>1, <2>2
<1> HIDE DEF aux
<1>9. RepopulatedW(S, aux) = s.W
  <2>1. s.W \in [shared : SharedValue, precommitted : PrecommittedValue,
                 rest : {Zero}]
    BY DEF Usable, PrecommittedState
  <2>2. s.W = [shared |-> s.W.shared, precommitted |-> s.W.precommitted, rest |-> Zero]
    BY <2>1
  <2>3. (IF pk.shared THEN aux[1] ELSE Zero) = s.W.shared
    BY <1>2, <1>8 DEF Usable, AuxHoldsPrep
  <2>4. (IF S.precommitted THEN aux[PrepAuxLen(S)] ELSE Zero) = s.W.precommitted
    BY <1>2, <1>8 DEF Usable, AuxHoldsPrep, len
  <2>5. QED
    BY <2>2, <2>3, <2>4 DEF RepopulatedW
<1>10. /\ t \in PrecommittedState
       /\ t.aux = aux /\ t.W = s.W
       /\ t.comm_W_shared = s.comm_W_shared /\ t.r_W_shared = s.r_W_shared
       /\ t.comm_W_precommitted = s.comm_W_precommitted
       /\ t.r_W_precommitted = s.r_W_precommitted
  BY <1>4, <1>8, <1>9 DEF Usable, PrecommittedState
<1>11. AuxLength(t, S)
  BY <1>8, <1>10 DEF AuxLength, len
<1>12. AuxHoldsPrep(t, S)
  BY <1>2, <1>8, <1>10 DEF Usable, AuxHoldsPrep, len
<1>13. SharedOpens(t) /\ PrecommittedOpens(t, S)
  BY <1>10 DEF Usable, SharedOpens, PrecommittedOpens
<1>14. Usable(t, S)
  BY <1>10, <1>11, <1>12, <1>13 DEF Usable
<1>15. QED
  BY <1>10, <1>14 DEF t

-----------------------------------------------------------------------------
(* Facts about the constants. *)

LEMMA ShapeType ==
  ASSUME pk \in Keys, NEW i
  PROVE  ShapeAt(i) \in SegmentShape
BY KeysAssumption DEF ShapeAt

LEMMA BatchType ==
  ASSUME NEW batch \in Batches
  PROVE  /\ Indices(batch) \subseteq Nat
         /\ Core \in Indices(batch)
         /\ StepsOf(batch) = Indices(batch) \ {Core}
         /\ batch.steps[1] \in Circuit
         /\ \A i \in Indices(batch) : CircuitAt(batch, i) \in Circuit
         /\ Len(batch.steps) \in Nat
<1>1. batch.steps \in Seq(Circuit) /\ batch.steps # <<>> /\ batch.core \in Circuit
  BY BatchesAssumption
<1>2. Len(batch.steps) \in Nat /\ Len(batch.steps) >= 1
  BY <1>1
<1>3. QED
  BY <1>1, <1>2 DEF Indices, StepsOf, CircuitAt, Core

(* The invariant of one circuit's state only mentions the key through       *)
(* operators, so it carries over to the next state when the key does.       *)
LEMMA UsableNext ==
  ASSUME pk' = pk, \A i \in DOMAIN ps' : Usable(ps'[i], ShapeAt(i))
  PROVE  (\A i \in DOMAIN ps : Usable(ps[i], ShapeAt(i)))'
BY DEF Usable, AuxLength, AuxHoldsPrep, SharedOpens, PrecommittedOpens,
       PrepAuxLen, ShapeAt

(* What every step but setup has to show. *)
LEMMA AuxLengthNext ==
  ASSUME pk' = pk, \A i \in DOMAIN ps' : Usable(ps'[i], ShapeAt(i))
  PROVE  (\A i \in DOMAIN ps :
            Len(ps[i].aux) \in PrepAuxLen(ShapeAt(i)) ..
              PrepAuxLen(ShapeAt(i)) + (IF ShapeAt(i).rest THEN 1 ELSE 0))'
BY DEF Usable, AuxLength, PrepAuxLen, ShapeAt

-----------------------------------------------------------------------------
(* The invariant holds initially and every action preserves it *)

LEMMA InitInv == Init => SessionInv
<1> SUFFICES ASSUME Init PROVE SessionInv
  OBVIOUS
<1>1. TypeOK
  BY ValuesAssumption DEF Init, TypeOK, NoCall, Option
<1>2. QED
  BY <1>1 DEF Init, SessionInv, SharedCommitmentIsCommon

LEMMA SetupInv ==
  ASSUME SessionInv, NEW key \in Keys, Setup(key)
  PROVE  SessionInv'
<1>1. prepped = None /\ ps = <<>> /\ DOMAIN ps = {}
  BY DEF SessionInv, TypeOK, Setup
<1>2. TypeOK'
  BY <1>1 DEF SessionInv, TypeOK, Setup, Option
<1>3. QED
  BY <1>1, <1>2, NoneAssumption DEF SessionInv, Setup, SharedCommitmentIsCommon

LEMMA PrepProveInv ==
  ASSUME SessionInv, NEW batch \in Batches, PrepProve(batch)
  PROVE  SessionInv'
<1> DEFINE k == calls + 1
           shared == SharedWitness(batch.steps[1], k)
           state == [i \in Indices(batch) |->
                       PrecommittedWitness(shared, ShapeAt(i), CircuitAt(batch, i), i, k)]
<1>1. pk \in Keys /\ k \in 0 .. MaxCalls /\ batch # None
  BY ValuesAssumption, NoneAssumption DEF SessionInv, TypeOK, PrepProve, Option
<1>2. /\ ps' = state /\ prepped' = batch /\ phase' = "prepped"
      /\ pk' = pk /\ call' = call /\ inst' = inst /\ calls' = k
      /\ phase \in {"idle", "prepped"}
  BY DEF PrepProve
<1>3. \A i \in Indices(batch) :
        /\ Usable(state[i], ShapeAt(i))
        /\ state[i].comm_W_shared = shared.comm_W_shared
        /\ state[i].r_W_shared = shared.r_W_shared
        /\ state[i].W.shared = shared.W.shared
  <2> SUFFICES ASSUME NEW i \in Indices(batch)
               PROVE  /\ Usable(state[i], ShapeAt(i))
                      /\ state[i].comm_W_shared = shared.comm_W_shared
                      /\ state[i].r_W_shared = shared.r_W_shared
                      /\ state[i].W.shared = shared.W.shared
    OBVIOUS
  <2>1. i \in Nat /\ k \in Nat /\ CircuitAt(batch, i) \in Circuit
        /\ batch.steps[1] \in Circuit /\ ShapeAt(i) \in SegmentShape
    BY <1>1, BatchType, ShapeType, ValuesAssumption
  <2>2. state[i] = PrecommittedWitness(shared, ShapeAt(i), CircuitAt(batch, i), i, k)
    OBVIOUS
  <2> HIDE DEF state, k
  <2>3. QED
    BY <1>1, <2>1, <2>2, PrepUsable
<1>4. DOMAIN cache'.matvec = Indices(batch) \ {Core} \/ cache' = None
  BY BatchType DEF PrepProve
<1>5. DOMAIN state = Indices(batch) /\ Core \in Indices(batch)
  BY BatchType
<1> HIDE DEF state, shared, k
<1>6. state \in [Indices(batch) -> PrecommittedState]
  BY <1>3 DEF Usable, state
<1>7. call' = NoCall /\ inst' = <<>>
  BY <1>2 DEF SessionInv
<1>8. TypeOK' /\ SessionInv'
  <2>1. (\A i \in DOMAIN ps : Usable(ps[i], ShapeAt(i)))'
    BY <1>2, <1>3, <1>5, UsableNext
  <2>2. (\A i \in DOMAIN ps :
            Len(ps[i].aux) \in PrepAuxLen(ShapeAt(i)) ..
              PrepAuxLen(ShapeAt(i)) + (IF ShapeAt(i).rest THEN 1 ELSE 0))'
    BY <1>2, <1>3, <1>5, AuxLengthNext
  <2>3. call' \in [batch : Option(Batches), todo : SUBSET DOMAIN ps']
        /\ DOMAIN inst' \subseteq DOMAIN ps'
    BY <1>7 DEF NoCall, Option
  <2>4. TypeOK'
    BY <1>1, <1>2, <1>4, <1>5, <1>6, <2>2, <2>3 DEF TypeOK, SessionInv, Option
  <2>5. SharedCommitmentIsCommon'
    BY <1>2, <1>3, <1>5 DEF SharedCommitmentIsCommon
  <2>6. QED
    BY <1>1, <1>2, <1>3, <1>5, <1>7, <2>1, <2>4, <2>5, NoneAssumption DEF SessionInv
<1>9. QED
  BY <1>8

(* Facts about the state a prove starts from or works on. *)
LEMMA Prepared ==
  ASSUME SessionInv, phase \in {"prepped", "rerandomize", "build"}
  PROVE  /\ pk \in Keys
         /\ prepped \in Batches
         /\ ps \in [Indices(prepped) -> PrecommittedState]
         /\ Core \in DOMAIN ps /\ DOMAIN ps \subseteq Nat
         /\ \A i \in DOMAIN ps : /\ ShapeAt(i) \in SegmentShape
                                 /\ Usable(ps[i], ShapeAt(i))
                                 /\ ps[i].W.shared = ps[Core].W.shared
         /\ calls \in Nat
<1>1. pk \in Keys /\ prepped \in Batches
  BY DEF SessionInv, TypeOK, Option
<1>2. prepped # None
  BY <1>1, NoneAssumption
<1>3. ps \in [Indices(prepped) -> PrecommittedState]
  BY <1>2 DEF SessionInv, TypeOK
<1>4. Core \in DOMAIN ps /\ DOMAIN ps \subseteq Nat
  BY <1>1, <1>3, BatchType
<1>5. calls \in Nat
  BY ValuesAssumption DEF SessionInv, TypeOK
<1>6. QED
  BY <1>1, <1>3, <1>4, <1>5, ShapeType DEF SessionInv

(* Replacing the states by usable ones of the same circuits, shared content *)
(* included, keeps what SessionInv says of them.                            *)
LEMMA ReplaceStates ==
  ASSUME SessionInv, phase \in {"prepped", "rerandomize", "build"},
         pk' = pk, prepped' = prepped, cache' = cache,
         DOMAIN ps' = DOMAIN ps, ps' = [i \in DOMAIN ps' |-> ps'[i]],
         \A i \in DOMAIN ps : /\ Usable(ps'[i], ShapeAt(i))
                              /\ ps'[i].W = ps[i].W,
         phase' \in {"prepped", "rerandomize", "build"},
         call' \in [batch : Option(Batches), todo : SUBSET DOMAIN ps],
         DOMAIN inst' \subseteq DOMAIN ps,
         calls' \in 0 .. MaxCalls
  PROVE  /\ TypeOK'
         /\ (\A i \in DOMAIN ps : /\ Usable(ps[i], ShapeAt(i))
                                  /\ ps[i].W.shared = ps[Core].W.shared)'
<1>1. /\ pk \in Keys /\ prepped \in Batches /\ prepped # None
      /\ ps \in [Indices(prepped) -> PrecommittedState]
      /\ Core \in DOMAIN ps
  BY Prepared, NoneAssumption
<1>2. ps' \in [Indices(prepped) -> PrecommittedState]
  BY <1>1 DEF Usable
<1>3. (\A i \in DOMAIN ps : Usable(ps[i], ShapeAt(i)))'
  BY UsableNext
<1>4. (\A i \in DOMAIN ps :
         Len(ps[i].aux) \in PrepAuxLen(ShapeAt(i)) ..
           PrepAuxLen(ShapeAt(i)) + (IF ShapeAt(i).rest THEN 1 ELSE 0))'
  BY AuxLengthNext
<1>5. cache # None => DOMAIN cache.matvec = DOMAIN ps \ {Core}
  BY DEF SessionInv, TypeOK
<1>6. \A i \in DOMAIN ps' : ps'[i].W.shared = ps'[Core].W.shared
  BY <1>1, Prepared
<1>7. TypeOK'
  BY <1>1, <1>2, <1>4, <1>5 DEF TypeOK, Option
<1>8. QED
  BY <1>3, <1>6, <1>7

LEMMA ProveInv ==
  ASSUME SessionInv, NEW batch \in Batches, Prove(batch)
  PROVE  SessionInv'
<1> DEFINE t == RerandomizeInPlace(ps[Core], Core, calls + 1)
<1>1. /\ phase = "prepped" /\ phase' = "rerandomize"
      /\ ps' = [ps EXCEPT ![Core] = t]
      /\ call' = [batch |-> batch, todo |-> DOMAIN ps \ {Core}]
      /\ calls' = calls + 1 /\ calls < MaxCalls
      /\ pk' = pk /\ prepped' = prepped /\ cache' = cache /\ inst' = inst
  BY DEF Prove
<1>2. Usable(t, ShapeAt(Core)) /\ t.W = ps[Core].W
  BY <1>1, Prepared, RerandomizeInPlaceUsable DEF Core
<1> HIDE DEF t
<1>3. Core \in DOMAIN ps /\ prepped \in Batches
  BY <1>1, Prepared
<1>4. /\ DOMAIN ps' = DOMAIN ps
      /\ ps' = [i \in DOMAIN ps' |-> ps'[i]]
      /\ \A i \in DOMAIN ps : Usable(ps'[i], ShapeAt(i)) /\ ps'[i].W = ps[i].W
  BY <1>1, <1>2, <1>3, Prepared
<1>5. /\ call' \in [batch : Option(Batches), todo : SUBSET DOMAIN ps]
      /\ inst' = <<>> /\ DOMAIN inst' \subseteq DOMAIN ps
      /\ calls' \in 0 .. MaxCalls
  BY <1>1, ValuesAssumption DEF SessionInv, TypeOK, Option
<1>6. /\ TypeOK'
      /\ (\A i \in DOMAIN ps : /\ Usable(ps[i], ShapeAt(i))
                               /\ ps[i].W.shared = ps[Core].W.shared)'
  BY <1>1, <1>4, <1>5, ReplaceStates
<1>7. SharedCommitmentIsCommon'
  BY <1>1, <1>4 DEF SharedCommitmentIsCommon
<1>8. QED
  BY <1>1, <1>3, <1>5, <1>6, <1>7, NoneAssumption, Prepared DEF SessionInv

LEMMA RerandomizeStepInv ==
  ASSUME SessionInv, NEW i \in call.todo, RerandomizeStep(i)
  PROVE  SessionInv'
<1> DEFINE t == RerandomizeWithSharedInPlace(ps[i], ps[Core].comm_W_shared,
                                             ps[Core].r_W_shared, i, calls)
<1>1. /\ phase = "rerandomize" /\ phase' = phase
      /\ ps' = [ps EXCEPT ![i] = t]
      /\ call' = [call EXCEPT !.todo = @ \ {i}]
      /\ pk' = pk /\ prepped' = prepped /\ cache' = cache /\ inst' = inst
      /\ calls' = calls
  BY DEF RerandomizeStep
<1>2. i \in DOMAIN ps /\ i # Core /\ i \in Nat
  BY <1>1, Prepared DEF SessionInv, TypeOK
<1>3. /\ Usable(t, ShapeAt(i)) /\ t.W = ps[i].W
      /\ t.comm_W_shared = ps[Core].comm_W_shared
      /\ t.r_W_shared = ps[Core].r_W_shared
  <2>1. /\ pk \in Keys /\ calls \in Nat
        /\ ShapeAt(i) \in SegmentShape /\ Usable(ps[i], ShapeAt(i))
        /\ ShapeAt(Core) \in SegmentShape /\ Usable(ps[Core], ShapeAt(Core))
        /\ ps[i].W.shared = ps[Core].W.shared
    BY <1>1, <1>2, Prepared
  <2>2. QED
    BY <1>2, <2>1, RerandomizeWithSharedUsable
<1> HIDE DEF t
<1>4. /\ DOMAIN ps' = DOMAIN ps
      /\ ps' = [j \in DOMAIN ps' |-> ps'[j]]
      /\ \A j \in DOMAIN ps : Usable(ps'[j], ShapeAt(j)) /\ ps'[j].W = ps[j].W
  BY <1>1, <1>2, <1>3, Prepared
<1>5. /\ call' \in [batch : Option(Batches), todo : SUBSET DOMAIN ps]
      /\ call'.batch = call.batch
      /\ call'.todo = call.todo \ {i}
      /\ inst' = <<>> /\ DOMAIN inst' \subseteq DOMAIN ps
      /\ calls' \in 0 .. MaxCalls
  BY <1>1 DEF SessionInv, TypeOK
<1>6. /\ TypeOK'
      /\ (\A j \in DOMAIN ps : /\ Usable(ps[j], ShapeAt(j))
                               /\ ps[j].W.shared = ps[Core].W.shared)'
  BY <1>1, <1>4, <1>5, ReplaceStates
<1>7. SharedCommitmentIsCommon'
  <2> SUFFICES ASSUME NEW j \in DOMAIN ps' \ call'.todo
               PROVE  /\ ps'[j].comm_W_shared = ps'[Core].comm_W_shared
                      /\ ps'[j].r_W_shared = ps'[Core].r_W_shared
                      /\ ps'[j].W.shared = ps'[Core].W.shared
    BY <1>1 DEF SharedCommitmentIsCommon
  <2>1. ps'[Core] = ps[Core]
    BY <1>1, <1>2, Prepared
  <2>2. ps'[j].W.shared = ps'[Core].W.shared
    BY <1>6, <1>4
  <2>3. CASE j = i
    BY <2>1, <2>2, <2>3, <1>1, <1>2, <1>3
  <2>4. CASE j # i
    <3>1. ps'[j] = ps[j] /\ j \in DOMAIN ps \ call.todo
      BY <2>4, <1>1, <1>2, <1>4, <1>5
    <3>2. QED
      BY <3>1, <2>1, <2>2, <1>1 DEF SessionInv, SharedCommitmentIsCommon
  <2>5. QED
    BY <2>3, <2>4
<1>8. QED
  BY <1>1, <1>5, <1>6, <1>7, <1>4 DEF SessionInv

(* A prove that ends in an error leaves no prepared state behind. *)
LEMMA DropPrepInv ==
  ASSUME SessionInv, phase \in {"prepped", "rerandomize", "build"},
         DropPrep, pk' = pk, calls' = calls
  PROVE  SessionInv'
<1>1. /\ pk \in Keys /\ pk # None
  BY Prepared, NoneAssumption
<1>2. DOMAIN ps' = {}
  BY DEF DropPrep
<1>3. TypeOK'
  BY <1>1, <1>2 DEF DropPrep, SessionInv, TypeOK, NoCall, Option
<1>4. QED
  BY <1>1, <1>2, <1>3 DEF DropPrep, SessionInv, SharedCommitmentIsCommon

LEMMA CheckInputsInv ==
  ASSUME SessionInv, CheckInputs
  PROVE  SessionInv'
<1>1. phase = "rerandomize" /\ call.todo = {} /\ pk' = pk /\ calls' = calls
  BY DEF CheckInputs
<1>2. CASE DropPrep
  BY <1>1, <1>2, DropPrepInv
<1>3. CASE /\ InputsMatch
           /\ phase' = "build"
           /\ call' = [call EXCEPT !.todo = DOMAIN ps]
           /\ UNCHANGED <<prepped, ps, cache, inst>>
  <2>1. /\ call' \in [batch : Option(Batches), todo : SUBSET DOMAIN ps]
        /\ call'.batch = call.batch
        /\ calls' \in 0 .. MaxCalls
        /\ inst' = <<>> /\ DOMAIN inst' \subseteq DOMAIN ps
    BY <1>1, <1>3 DEF SessionInv, TypeOK
  <2>2. ps' = [i \in DOMAIN ps' |-> ps'[i]]
    BY <1>1, <1>3, Prepared
  <2>3. /\ TypeOK'
        /\ (\A i \in DOMAIN ps : /\ Usable(ps[i], ShapeAt(i))
                                 /\ ps[i].W.shared = ps[Core].W.shared)'
    BY <1>1, <1>3, <2>1, <2>2, Prepared, ReplaceStates
  <2>4. SharedCommitmentIsCommon'
    BY <1>1, <1>3 DEF SessionInv, SharedCommitmentIsCommon
  <2>5. DOMAIN ps' = Indices(call'.batch)
    BY <1>3, <2>1 DEF InputsMatch
  <2>6. QED
    BY <1>1, <1>3, <2>1, <2>3, <2>4, <2>5 DEF SessionInv
<1>4. QED
  BY <1>2, <1>3 DEF CheckInputs

LEMMA BuildInstanceInv ==
  ASSUME SessionInv, NEW i \in call.todo, BuildInstance(i)
  PROVE  SessionInv'
<1> DEFINE c == CircuitAt(call.batch, i)
           n == Len(call.batch.steps)
           t == R1csInstanceAndWitness(ps[i], ShapeAt(i), c, i, n, calls).ps
<1>1. /\ phase = "build" /\ phase' = phase
      /\ ps' = [ps EXCEPT ![i] = t]
      /\ call' = [call EXCEPT !.todo = @ \ {i}]
      /\ DOMAIN inst' = DOMAIN inst \cup {i}
      /\ pk' = pk /\ prepped' = prepped /\ cache' = cache /\ calls' = calls
  BY DEF BuildInstance
<1>2. /\ call.batch \in Batches /\ DOMAIN ps = Indices(call.batch)
      /\ i \in DOMAIN ps /\ DOMAIN inst \subseteq DOMAIN ps
  BY <1>1 DEF SessionInv, TypeOK
<1>3. c \in Circuit /\ n \in Nat /\ i \in Nat /\ calls \in Nat
  BY <1>1, <1>2, BatchType, Prepared
<1>4. /\ Usable(t, ShapeAt(i)) /\ t.W = ps[i].W
      /\ t.comm_W_shared = ps[i].comm_W_shared
      /\ t.r_W_shared = ps[i].r_W_shared
  <2> HIDE DEF c, n
  <2>1. QED
    BY <1>1, <1>2, <1>3, Prepared, BuildUsable
<1> HIDE DEF t, c, n
<1>5. /\ DOMAIN ps' = DOMAIN ps
      /\ ps' = [j \in DOMAIN ps' |-> ps'[j]]
      /\ \A j \in DOMAIN ps : /\ Usable(ps'[j], ShapeAt(j)) /\ ps'[j].W = ps[j].W
                              /\ ps'[j].comm_W_shared = ps[j].comm_W_shared
                              /\ ps'[j].r_W_shared = ps[j].r_W_shared
  BY <1>1, <1>2, <1>4, Prepared
<1>6. /\ call' \in [batch : Option(Batches), todo : SUBSET DOMAIN ps]
      /\ call'.batch = call.batch
      /\ DOMAIN inst' \subseteq DOMAIN ps
      /\ calls' \in 0 .. MaxCalls
  BY <1>1, <1>2 DEF SessionInv, TypeOK
<1>7. /\ TypeOK'
      /\ (\A j \in DOMAIN ps : /\ Usable(ps[j], ShapeAt(j))
                               /\ ps[j].W.shared = ps[Core].W.shared)'
  BY <1>1, <1>5, <1>6, ReplaceStates
<1>8. SharedCommitmentIsCommon'
  BY <1>1, <1>5, Prepared DEF SessionInv, SharedCommitmentIsCommon
<1>9. QED
  BY <1>1, <1>2, <1>5, <1>6, <1>7, <1>8 DEF SessionInv

LEMMA FinishProveInv ==
  ASSUME SessionInv, FinishProve
  PROVE  SessionInv'
<1>1. phase = "build" /\ pk' = pk /\ calls' = calls
  BY DEF FinishProve
<1>2. CASE DropPrep
  BY <1>1, <1>2, DropPrepInv
<1>3. CASE /\ phase' = "prepped" /\ call' = NoCall /\ inst' = <<>>
           /\ UNCHANGED <<prepped, ps, cache>>
  <2>1. /\ call' \in [batch : Option(Batches), todo : SUBSET DOMAIN ps]
        /\ calls' \in 0 .. MaxCalls
        /\ DOMAIN inst' \subseteq DOMAIN ps
    BY <1>1, <1>3 DEF SessionInv, TypeOK, NoCall, Option
  <2>2. ps' = [i \in DOMAIN ps' |-> ps'[i]]
    BY <1>1, <1>3, Prepared
  <2>3. /\ TypeOK'
        /\ (\A i \in DOMAIN ps : /\ Usable(ps[i], ShapeAt(i))
                                 /\ ps[i].W.shared = ps[Core].W.shared)'
    BY <1>1, <1>3, <2>1, <2>2, Prepared, ReplaceStates
  <2>4. SharedCommitmentIsCommon'
    BY <1>1, <1>3 DEF SessionInv, SharedCommitmentIsCommon
  <2>5. QED
    BY <1>1, <1>3, <2>3, <2>4, Prepared, NoneAssumption DEF SessionInv
<1>4. QED
  BY <1>2, <1>3 DEF FinishProve

LEMMA ProveFailsInv ==
  ASSUME SessionInv, ProveFails
  PROVE  SessionInv'
BY DropPrepInv DEF ProveFails

LEMMA StutterInv ==
  ASSUME SessionInv, UNCHANGED vars
  PROVE  SessionInv'
<1>1. /\ pk' = pk /\ phase' = phase /\ prepped' = prepped /\ ps' = ps
      /\ cache' = cache /\ call' = call /\ inst' = inst /\ calls' = calls
  BY DEF vars
<1>2. (\A i \in DOMAIN ps : Usable(ps[i], ShapeAt(i)))'
  BY <1>1, UsableNext DEF SessionInv
<1>3. (\A i \in DOMAIN ps :
         Len(ps[i].aux) \in PrepAuxLen(ShapeAt(i)) ..
           PrepAuxLen(ShapeAt(i)) + (IF ShapeAt(i).rest THEN 1 ELSE 0))'
  BY <1>1, AuxLengthNext DEF SessionInv
<1>4. TypeOK'
  BY <1>1, <1>3 DEF SessionInv, TypeOK
<1>5. SharedCommitmentIsCommon'
  BY <1>1 DEF SessionInv, SharedCommitmentIsCommon
<1>6. QED
  BY <1>1, <1>2, <1>4, <1>5 DEF SessionInv

LEMMA StepInv == SessionInv /\ [Next]_vars => SessionInv'
<1> SUFFICES ASSUME SessionInv, [Next]_vars PROVE SessionInv'
  OBVIOUS
<1>1. ASSUME NEW key \in Keys, Setup(key) PROVE SessionInv'
  BY <1>1, SetupInv
<1>2. ASSUME NEW batch \in Batches, PrepProve(batch) PROVE SessionInv'
  BY <1>2, PrepProveInv
<1>3. ASSUME NEW batch \in Batches, Prove(batch) PROVE SessionInv'
  BY <1>3, ProveInv
<1>4. ASSUME NEW i \in call.todo, RerandomizeStep(i) PROVE SessionInv'
  BY <1>4, RerandomizeStepInv
<1>5. CASE CheckInputs
  BY <1>5, CheckInputsInv
<1>6. ASSUME NEW i \in call.todo, BuildInstance(i) PROVE SessionInv'
  BY <1>6, BuildInstanceInv
<1>7. CASE FinishProve
  BY <1>7, FinishProveInv
<1>8. CASE ProveFails
  BY <1>8, ProveFailsInv
<1>9. CASE UNCHANGED vars
  BY <1>9, StutterInv
<1>10. QED
  BY <1>1, <1>2, <1>3, <1>4, <1>5, <1>6, <1>7, <1>8, <1>9 DEF Next

-----------------------------------------------------------------------------
(* Theorems *)

LEMMA InvariantHolds == Spec => []SessionInv
<1>1. QED
  BY InitInv, StepInv, PTL DEF Spec

(* Every reachable state is well formed, whatever the client calls: the     *)
(* assignment never grows beyond one rest segment, however many proves came *)
(* before, and W.rest is cleared between calls.                             *)
THEOREM TypeCorrect == Spec => []TypeOK
<1>1. SessionInv => TypeOK
  BY DEF SessionInv
<1>2. QED
  BY <1>1, InvariantHolds, PTL

(* Every stored commitment opens to the stored segment under the stored     *)
(* blind at every stage of every prove: rerandomize_in_place,               *)
(* rerandomize_with_shared_in_place and r1cs_instance_and_witness hand the  *)
(* next prove a state it can use.                                           *)
THEOREM CommitmentsOpen == Spec => []StoredCommitmentsOpen
<1>1. SessionInv => StoredCommitmentsOpen
  BY DEF SessionInv, StoredCommitmentsOpen, Usable, SharedOpens, PrecommittedOpens
<1>2. QED
  BY <1>1, InvariantHolds, PTL

(* Once the workers of the rerandomization are done, and until the next     *)
(* prove, all circuits carry the core's shared commitment, blind and        *)
(* content, in whatever order the workers ran.                              *)
THEOREM SharedIsCommon == Spec => []SharedCommitmentIsCommon
<1>1. SessionInv => SharedCommitmentIsCommon
  BY DEF SessionInv
<1>2. QED
  BY <1>1, InvariantHolds, PTL

-----------------------------------------------------------------------------
(* Proof that the proofs of McSession share no blind, for any keys,        *)
(* batches, values and number of calls.  Each proof belongs to one call of *)
(* prove, and every commitment it publishes carries one blind, drawn in    *)
(* that call for the place where the commitment is published.              *)

Carries(c, r) == c.plus = {r} /\ c.minus = {}

(* The state of circuit i has been rerandomized in the running prove. *)
Rerandomized(i) ==
  /\ pk.shared => ps[i].r_W_shared = Blind(calls, "shared", Core)
  /\ ShapeAt(i).precommitted => ps[i].r_W_precommitted = Blind(calls, "precommitted", i)

(* The commitments of the instance of circuit i that are its own were made  *)
(* in call k.                                                               *)
OwnCommitments(U, i, k) ==
  /\ U.comm_W_precommitted # None
       => Carries(U.comm_W_precommitted, Blind(k, "precommitted", i))
  /\ Carries(U.comm_W_rest, Blind(k, "rest", i))

SharedCommitment(c, k) == c # None => Carries(c, Blind(k, "shared", Core))

Built(i) ==
  /\ IsInstance(inst[i].U)
  /\ SharedCommitment(inst[i].U.comm_W_shared, calls)
  /\ OwnCommitments(inst[i].U, i, calls)

(* proof was made in call k. *)
MadeIn(proof, k) ==
  /\ SharedCommitment(proof.comm_W_shared, k)
  /\ OwnCommitments(proof.core_instance, Core, k)
  /\ \A i \in DOMAIN proof.step_instances :
       /\ i \in Nat /\ i # Core
       /\ OwnCommitments(proof.step_instances[i], i, k)

Proving == phase \in {"rerandomize", "build"}

(* The inductive invariant: what the running prove has drawn, and that no   *)
(* proof made so far belongs to it.                                         *)
BlindInv ==
  /\ phase = "rerandomize" => \A i \in DOMAIN ps \ call.todo : Rerandomized(i)
  /\ phase = "build" =>
       /\ \A i \in DOMAIN ps : Rerandomized(i)
       /\ DOMAIN inst = DOMAIN ps \ call.todo
       /\ \A i \in DOMAIN inst : Built(i)
  /\ \A p \in proofs :
       \E k \in Nat : MadeIn(p.proof, k) /\ k <= calls /\ (Proving => k < calls)
  /\ \A p, q \in proofs : \A k \in Nat :
       MadeIn(p.proof, k) /\ MadeIn(q.proof, k) => p = q

-----------------------------------------------------------------------------
(* A blind names its call, segment and circuit. *)
LEMMA BlindInjective ==
  ASSUME NEW k, NEW l, NEW g, NEW h, NEW i, NEW j, Blind(k, g, i) = Blind(l, h, j)
  PROVE  k = l /\ g = h /\ i = j
<1>1. /\ Blind(k, g, i).k = k /\ Blind(k, g, i).segment = g /\ Blind(k, g, i).who = i
      /\ Blind(l, h, j).k = l /\ Blind(l, h, j).segment = h /\ Blind(l, h, j).who = j
  BY DEF Blind
<1>2. QED
  BY <1>1

LEMMA CommitCarries ==
  ASSUME NEW v, NEW r
  PROVE  Carries(Commit(v, r), r)
BY DEF Carries, Commit

(* The call a proof was made in is determined by the proof. *)
LEMMA CallIsUnique ==
  ASSUME NEW proof, NEW k, NEW l, MadeIn(proof, k), MadeIn(proof, l)
  PROVE  k = l
<1>1. {Blind(k, "rest", Core)} = {Blind(l, "rest", Core)}
  BY DEF MadeIn, OwnCommitments, Carries
<1>2. Blind(k, "rest", Core) = Blind(l, "rest", Core)
  BY <1>1
<1>3. QED
  BY <1>2, BlindInjective

(* rerandomize_in_place and rerandomize_with_shared_in_place leave the      *)
(* blinds of this call.                                                     *)
LEMMA PrecommittedBlind ==
  ASSUME NEW S, NEW s, Usable(s, S), NEW i, NEW k
  PROVE  /\ RerandomizePrecommitted(s, i, k).r_W_shared = s.r_W_shared
         /\ S.precommitted =>
              RerandomizePrecommitted(s, i, k).r_W_precommitted = Blind(k, "precommitted", i)
<1>1. /\ s \in PrecommittedState
      /\ S.precommitted => s.comm_W_precommitted # None
  BY DEF Usable, PrecommittedOpens
<1> DEFINE r == Blind(k, "precommitted", i)
           c == RerandomizeCommitment(s.comm_W_precommitted, s.r_W_precommitted, r)
<1>2. RerandomizePrecommitted(s, i, k) =
        IF s.comm_W_precommitted # None
          THEN [s EXCEPT !.comm_W_precommitted = c, !.r_W_precommitted = r] ELSE s
  BY Zenon DEF RerandomizePrecommitted
<1> HIDE DEF r, c
<1>3. /\ RerandomizePrecommitted(s, i, k).r_W_shared = s.r_W_shared
      /\ S.precommitted => RerandomizePrecommitted(s, i, k).r_W_precommitted = r
  BY <1>1, <1>2 DEF PrecommittedState
<1>4. QED
  BY <1>3 DEF r

LEMMA CoreBlinds ==
  ASSUME pk \in Keys, NEW S \in SegmentShape, NEW s, Usable(s, S), NEW i \in Nat, NEW k \in Nat
  PROVE  /\ pk.shared => RerandomizeInPlace(s, i, k).r_W_shared = Blind(k, "shared", i)
         /\ S.precommitted =>
              RerandomizeInPlace(s, i, k).r_W_precommitted = Blind(k, "precommitted", i)
<1> DEFINE r == Blind(k, "shared", i)
           c == RerandomizeCommitment(s.comm_W_shared, s.r_W_shared, r)
           t == IF s.comm_W_shared # None
                  THEN [s EXCEPT !.comm_W_shared = c, !.r_W_shared = r] ELSE s
<1>1. RerandomizeInPlace(s, i, k) = RerandomizePrecommitted(t, i, k)
  BY DEF RerandomizeInPlace
<1>2. /\ s \in PrecommittedState
      /\ pk.shared => s.comm_W_shared # None
      /\ S.precommitted => s.comm_W_precommitted # None
  BY DEF Usable, SharedOpens, PrecommittedOpens
<1>3. /\ pk.shared => t.r_W_shared = r
      /\ t \in [aux : {s.aux}, W : {s.W}, comm_W_shared : {s.comm_W_shared, c},
                r_W_shared : {s.r_W_shared, r},
                comm_W_precommitted : {s.comm_W_precommitted},
                r_W_precommitted : {s.r_W_precommitted}]
  <2> HIDE DEF r, c
  <2>1. QED
    BY <1>2 DEF PrecommittedState, t
<1> HIDE DEF t
<1> DEFINE q == Blind(k, "precommitted", i)
           d == RerandomizeCommitment(t.comm_W_precommitted, t.r_W_precommitted, q)
<1>4. RerandomizePrecommitted(t, i, k) =
        IF t.comm_W_precommitted # None
          THEN [t EXCEPT !.comm_W_precommitted = d, !.r_W_precommitted = q] ELSE t
  BY Zenon DEF RerandomizePrecommitted
<1> HIDE DEF q, d, r, c
<1>5. /\ pk.shared => RerandomizePrecommitted(t, i, k).r_W_shared = r
      /\ S.precommitted => RerandomizePrecommitted(t, i, k).r_W_precommitted = q
  BY <1>2, <1>3, <1>4
<1>6. QED
  BY <1>1, <1>5 DEF r, q

LEMMA StepBlinds ==
  ASSUME NEW S, NEW s, Usable(s, S), NEW comm, NEW r, NEW i, NEW k
  PROVE  /\ RerandomizeWithSharedInPlace(s, comm, r, i, k).r_W_shared = r
         /\ S.precommitted => RerandomizeWithSharedInPlace(s, comm, r, i, k).r_W_precommitted
                                = Blind(k, "precommitted", i)
<1> DEFINE t == [s EXCEPT !.comm_W_shared = comm, !.r_W_shared = r]
           q == Blind(k, "precommitted", i)
           d == RerandomizeCommitment(t.comm_W_precommitted, t.r_W_precommitted, q)
<1>1. /\ s \in PrecommittedState
      /\ S.precommitted => s.comm_W_precommitted # None
  BY DEF Usable, PrecommittedOpens
<1>2. RerandomizeWithSharedInPlace(s, comm, r, i, k) =
        IF t.comm_W_precommitted # None
          THEN [t EXCEPT !.comm_W_precommitted = d, !.r_W_precommitted = q] ELSE t
  BY Zenon DEF RerandomizeWithSharedInPlace, RerandomizePrecommitted
<1>3. /\ t.r_W_shared = r /\ t.comm_W_precommitted = s.comm_W_precommitted
      /\ DOMAIN t = {"aux", "W", "comm_W_shared", "r_W_shared",
                     "comm_W_precommitted", "r_W_precommitted"}
  BY <1>1 DEF PrecommittedState
<1> HIDE DEF t, q, d
<1>4. QED
  BY <1>1, <1>2, <1>3 DEF q

(* r1cs_instance_and_witness publishes the commitments of the prepared      *)
(* state and a fresh one to the rest, and leaves the blinds alone.          *)
LEMMA BuildCommitments ==
  ASSUME NEW S, NEW s \in PrecommittedState, NEW c, NEW i, NEW n, NEW k
  PROVE  /\ R1csInstanceAndWitness(s, S, c, i, n, k).ps.r_W_shared = s.r_W_shared
         /\ R1csInstanceAndWitness(s, S, c, i, n, k).ps.r_W_precommitted = s.r_W_precommitted
         /\ IsInstance(R1csInstanceAndWitness(s, S, c, i, n, k).U)
         /\ R1csInstanceAndWitness(s, S, c, i, n, k).U.comm_W_shared = s.comm_W_shared
         /\ R1csInstanceAndWitness(s, S, c, i, n, k).U.comm_W_precommitted
              = s.comm_W_precommitted
         /\ Carries(R1csInstanceAndWitness(s, S, c, i, n, k).U.comm_W_rest,
                    Blind(k, "rest", i))
<1> DEFINE chals == Challenges(S, Domain(i, n), PublicValues(c),
                               s.comm_W_shared, s.comm_W_precommitted)
           skip == ~S.rest /\ chals = <<>>
           aux == IF skip THEN s.aux ELSE SynthesizedAux(s, S, c, chals)
           W == IF S.rest THEN [s.W EXCEPT !.rest = aux[PrepAuxLen(S) + 1]] ELSE s.W
           V == RepopulatedW(S, aux)
           comm == Commit(W.rest, Blind(k, "rest", i))
           values == IF skip THEN PublicValues(c) ELSE SubSeq(Inputize(c, chals), 1, 1)
           b == R1csInstanceAndWitness(s, S, c, i, n, k)
<1>1. /\ b.ps = [s EXCEPT !.aux = aux, !.W = V]
      /\ b.U = [comm_W_shared |-> s.comm_W_shared,
                comm_W_precommitted |-> s.comm_W_precommitted,
                comm_W_rest |-> comm, public_values |-> values, challenges |-> chals]
  BY Zenon DEF R1csInstanceAndWitness
<1>2. Carries(comm, Blind(k, "rest", i))
  BY CommitCarries
<1> HIDE DEF chals, aux, V, comm, values, b
<1>3. /\ b.ps.r_W_shared = s.r_W_shared
      /\ b.ps.r_W_precommitted = s.r_W_precommitted
  BY <1>1 DEF PrecommittedState
<1>4. /\ IsInstance(b.U)
      /\ b.U.comm_W_shared = s.comm_W_shared
      /\ b.U.comm_W_precommitted = s.comm_W_precommitted
      /\ b.U.comm_W_rest = comm
  BY <1>1 DEF IsInstance
<1>5. QED
  BY <1>2, <1>3, <1>4 DEF b

(* A rerandomized state whose commitments open carries blinds of this call. *)
LEMMA RerandomizedCarries ==
  ASSUME NEW i, Usable(ps[i], ShapeAt(i)), Rerandomized(i)
  PROVE  /\ SharedCommitment(ps[i].comm_W_shared, calls)
         /\ ps[i].comm_W_precommitted # None
              => Carries(ps[i].comm_W_precommitted, Blind(calls, "precommitted", i))
<1>1. ps[i].comm_W_shared # None
        => ps[i].comm_W_shared = Commit(ps[i].W.shared, Blind(calls, "shared", Core))
  BY DEF Usable, SharedOpens, Opens, Rerandomized
<1>2. ps[i].comm_W_precommitted # None
        => ps[i].comm_W_precommitted
             = Commit(ps[i].W.precommitted, Blind(calls, "precommitted", i))
  BY DEF Usable, PrecommittedOpens, Opens, Rerandomized
<1>3. QED
  BY <1>1, <1>2, CommitCarries DEF SharedCommitment

-----------------------------------------------------------------------------
(* Proofs keep their call while calls go on. *)

ProofsInv ==
  /\ \A p \in proofs :
       \E k \in Nat : MadeIn(p.proof, k) /\ k <= calls /\ (Proving => k < calls)
  /\ \A p, q \in proofs : \A k \in Nat :
       MadeIn(p.proof, k) /\ MadeIn(q.proof, k) => p = q

(* A step that returns no proof keeps ProofsInv, if the calls do not go     *)
(* back and a prove that starts is a new call.                              *)
LEMMA ProofsKept ==
  ASSUME BlindInv, proofs' = proofs, calls \in Nat, calls' \in Nat,
         \/ calls' = calls /\ (Proving' => Proving)
         \/ calls' > calls
  PROVE  ProofsInv'
<1>1. \A p \in proofs' :
        \E k \in Nat : MadeIn(p.proof, k) /\ k <= calls' /\ (Proving' => k < calls')
  <2> SUFFICES ASSUME NEW p \in proofs
               PROVE  \E k \in Nat : MadeIn(p.proof, k) /\ k <= calls' /\ (Proving' => k < calls')
    OBVIOUS
  <2>1. PICK k \in Nat : MadeIn(p.proof, k) /\ k <= calls /\ (Proving => k < calls)
    BY DEF BlindInv
  <2>2. k <= calls' /\ (Proving' => k < calls')
    BY <2>1
  <2>3. QED
    BY <2>1, <2>2
<1>2. QED
  BY <1>1 DEF BlindInv, ProofsInv

(* A step between proves, with nothing drawn yet. *)
LEMMA OutsideProve ==
  ASSUME ProofsInv', ~Proving'
  PROVE  BlindInv'
BY DEF BlindInv, ProofsInv, Proving

LEMMA CallsInNat ==
  ASSUME SessionInv
  PROVE  calls \in Nat
BY ValuesAssumption DEF SessionInv, TypeOK

LEMMA InitBlind == Init => BlindInv
BY DEF Init, BlindInv

LEMMA SetupBlind ==
  ASSUME SessionInv, BlindInv, NEW key \in Keys, Setup(key)
  PROVE  BlindInv'
<1>1. proofs' = proofs /\ calls' = calls /\ ~Proving'
  BY DEF Setup, Proving
<1>2. QED
  BY <1>1, CallsInNat, ProofsKept, OutsideProve

LEMMA PrepProveBlind ==
  ASSUME SessionInv, BlindInv, NEW batch \in Batches, PrepProve(batch)
  PROVE  BlindInv'
<1>1. proofs' = proofs /\ calls' = calls + 1 /\ ~Proving'
  BY DEF PrepProve, Proving
<1>2. calls \in Nat /\ calls' \in Nat /\ calls' > calls
  BY <1>1, CallsInNat
<1>3. QED
  BY <1>1, <1>2, ProofsKept, OutsideProve

LEMMA ProveBlind ==
  ASSUME SessionInv, BlindInv, NEW batch \in Batches, Prove(batch)
  PROVE  BlindInv'
<1> DEFINE t == RerandomizeInPlace(ps[Core], Core, calls + 1)
<1>1. /\ phase = "prepped" /\ phase' = "rerandomize"
      /\ ps' = [ps EXCEPT ![Core] = t]
      /\ call'.todo = DOMAIN ps \ {Core}
      /\ calls' = calls + 1 /\ pk' = pk /\ proofs' = proofs
  BY DEF Prove
<1>2. calls \in Nat /\ calls' \in Nat /\ calls' > calls
  BY <1>1, CallsInNat
<1>3. ProofsInv'
  BY <1>1, <1>2, ProofsKept
<1>4. /\ pk \in Keys /\ Core \in DOMAIN ps
      /\ ShapeAt(Core) \in SegmentShape /\ Usable(ps[Core], ShapeAt(Core))
  BY <1>1, Prepared
<1>5. /\ pk.shared => t.r_W_shared = Blind(calls + 1, "shared", Core)
      /\ ShapeAt(Core).precommitted
           => t.r_W_precommitted = Blind(calls + 1, "precommitted", Core)
  BY <1>2, <1>4, CoreBlinds DEF Core
<1> HIDE DEF t
<1>6. ps'[Core] = t /\ DOMAIN ps' \ call'.todo = {Core}
  BY <1>1, <1>4
<1>7. Rerandomized(Core)'
  BY <1>1, <1>5, <1>6 DEF Rerandomized, ShapeAt
<1>8. \A i \in DOMAIN ps' \ call'.todo : Rerandomized(i)'
  BY <1>6, <1>7 DEF Core
<1>9. QED
  BY <1>1, <1>3, <1>8 DEF BlindInv, ProofsInv

LEMMA RerandomizeStepBlind ==
  ASSUME SessionInv, BlindInv, NEW i \in call.todo, RerandomizeStep(i)
  PROVE  BlindInv'
<1> DEFINE t == RerandomizeWithSharedInPlace(ps[i], ps[Core].comm_W_shared,
                                             ps[Core].r_W_shared, i, calls)
<1>1. /\ phase = "rerandomize" /\ phase' = phase
      /\ ps' = [ps EXCEPT ![i] = t]
      /\ call' = [call EXCEPT !.todo = @ \ {i}]
      /\ calls' = calls /\ pk' = pk /\ proofs' = proofs
  BY DEF RerandomizeStep
<1>2. /\ i \in DOMAIN ps /\ i # Core /\ Core \in DOMAIN ps \ call.todo
      /\ call'.todo = call.todo \ {i}
  BY <1>1, Prepared DEF SessionInv, TypeOK
<1>3. ProofsInv'
  BY <1>1, CallsInNat, ProofsKept DEF Proving
<1>4. Rerandomized(Core)
  BY <1>1, <1>2 DEF BlindInv
<1>5. /\ t.r_W_shared = ps[Core].r_W_shared
      /\ ShapeAt(i).precommitted => t.r_W_precommitted = Blind(calls, "precommitted", i)
  <2>1. Usable(ps[i], ShapeAt(i))
    BY <1>1, <1>2, Prepared
  <2>2. QED
    BY <2>1, StepBlinds
<1> HIDE DEF t
<1>6. \A j \in DOMAIN ps' \ call'.todo : Rerandomized(j)'
  <2> SUFFICES ASSUME NEW j \in DOMAIN ps' \ call'.todo
               PROVE  /\ pk'.shared => ps'[j].r_W_shared = Blind(calls', "shared", Core)
                      /\ ShapeAt(j)'.precommitted
                           => ps'[j].r_W_precommitted = Blind(calls', "precommitted", j)
    BY DEF Rerandomized, Core
  <2>1. ShapeAt(j)' = ShapeAt(j)
    BY <1>1 DEF ShapeAt
  <2>2. CASE j = i
    BY <2>1, <2>2, <1>1, <1>2, <1>4, <1>5 DEF Rerandomized
  <2>3. CASE j # i
    <3>1. ps'[j] = ps[j] /\ j \in DOMAIN ps \ call.todo
      BY <2>3, <1>1, <1>2
    <3>2. Rerandomized(j)
      BY <3>1, <1>1 DEF BlindInv
    <3>3. QED
      BY <2>1, <3>1, <3>2, <1>1 DEF Rerandomized
  <2>4. QED
    BY <2>2, <2>3
<1>7. QED
  BY <1>1, <1>3, <1>6 DEF BlindInv, ProofsInv

LEMMA DropPrepBlind ==
  ASSUME SessionInv, BlindInv, DropPrep, calls' = calls, proofs' = proofs
  PROVE  BlindInv'
<1>1. ~Proving'
  BY DEF DropPrep, Proving
<1>2. QED
  BY <1>1, CallsInNat, ProofsKept, OutsideProve

LEMMA CheckInputsBlind ==
  ASSUME SessionInv, BlindInv, CheckInputs
  PROVE  BlindInv'
<1>1. /\ phase = "rerandomize" /\ call.todo = {}
      /\ pk' = pk /\ calls' = calls /\ proofs' = proofs
  BY DEF CheckInputs
<1>2. CASE DropPrep
  BY <1>1, <1>2, DropPrepBlind
<1>3. CASE /\ InputsMatch
           /\ phase' = "build"
           /\ call' = [call EXCEPT !.todo = DOMAIN ps]
           /\ UNCHANGED <<prepped, ps, cache, inst>>
  <2>1. ProofsInv'
    BY <1>1, CallsInNat, ProofsKept DEF Proving
  <2>2. call'.todo = DOMAIN ps /\ inst' = <<>>
    BY <1>1, <1>3 DEF SessionInv, TypeOK
  <2>3. \A i \in DOMAIN ps' : Rerandomized(i)'
    BY <1>1, <1>3 DEF BlindInv, Rerandomized, ShapeAt
  <2>4. DOMAIN inst' = DOMAIN ps' \ call'.todo /\ DOMAIN inst' = {}
    BY <2>2, <1>3
  <2>5. QED
    BY <1>3, <2>1, <2>3, <2>4 DEF BlindInv, ProofsInv
<1>4. QED
  BY <1>2, <1>3 DEF CheckInputs

LEMMA BuildInstanceBlind ==
  ASSUME SessionInv, BlindInv, NEW i \in call.todo, BuildInstance(i)
  PROVE  BlindInv'
<1> DEFINE c == CircuitAt(call.batch, i)
           n == Len(call.batch.steps)
           b == R1csInstanceAndWitness(ps[i], ShapeAt(i), c, i, n, calls)
           e == [U |-> b.U, W |-> b.W, r_W |-> b.r_W]
<1>1. /\ phase = "build" /\ phase' = phase
      /\ ps' = [ps EXCEPT ![i] = b.ps]
      /\ inst' = [j \in DOMAIN inst \cup {i} |-> IF j = i THEN e ELSE inst[j]]
      /\ call' = [call EXCEPT !.todo = @ \ {i}]
      /\ calls' = calls /\ pk' = pk /\ proofs' = proofs
  BY DEF BuildInstance
<1>2. /\ i \in DOMAIN ps /\ call'.todo = call.todo \ {i}
      /\ ps[i] \in PrecommittedState /\ Usable(ps[i], ShapeAt(i))
      /\ Rerandomized(i)
      /\ call.todo \subseteq DOMAIN ps
  BY <1>1, Prepared DEF SessionInv, TypeOK, BlindInv
<1>3. ProofsInv'
  BY <1>1, CallsInNat, ProofsKept DEF Proving
<1>4. /\ b.ps.r_W_shared = ps[i].r_W_shared
      /\ b.ps.r_W_precommitted = ps[i].r_W_precommitted
      /\ IsInstance(b.U)
      /\ b.U.comm_W_shared = ps[i].comm_W_shared
      /\ b.U.comm_W_precommitted = ps[i].comm_W_precommitted
      /\ Carries(b.U.comm_W_rest, Blind(calls, "rest", i))
  <2> HIDE DEF c, n
  <2>1. QED
    BY <1>2, BuildCommitments
<1>5. e.U = b.U
  OBVIOUS
<1> HIDE DEF c, n, b, e
<1>6. \A j \in DOMAIN ps' : Rerandomized(j)'
  <2> SUFFICES ASSUME NEW j \in DOMAIN ps
               PROVE  /\ ps'[j].r_W_shared = ps[j].r_W_shared
                      /\ ps'[j].r_W_precommitted = ps[j].r_W_precommitted
    BY <1>1 DEF BlindInv, Rerandomized, ShapeAt
  <2>1. QED
    BY <1>1, <1>2, <1>4
<1>7. DOMAIN inst' = DOMAIN ps' \ call'.todo
  BY <1>1, <1>2 DEF BlindInv
<1>8. \A j \in DOMAIN inst' : Built(j)'
  <2> SUFFICES ASSUME NEW j \in DOMAIN inst'
               PROVE  /\ IsInstance(inst'[j].U)
                      /\ SharedCommitment(inst'[j].U.comm_W_shared, calls)
                      /\ OwnCommitments(inst'[j].U, j, calls)
    BY ZenonT(60), <1>1 DEF Built, SharedCommitment, OwnCommitments, IsInstance, Carries
  <2>1. CASE j = i
    <3>1. inst'[j].U = b.U
      BY <1>1, <1>5, <2>1
    <3>2. QED
      BY <2>1, <3>1, <1>2, <1>4, RerandomizedCarries DEF OwnCommitments
  <2>2. CASE j # i
    BY <2>2, <1>1 DEF BlindInv, Built
  <2>3. QED
    BY <2>1, <2>2
<1>9. QED
  BY <1>1, <1>3, <1>6, <1>7, <1>8 DEF BlindInv, ProofsInv

(* What FinishProve assembles from the instances belongs to this call. *)
LEMMA MadeInThisCall ==
  ASSUME NEW n \in Nat, n >= 1, DOMAIN inst = 0 .. n, \A i \in DOMAIN inst : Built(i)
  PROVE  MadeIn(MakeProof(inst, n), calls)
<1> DEFINE strip(U) == [U EXCEPT !.comm_W_shared = None]
           steps == [i \in 1 .. n |-> inst[i].U]
           proof == MakeProof(inst, n)
<1>1. /\ proof.comm_W_shared = inst[1].U.comm_W_shared
      /\ proof.step_instances = [i \in 1 .. n |-> strip(inst[i].U)]
      /\ proof.core_instance = strip(inst[Core].U)
  <2>1. /\ proof.comm_W_shared = steps[1].comm_W_shared
        /\ proof.step_instances = [i \in 1 .. n |-> strip(steps[i])]
        /\ proof.core_instance = strip(inst[Core].U)
    BY Zenon DEF MakeProof
  <2>2. \A i \in 1 .. n : steps[i] = inst[i].U
    OBVIOUS
  <2>3. 1 \in 1 .. n
    OBVIOUS
  <2> HIDE DEF steps, proof
  <2>4. QED
    BY <2>1, <2>2, <2>3
<1>2. \A i \in 0 .. n : OwnCommitments(strip(inst[i].U), i, calls)
  <2> SUFFICES ASSUME NEW i \in 0 .. n PROVE OwnCommitments(strip(inst[i].U), i, calls)
    OBVIOUS
  <2>1. IsInstance(inst[i].U) /\ OwnCommitments(inst[i].U, i, calls)
    BY DEF Built
  <2>2. /\ strip(inst[i].U).comm_W_precommitted = inst[i].U.comm_W_precommitted
        /\ strip(inst[i].U).comm_W_rest = inst[i].U.comm_W_rest
    BY <2>1 DEF IsInstance
  <2>3. QED
    BY <2>1, <2>2 DEF OwnCommitments
<1>3. SharedCommitment(inst[1].U.comm_W_shared, calls)
  BY DEF Built
<1> HIDE DEF proof, strip
<1>4. /\ DOMAIN proof.step_instances = 1 .. n
      /\ \A i \in 1 .. n : proof.step_instances[i] = strip(inst[i].U)
  BY <1>1
<1>5. MadeIn(proof, calls)
  BY <1>1, <1>2, <1>3, <1>4 DEF MadeIn, Core
<1>6. QED
  BY <1>5 DEF proof

LEMMA FinishProveBlind ==
  ASSUME SessionInv, BlindInv, FinishProve
  PROVE  BlindInv'
<1> DEFINE n == Len(call.batch.steps)
           new == [proof |-> MakeProof(inst, n), batch |-> call.batch, prepped |-> prepped]
<1>1. phase = "build" /\ call.todo = {} /\ calls' = calls
  BY DEF FinishProve
<1>2. CASE DropPrep /\ UNCHANGED proofs
  BY <1>1, <1>2, DropPrepBlind
<1>3. CASE proofs' = proofs \cup {new} /\ phase' = "prepped"
  <2>1. call.batch \in Batches /\ DOMAIN inst = Indices(call.batch)
    BY <1>1 DEF SessionInv, BlindInv
  <2>2. n \in Nat /\ n >= 1 /\ DOMAIN inst = 0 .. n
    <3>1. call.batch.steps \in Seq(Circuit) /\ call.batch.steps # <<>>
      BY <2>1, BatchesAssumption
    <3>2. n \in Nat /\ n >= 1
      BY <3>1
    <3>3. Indices(call.batch) = {0} \cup 1 .. n
      BY DEF Indices, StepsOf, Core
    <3>4. QED
      BY <2>1, <3>2, <3>3
  <2>3. MadeIn(MakeProof(inst, n), calls)
    <3> HIDE DEF n
    <3>1. QED
      BY <2>2, <1>1, MadeInThisCall DEF BlindInv
  <2>4. new.proof = MakeProof(inst, n)
    OBVIOUS
  <2>5. calls \in Nat
    BY CallsInNat
  <2> HIDE DEF n, new
  <2>6. \A p \in proofs : \E k \in Nat : MadeIn(p.proof, k) /\ k < calls
    BY <1>1 DEF BlindInv, Proving
  <2>7. \A p \in proofs : ~MadeIn(p.proof, calls)
    BY <2>5, <2>6, CallIsUnique
  <2>8. \A p \in proofs' : \E k \in Nat : MadeIn(p.proof, k) /\ k <= calls
    BY <1>3, <2>3, <2>4, <2>5, <2>6
  <2>9. \A p, q \in proofs' : \A k \in Nat :
          MadeIn(p.proof, k) /\ MadeIn(q.proof, k) => p = q
    <3> SUFFICES ASSUME NEW p \in proofs', NEW q \in proofs', NEW k \in Nat,
                        MadeIn(p.proof, k), MadeIn(q.proof, k)
                 PROVE  p = q
      OBVIOUS
    <3>1. CASE p \in proofs /\ q \in proofs
      BY <3>1 DEF BlindInv
    <3>2. CASE p = new
      <4>1. k = calls
        BY <3>2, <2>3, <2>4, CallIsUnique
      <4>2. QED
        BY <3>2, <4>1, <2>7, <1>3
    <3>3. CASE q = new
      <4>1. k = calls
        BY <3>3, <2>3, <2>4, CallIsUnique
      <4>2. QED
        BY <3>3, <4>1, <2>7, <1>3
    <3>4. QED
      BY <3>1, <3>2, <3>3, <1>3
  <2>10. ProofsInv' /\ ~Proving'
    BY <1>1, <1>3, <2>8, <2>9 DEF ProofsInv, Proving
  <2>11. QED
    BY <2>10, OutsideProve
<1>4. QED
  BY <1>2, <1>3 DEF FinishProve

LEMMA ProveFailsBlind ==
  ASSUME SessionInv, BlindInv, ProveFails
  PROVE  BlindInv'
BY DropPrepBlind DEF ProveFails

LEMMA StutterBlind ==
  ASSUME BlindInv, UNCHANGED vars
  PROVE  BlindInv'
BY DEF vars, BlindInv, Rerandomized, Built, ShapeAt, Proving, IsInstance,
       SharedCommitment, OwnCommitments, Carries

LEMMA StepBlind == SessionInv /\ BlindInv /\ [Next]_vars => BlindInv'
<1> SUFFICES ASSUME SessionInv, BlindInv, [Next]_vars PROVE BlindInv'
  OBVIOUS
<1>1. ASSUME NEW key \in Keys, Setup(key) PROVE BlindInv'
  BY <1>1, SetupBlind
<1>2. ASSUME NEW batch \in Batches, PrepProve(batch) PROVE BlindInv'
  BY <1>2, PrepProveBlind
<1>3. ASSUME NEW batch \in Batches, Prove(batch) PROVE BlindInv'
  BY <1>3, ProveBlind
<1>4. ASSUME NEW i \in call.todo, RerandomizeStep(i) PROVE BlindInv'
  BY <1>4, RerandomizeStepBlind
<1>5. CASE CheckInputs
  BY <1>5, CheckInputsBlind
<1>6. ASSUME NEW i \in call.todo, BuildInstance(i) PROVE BlindInv'
  BY <1>6, BuildInstanceBlind
<1>7. CASE FinishProve
  BY <1>7, FinishProveBlind
<1>8. CASE ProveFails
  BY <1>8, ProveFailsBlind
<1>9. CASE UNCHANGED vars
  BY <1>9, StutterBlind
<1>10. QED
  BY <1>1, <1>2, <1>3, <1>4, <1>5, <1>6, <1>7, <1>8, <1>9 DEF Next

-----------------------------------------------------------------------------

(* Each published commitment carries the blind of its place. *)
LEMMA PublishedCarries ==
  ASSUME NEW proof, NEW k, MadeIn(proof, k), NEW x \in Published(proof)
  PROVE  /\ Carries(x[2], Blind(k, x[1][2], x[1][1]))
         /\ \/ x = <<<<Core, "shared">>, proof.comm_W_shared>>
            \/ x = <<<<Core, "precommitted">>, proof.core_instance.comm_W_precommitted>>
            \/ x = <<<<Core, "rest">>, proof.core_instance.comm_W_rest>>
            \/ \E i \in DOMAIN proof.step_instances :
                 /\ i # Core
                 /\ \/ x = <<<<i, "precommitted">>, proof.step_instances[i].comm_W_precommitted>>
                    \/ x = <<<<i, "rest">>, proof.step_instances[i].comm_W_rest>>
<1>1. /\ x[2] # None
      /\ \/ x = <<<<Core, "shared">>, proof.comm_W_shared>>
         \/ x = <<<<Core, "precommitted">>, proof.core_instance.comm_W_precommitted>>
         \/ x = <<<<Core, "rest">>, proof.core_instance.comm_W_rest>>
         \/ \E i \in DOMAIN proof.step_instances :
              \/ x = <<<<i, "precommitted">>, proof.step_instances[i].comm_W_precommitted>>
              \/ x = <<<<i, "rest">>, proof.step_instances[i].comm_W_rest>>
  BY Zenon DEF Published
<1>2. CASE x = <<<<Core, "shared">>, proof.comm_W_shared>>
  BY <1>1, <1>2 DEF MadeIn, SharedCommitment
<1>3. CASE \/ x = <<<<Core, "precommitted">>, proof.core_instance.comm_W_precommitted>>
           \/ x = <<<<Core, "rest">>, proof.core_instance.comm_W_rest>>
  BY <1>1, <1>3 DEF MadeIn, OwnCommitments
<1>4. ASSUME NEW i \in DOMAIN proof.step_instances,
             \/ x = <<<<i, "precommitted">>, proof.step_instances[i].comm_W_precommitted>>
             \/ x = <<<<i, "rest">>, proof.step_instances[i].comm_W_rest>>
      PROVE  i # Core /\ Carries(x[2], Blind(k, x[1][2], x[1][1]))
  BY <1>1, <1>4 DEF MadeIn, OwnCommitments
<1>5. QED
  BY <1>1, <1>2, <1>3, <1>4

(* A proof publishes one commitment in a place. *)
LEMMA OnePerPlace ==
  ASSUME NEW proof, NEW k, MadeIn(proof, k),
         NEW x \in Published(proof), NEW y \in Published(proof), x[1] = y[1]
  PROVE  x = y
BY PublishedCarries

(* No two proofs returned by prove, and no two places of one proof, have a  *)
(* blind in common: rerandomization (rerandomize_in_place,                  *)
(* rerandomize_with_shared_in_place) and the blinds r1cs_instance_and_      *)
(* witness draws for the rest segment leave nothing by which proofs from    *)
(* one prepared state could be linked, however often it is used.            *)
THEOREM Unlinkable == Spec => []BlindsNeverReused
<1>1. SessionInv /\ BlindInv => BlindsNeverReused
  <2> SUFFICES ASSUME BlindInv, NEW p \in proofs, NEW q \in proofs,
                      NEW x \in Published(p.proof), NEW y \in Published(q.proof)
               PROVE  /\ x[2].minus = {}
                      /\ x[2].plus \cap y[2].plus # {} => p = q /\ x = y
    BY DEF BlindsNeverReused
  <2>1. PICK k \in Nat : MadeIn(p.proof, k)
    BY DEF BlindInv
  <2>2. PICK l \in Nat : MadeIn(q.proof, l)
    BY DEF BlindInv
  <2>3. /\ Carries(x[2], Blind(k, x[1][2], x[1][1]))
        /\ Carries(y[2], Blind(l, y[1][2], y[1][1]))
    BY <2>1, <2>2, PublishedCarries
  <2>4. ASSUME x[2].plus \cap y[2].plus # {} PROVE p = q /\ x = y
    <3>1. Blind(k, x[1][2], x[1][1]) = Blind(l, y[1][2], y[1][1])
      BY <2>3, <2>4 DEF Carries
    <3>2. k = l /\ x[1][2] = y[1][2] /\ x[1][1] = y[1][1]
      BY <3>1, BlindInjective
    <3>3. p = q
      BY <2>1, <2>2, <3>2 DEF BlindInv
    <3>4. x[1] = y[1]
      BY <3>2, <2>1, <2>2, PublishedCarries
    <3>5. QED
      BY <2>1, <3>3, <3>4, OnePerPlace
  <2>5. QED
    BY <2>3, <2>4 DEF Carries
<1>2. Init => SessionInv /\ BlindInv
  BY InitInv, InitBlind
<1>3. SessionInv /\ BlindInv /\ [Next]_vars => (SessionInv /\ BlindInv)'
  BY StepInv, StepBlind
<1>4. QED
  BY <1>1, <1>2, <1>3, PTL DEF Spec

-----------------------------------------------------------------------------
(* What the client gets.  A proof verifies exactly when the key, the batch  *)
(* the state was prepared for and the batch requested say so.  Completeness,*)
(* soundness of the composition and the safety part of ProvingService       *)
(* follow.                                                                  *)

(* The witness of circuit i as prep_prove on the batch before leaves it. *)
WitnessOf(before, i) ==
  [shared |-> IF pk.shared THEN before.steps[1].sh ELSE Zero,
   precommitted |-> IF ShapeAt(i).precommitted THEN CircuitAt(before, i).w ELSE Zero,
   rest |-> Zero]

(* The caches c, when there are any, are those of the batch before. *)
CacheIsOf(c, before) ==
  c # None =>
    /\ CanCacheMatvec
    /\ \A i \in StepsOf(before) :
         /\ c.public_values[i] = PublicValues(before.steps[i])
         /\ c.matvec[i] = MultiplyVec(WitnessOf(before, i), PublicValues(before.steps[i]))

(* Instance and witness b are those of circuit i of a batch, built on a     *)
(* state that was prepared for the batch before.                            *)
BuiltFrom(b, i, before, batch) ==
  LET S == ShapeAt(i)
      c == CircuitAt(batch, i)
      chals == Challenges(S, Domain(i, Len(batch.steps)), PublicValues(c),
                          b.U.comm_W_shared, b.U.comm_W_precommitted)
  IN  /\ IsInstance(b.U)
      /\ b.U.comm_W_shared # None <=> pk.shared
      /\ b.U.comm_W_precommitted # None <=> S.precommitted
      /\ b.U.challenges = chals /\ chals \in Seq(Transcript)
      /\ b.U.public_values = IF S.challenge /\ pk.order # "values_first"
                               THEN chals ELSE PublicValues(c)
      /\ b.W = [WitnessOf(before, i) EXCEPT !.rest = IF S.rest THEN RestValue(c, chals)
                                                     ELSE Zero]
      /\ OpensTo(b)

(* Verifying the proof tells what AcceptedBatch says of its two batches. *)
Faithful(p) ==
  /\ p.prepped \in Batches /\ p.batch \in Batches
  /\ Verify(p.proof, pk.n) <=> AcceptedBatch(pk, p.prepped, p.batch)
  /\ Verify(p.proof, pk.n) => VerifiedValues(p.proof) = ReportedValues(pk, p.batch)

(* The inductive invariant, beside SessionInv: however often it was         *)
(* rerandomized, the prepared state holds the witness of the batch it was   *)
(* prepared for, and the running prove builds on it.                        *)
OutcomeInv ==
  /\ pk = None => proofs = {}
  /\ prepped # None => /\ \A i \in DOMAIN ps : ps[i].W = WitnessOf(prepped, i)
                       /\ CacheIsOf(cache, prepped)
  /\ phase = "build" =>
       /\ InputsMatch
       /\ DOMAIN inst = DOMAIN ps \ call.todo
       /\ \A i \in DOMAIN inst :
            /\ BuiltFrom(inst[i], i, prepped, call.batch)
            /\ inst[i].U.comm_W_shared = ps[Core].comm_W_shared
  /\ \A p \in proofs : Faithful(p)

-----------------------------------------------------------------------------
(* What prep_prove and r1cs_instance_and_witness make. *)

(* Concatenation, and its cases with one entry. *)
LEMMA Concat ==
  ASSUME NEW S, NEW f \in Seq(S), NEW g \in Seq(S)
  PROVE  /\ f \o g \in Seq(S) /\ Len(f \o g) = Len(f) + Len(g)
         /\ \A i \in 1 .. Len(f) : (f \o g)[i] = f[i]
         /\ \A i \in 1 .. Len(g) : (f \o g)[Len(f) + i] = g[i]
OBVIOUS

LEMMA SingleSeq ==
  ASSUME NEW x, NEW y
  PROVE  /\ <<x>> \o <<y>> = <<x, y>>
         /\ <<x>> \o <<>> = <<x>> /\ <<>> \o <<x>> = <<x>>
         /\ SubSeq(<<x, y>>, 1, 1) = <<x>> /\ SubSeq(<<x>>, 1, 1) = <<x>>
<1> DEFINE S == {x, y}
<1>1. <<x>> \in Seq(S) /\ <<y>> \in Seq(S) /\ <<x, y>> \in Seq(S) /\ <<>> \in Seq(S)
  OBVIOUS
<1>2. /\ Len(<<x>>) = 1 /\ Len(<<y>>) = 1 /\ Len(<<x, y>>) = 2
      /\ <<x>>[1] = x /\ <<y>>[1] = y /\ <<x, y>>[1] = x /\ <<x, y>>[2] = y
  OBVIOUS
<1> HIDE DEF S
<1>3. <<x>> \o <<y>> = <<x, y>>
  <2> DEFINE f == <<x>> g == <<y>> h == <<x, y>>
  <2>1. f \in Seq(S) /\ g \in Seq(S) /\ h \in Seq(S)
    BY <1>1
  <2>2. /\ Len(f) = 1 /\ Len(g) = 1 /\ Len(h) = 2
        /\ f[1] = h[1] /\ g[1] = h[2]
    BY <1>1, <1>2
  <2> HIDE DEF f, g, h
  <2>3. /\ f \o g \in Seq(S) /\ Len(f \o g) = Len(f) + Len(g)
        /\ \A i \in 1 .. Len(f) : (f \o g)[i] = f[i]
        /\ \A i \in 1 .. Len(g) : (f \o g)[Len(f) + i] = g[i]
    BY <2>1, Concat
  <2>4. Len(f \o g) = 2 /\ (f \o g)[1] = h[1] /\ (f \o g)[2] = h[2]
    BY <2>2, <2>3
  <2>5. f \o g = h
    BY <2>1, <2>2, <2>3, <2>4
  <2>6. QED
    BY <2>5 DEF f, g, h
<1>4. <<x>> \o <<>> = <<x>> /\ <<>> \o <<x>> = <<x>>
  <2> DEFINE f == <<x>>
  <2>1. f \in Seq(S)
    BY <1>1
  <2> HIDE DEF f
  <2>2. f \o <<>> = f /\ <<>> \o f = f
    BY <2>1
  <2>3. QED
    BY <2>2 DEF f
<1>5. ASSUME NEW f \in Seq(S), NEW g \in Seq(S), Len(f) >= 1, Len(g) = 1, f[1] = g[1]
      PROVE  SubSeq(f, 1, 1) = g
  <2>1. SubSeq(f, 1, 1) \in Seq(S) /\ Len(SubSeq(f, 1, 1)) = 1 /\ SubSeq(f, 1, 1)[1] = f[1]
    BY <1>5
  <2>2. QED
    BY <1>5, <2>1
<1>6. SubSeq(<<x, y>>, 1, 1) = <<x>> /\ SubSeq(<<x>>, 1, 1) = <<x>>
  <2> DEFINE f == <<x>> h == <<x, y>>
  <2>1. f \in Seq(S) /\ h \in Seq(S) /\ Len(f) = 1 /\ Len(h) = 2 /\ f[1] = x /\ h[1] = x
    BY <1>1, <1>2
  <2> HIDE DEF f, h
  <2>2. SubSeq(h, 1, 1) = f /\ SubSeq(f, 1, 1) = f
    BY <2>1, <1>5
  <2>3. QED
    BY <2>2 DEF f, h
<1>7. QED
  BY <1>3, <1>4, <1>6
LEMMA PreparedWitness ==
  ASSUME pk \in Keys, NEW S \in SegmentShape, NEW c0 \in Circuit, NEW c \in Circuit,
         NEW i \in Nat, NEW k \in Nat
  PROVE  PrecommittedWitness(SharedWitness(c0, k), S, c, i, k).W
           = [shared |-> IF pk.shared THEN c0.sh ELSE Zero,
              precommitted |-> IF S.precommitted THEN c.w ELSE Zero, rest |-> Zero]
<1> DEFINE r0 == Blind(k, "shared", Core)
           r == Blind(k, "precommitted", i)
           v == IF pk.shared THEN c0.sh ELSE Zero
           s == SharedWitness(c0, k)
<1>1. s = [aux |-> IF pk.shared THEN <<v>> ELSE <<>>,
           W |-> [shared |-> v, precommitted |-> Zero, rest |-> Zero],
           comm_W_shared |-> IF pk.shared THEN Commit(v, r0) ELSE None,
           r_W_shared |-> IF pk.shared THEN r0 ELSE None,
           comm_W_precommitted |-> None,
           r_W_precommitted |-> None]
  BY Zenon DEF SharedWitness
<1> HIDE DEF s
<1>2. PrecommittedWitness(s, S, c, i, k) =
        IF S.precommitted
          THEN [s EXCEPT !.aux = Append(@, c.w), !.W.precommitted = c.w,
                         !.comm_W_precommitted = Commit(c.w, r),
                         !.r_W_precommitted = r]
          ELSE s
  BY Zenon DEF PrecommittedWitness
<1> HIDE DEF v, r0, r
<1>3. PrecommittedWitness(s, S, c, i, k).W
        = [shared |-> v, precommitted |-> IF S.precommitted THEN c.w ELSE Zero,
           rest |-> Zero]
  <2> DEFINE t == PrecommittedWitness(s, S, c, i, k)
  <2>1. s.W = [shared |-> v, precommitted |-> Zero, rest |-> Zero]
    BY <1>1
  <2>2. CASE S.precommitted
    <3>1. t = [s EXCEPT !.aux = Append(@, c.w), !.W.precommitted = c.w,
                        !.comm_W_precommitted = Commit(c.w, r), !.r_W_precommitted = r]
      BY <1>2, <2>2
    <3> HIDE DEF t
    <3>2. t.W = [s.W EXCEPT !.precommitted = c.w]
      BY <1>1, <3>1
    <3>3. QED
      BY <2>1, <2>2, <3>2 DEF t
  <2>3. CASE ~S.precommitted
    BY <1>2, <2>1, <2>3
  <2>4. QED
    BY <2>2, <2>3
<1>4. QED
  BY <1>3 DEF s, v

LEMMA PublicValuesType ==
  ASSUME pk \in Keys, NEW c \in Circuit
  PROVE  /\ PublicValues(c) \in Seq(PublicValue)
         /\ Len(PublicValues(c)) = 1
         /\ PublicValues(c)[1] \in PublicValue
<1> DEFINE p == <<IF pk.shared THEN c.sh ELSE Zero, c.w>>
<1>1. p \in DOMAIN Out
  BY ValuesAssumption DEF Circuit
<1>2. Out[p] \in PublicValue
  BY <1>1 DEF PublicValue
<1> HIDE DEF p
<1>3. PublicValues(c) = <<Out[p]>>
  BY DEF PublicValues, p
<1>4. QED
  BY <1>2, <1>3

(* Challenges are none or one. *)
LEMMA ChallengesShape ==
  ASSUME NEW S, NEW d, NEW v, NEW cs, NEW cp
  PROVE  /\ S.challenge =>
              Challenges(S, d, v, cs, cp) = <<[domain |-> d, public_values |-> v,
                                               shared |-> cs, precommitted |-> cp]>>
         /\ ~S.challenge => Challenges(S, d, v, cs, cp) = <<>>
BY DEF Challenges

(* The segments r1cs_instance_and_witness commits to and their openings.    *)
LEMMA BuildOpens ==
  ASSUME NEW S, NEW s, Usable(s, S), NEW W, NEW r,
         W.shared = s.W.shared, W.precommitted = s.W.precommitted, NEW U,
         U.comm_W_shared = s.comm_W_shared,
         U.comm_W_precommitted = s.comm_W_precommitted,
         U.comm_W_rest = Commit(W.rest, r)
  PROVE  OpensTo([U |-> U, W |-> W, r_W |-> <<s.r_W_shared, s.r_W_precommitted, r>>])
BY DEF OpensTo, Usable, SharedOpens, PrecommittedOpens, Opens

LEMMA BuildBuilt ==
  ASSUME pk \in Keys, NEW before \in Batches, NEW batch \in Batches,
         NEW i \in Indices(batch), NEW k \in Nat,
         NEW s, Usable(s, ShapeAt(i)), s.W = WitnessOf(before, i),
         NEW b, b = R1csInstanceAndWitness(s, ShapeAt(i), CircuitAt(batch, i), i,
                                           Len(batch.steps), k)
  PROVE  /\ BuiltFrom([U |-> b.U, W |-> b.W, r_W |-> b.r_W], i, before, batch)
         /\ b.U.comm_W_shared = s.comm_W_shared
<1> DEFINE S == ShapeAt(i)
           c == CircuitAt(batch, i)
           d == Domain(i, Len(batch.steps))
           chals == Challenges(S, d, PublicValues(c), s.comm_W_shared,
                               s.comm_W_precommitted)
           skip == ~S.rest /\ chals = <<>>
           aux == IF skip THEN s.aux ELSE SynthesizedAux(s, S, c, chals)
           W == IF S.rest THEN [s.W EXCEPT !.rest = aux[PrepAuxLen(S) + 1]] ELSE s.W
           r == Blind(k, "rest", i)
           pv == IF skip THEN PublicValues(c) ELSE SubSeq(Inputize(c, chals), 1, 1)
           U == [comm_W_shared |-> s.comm_W_shared,
                 comm_W_precommitted |-> s.comm_W_precommitted,
                 comm_W_rest |-> Commit(W.rest, r),
                 public_values |-> pv, challenges |-> chals]
<1>1. /\ b.U = U /\ b.W = W
      /\ b.r_W = <<s.r_W_shared, s.r_W_precommitted, r>>
  BY Zenon DEF R1csInstanceAndWitness
<1>2. S \in SegmentShape /\ c \in Circuit /\ Usable(s, S)
  BY BatchType, ShapeType
<1> HIDE DEF S, c, d
<1>3. chals \in Seq(Transcript)
  <2>1. i \in Nat /\ Len(batch.steps) \in Nat
    BY BatchType
  <2>2. QED
    BY <1>2, <2>1, ChallengesType DEF d, Usable
<1>4. /\ S.challenge => Len(chals) = 1 /\ chals = <<chals[1]>>
      /\ ~S.challenge => chals = <<>>
      /\ S.challenge <=> chals # <<>>
  BY ChallengesShape DEF Challenges
<1> HIDE DEF chals
<1>5. pv = IF S.challenge /\ pk.order # "values_first" THEN chals ELSE PublicValues(c)
  <2>1. PICK x : PublicValues(c) = <<x>>
    BY DEF PublicValues
  <2>2. CASE ~S.challenge
    <3>1. /\ <<x>> \o <<>> = <<x>> /\ <<>> \o <<x>> = <<x>>
          /\ SubSeq(<<x>>, 1, 1) = <<x>>
      BY SingleSeq
    <3>2. chals = <<>>
      BY <1>4, <2>2
    <3>3. Inputize(c, chals) = <<x>>
      BY <2>1, <3>1, <3>2, Zenon DEF Inputize
    <3>4. QED
      BY <2>1, <2>2, <3>1, <3>3
  <2>3. CASE S.challenge
    <3>1. PICK y : chals = <<y>>
      BY <1>4, <2>3
    <3>2. /\ <<x>> \o <<y>> = <<x, y>> /\ <<y>> \o <<x>> = <<y, x>>
          /\ SubSeq(<<x, y>>, 1, 1) = <<x>> /\ SubSeq(<<y, x>>, 1, 1) = <<y>>
      BY SingleSeq
    <3>3. Inputize(c, chals) = IF pk.order = "values_first" THEN <<x, y>> ELSE <<y, x>>
      BY <2>1, <3>1, <3>2, Zenon DEF Inputize
    <3>4. ~skip
      BY <1>4, <2>3
    <3>5. QED
      BY <2>1, <2>3, <3>1, <3>2, <3>3, <3>4
  <2>4. QED
    BY <2>2, <2>3
<1>6. S.rest => aux[PrepAuxLen(S) + 1] = RestValue(c, chals)
  <2> SUFFICES ASSUME S.rest PROVE aux[PrepAuxLen(S) + 1] = RestValue(c, chals)
    OBVIOUS
  <2>1. PrepAuxLen(S) \in 0 .. 2
    BY PrepAuxLenBound
  <2>2. s.aux \in Seq(AuxValue) /\ Len(s.aux) >= PrepAuxLen(S)
    BY <1>2, <2>1 DEF Usable, PrecommittedState, AuxLength
  <2>3. aux = SubSeq(s.aux, 1, PrepAuxLen(S)) \o <<RestValue(c, chals)>>
    BY DEF SynthesizedAux
  <2> HIDE DEF aux
  <2>4. /\ SubSeq(s.aux, 1, PrepAuxLen(S)) \in Seq(AuxValue)
        /\ Len(SubSeq(s.aux, 1, PrepAuxLen(S))) = PrepAuxLen(S)
    BY <2>1, <2>2
  <2> DEFINE f == SubSeq(s.aux, 1, PrepAuxLen(S))
             g == <<RestValue(c, chals)>>
             T == AuxValue \cup {RestValue(c, chals)}
  <2>5. f \in Seq(T) /\ g \in Seq(T)
    <3>1. f \in Seq(AuxValue)
      BY <2>4
    <3> HIDE DEF f
    <3>2. QED
      BY <3>1
  <2>6. Len(f) = PrepAuxLen(S) /\ Len(g) = 1 /\ g[1] = RestValue(c, chals)
    BY <2>4
  <2>7. aux = f \o g
    BY <2>3
  <2> HIDE DEF f, g, T
  <2>8. \A j \in 1 .. Len(g) : (f \o g)[Len(f) + j] = g[j]
    BY <2>5, Concat
  <2>9. 1 \in 1 .. Len(g)
    BY <2>6
  <2>10. (f \o g)[Len(f) + 1] = g[1]
    BY <2>8, <2>9
  <2>11. QED
    BY <2>6, <2>7, <2>10
<1> HIDE DEF aux, pv
<1>7. /\ W = [WitnessOf(before, i) EXCEPT !.rest = IF S.rest THEN RestValue(c, chals)
                                                 ELSE Zero]
      /\ W.shared = s.W.shared /\ W.precommitted = s.W.precommitted
  <2>1. CASE S.rest
    BY <1>6, <2>1 DEF WitnessOf
  <2>2. CASE ~S.rest
    BY <2>2 DEF WitnessOf
  <2>3. QED
    BY <2>1, <2>2
<1> HIDE DEF W, r
<1>8. /\ U.comm_W_shared = s.comm_W_shared
      /\ U.comm_W_precommitted = s.comm_W_precommitted
      /\ U.comm_W_rest = Commit(W.rest, r)
      /\ U.public_values = pv /\ U.challenges = chals
      /\ IsInstance(U)
  BY DEF IsInstance
<1> HIDE DEF U
<1>9. OpensTo([U |-> U, W |-> W, r_W |-> <<s.r_W_shared, s.r_W_precommitted, r>>])
  BY <1>2, <1>7, <1>8, BuildOpens
<1>10. /\ s.comm_W_shared # None <=> pk.shared
       /\ s.comm_W_precommitted # None <=> S.precommitted
  BY <1>2 DEF Usable, SharedOpens, PrecommittedOpens
<1>11. QED
  BY <1>1, <1>3, <1>5, <1>7, <1>8, <1>9, <1>10 DEF BuiltFrom, S, c, d, chals

-----------------------------------------------------------------------------
(* When an instance satisfies its constraints and validates. *)

(* What AcceptedBatch says of one circuit. *)
Matches(i, before, batch) ==
  LET S == ShapeAt(i)
      w == CircuitAt(batch, i).w
      prepared_w == CircuitAt(before, i).w
      sh == IF pk.shared THEN before.steps[1].sh ELSE Zero
  IN  /\ S.precommitted /\ S.rest => prepared_w = w
      /\ PublicValues(CircuitAt(batch, i))
           = <<Out[<<sh, IF S.precommitted THEN prepared_w ELSE w>>]>>

Supported(S) == S.challenge => pk.order = "values_first"

LEMMA BatchAccepted ==
  ASSUME pk \in Keys, NEW before \in Batches, NEW batch \in Batches
  PROVE  /\ AcceptedBatch(pk, before, batch) <=>
              /\ Len(batch.steps) = pk.n /\ Len(before.steps) = pk.n
              /\ OrderSupported(pk)
              /\ \A i \in Indices(batch) : Matches(i, before, batch)
         /\ \A i \in Indices(batch) :
              ReportedValues(pk, batch)[i] = PublicValues(CircuitAt(batch, i))
<1>1. \A i \in Indices(batch) :
        ReportedValues(pk, batch)[i] = PublicValues(CircuitAt(batch, i))
  BY DEF ReportedValues, PublicValues
<1> DEFINE Clause(i) ==
             LET S == IF i = Core THEN pk.core ELSE pk.step
                 w == CircuitAt(batch, i).w
                 prepared_w == CircuitAt(before, i).w
                 sh == IF pk.shared THEN before.steps[1].sh ELSE Zero
             IN  /\ S.precommitted /\ S.rest => prepared_w = w
                 /\ ReportedValues(pk, batch)[i]
                      = <<Out[<<sh, IF S.precommitted THEN prepared_w ELSE w>>]>>
<1>2. AcceptedBatch(pk, before, batch) <=>
        /\ Len(batch.steps) = pk.n /\ Len(before.steps) = pk.n
        /\ OrderSupported(pk)
        /\ \A i \in Indices(batch) : Clause(i)
  BY Zenon DEF AcceptedBatch
<1>3. ASSUME NEW i \in Indices(batch) PROVE Clause(i) <=> Matches(i, before, batch)
  BY <1>1, Zenon DEF Matches, ShapeAt
<1> HIDE DEF Clause
<1>4. QED
  BY <1>1, <1>2, <1>3

LEMMA InstanceIsSat ==
  ASSUME pk \in Keys, NEW before \in Batches, NEW batch \in Batches,
         NEW i \in Indices(batch), i \in Indices(before),
         NEW b, BuiltFrom(b, i, before, batch), Supported(ShapeAt(i))
  PROVE  IsSat(MultiplyVec(b.W, RegularInstance(b.U).X), ShapeAt(i))
           <=> Matches(i, before, batch)
<1> DEFINE S == ShapeAt(i)
           c == CircuitAt(batch, i)
           sh == IF pk.shared THEN before.steps[1].sh ELSE Zero
           pre == CircuitAt(before, i).w
           w == IF S.precommitted THEN pre ELSE c.w
           chals == b.U.challenges
           z == MultiplyVec(b.W, RegularInstance(b.U).X)
<1>1. S \in SegmentShape /\ c \in Circuit /\ (S.precommitted \/ S.rest)
  BY BatchType, ShapeType, KeysAssumption DEF ShapeAt
<1>2. /\ b.U.public_values = PublicValues(c)
      /\ b.W = [WitnessOf(before, i) EXCEPT !.rest = IF S.rest THEN RestValue(c, chals)
                                                     ELSE Zero]
      /\ S.challenge => chals = <<chals[1]>>
      /\ ~S.challenge => chals = <<>>
  BY DEF BuiltFrom, Supported, Challenges
<1>3. PICK x : PublicValues(c) = <<x>>
  BY DEF PublicValues
<1>4. /\ b.W.shared = sh
      /\ b.W.precommitted = IF S.precommitted THEN pre ELSE Zero
      /\ b.W.rest = IF S.rest THEN RestValue(c, chals) ELSE Zero
  BY <1>2 DEF WitnessOf
<1>5. z.W = b.W /\ z.X = b.U.public_values \o chals
  BY DEF MultiplyVec, RegularInstance
<1>6. /\ S.challenge => z.X = <<x, chals[1]>>
      /\ ~S.challenge => z.X = <<x>>
  <2>1. /\ <<x>> \o <<chals[1]>> = <<x, chals[1]>>
        /\ <<x>> \o <<>> = <<x>>
    BY SingleSeq
  <2>2. QED
    BY <1>2, <1>3, <1>5, <2>1, Zenon
<1>7. (IF S.precommitted THEN z.W.precommitted ELSE z.W.rest.w) = w
  BY <1>1, <1>4, <1>5 DEF RestValue
<1>8. (IF pk.order = "values_first" THEN z.X[1] ELSE z.X[Len(z.X)]) = x
  <2>1. CASE S.challenge
    BY <1>6, <2>1 DEF Supported
  <2>2. CASE ~S.challenge
    <3>1. Len(<<x>>) = 1 /\ <<x>>[1] = x
      OBVIOUS
    <3> HIDE DEF z
    <3>2. QED
      BY <1>6, <2>2, <3>1
  <2>3. QED
    BY <2>1, <2>2
<1>9. (IF ~S.challenge THEN <<>>
       ELSE IF pk.order = "values_first" THEN <<z.X[2]>> ELSE <<z.X[1]>>) = chals
  BY <1>2, <1>6 DEF Supported
<1> HIDE DEF z, S, c, pre, chals, sh
<1>10. IsSat(z, S) <=> /\ x = Out[<<z.W.shared, w>>]
                       /\ z.W.rest = IF S.rest THEN [w |-> w, challenges |-> chals]
                                     ELSE Zero
  <2> HIDE DEF w
  <2>1. QED
    BY <1>7, <1>8, <1>9, Zenon DEF IsSat
<1>11. z.W.rest = (IF S.rest THEN [w |-> w, challenges |-> chals] ELSE Zero)
         <=> (S.precommitted /\ S.rest => pre = c.w)
  <2>1. z.W.rest = IF S.rest THEN [w |-> c.w, challenges |-> chals] ELSE Zero
    BY <1>4, <1>5 DEF RestValue
  <2>2. [w |-> c.w, challenges |-> chals] = [w |-> w, challenges |-> chals] <=> c.w = w
    <3>1. /\ [w |-> c.w, challenges |-> chals].w = c.w
          /\ [w |-> w, challenges |-> chals].w = w
      BY Zenon
    <3>2. QED
      BY <3>1
  <2>3. QED
    BY <2>1, <2>2
<1>12. x = Out[<<z.W.shared, w>>] <=> PublicValues(c) = <<Out[<<sh, w>>]>>
  BY <1>3, <1>4, <1>5
<1>13. QED
  BY <1>10, <1>11, <1>12, Zenon DEF Matches, S, c, pre, sh, w, z

LEMMA InstanceValidates ==
  ASSUME pk \in Keys, NEW before \in Batches, NEW batch \in Batches,
         NEW i \in Indices(batch), NEW b, BuiltFrom(b, i, before, batch)
  PROVE  Validate(b.U, ShapeAt(i), Domain(i, Len(batch.steps))) <=> Supported(ShapeAt(i))
<1> DEFINE S == ShapeAt(i)
           c == CircuitAt(batch, i)
           d == Domain(i, Len(batch.steps))
           chals == b.U.challenges
           U == b.U
           T(v) == [domain |-> d, public_values |-> v, shared |-> U.comm_W_shared,
                    precommitted |-> U.comm_W_precommitted]
<1>1. S \in SegmentShape /\ c \in Circuit
  BY BatchType, ShapeType
<1>2. /\ U.comm_W_shared # None <=> pk.shared
      /\ U.comm_W_precommitted # None <=> S.precommitted
      /\ U.public_values = IF S.challenge /\ pk.order # "values_first"
                             THEN chals ELSE PublicValues(c)
      /\ chals = Challenges(S, d, PublicValues(c), U.comm_W_shared, U.comm_W_precommitted)
      /\ chals \in Seq(Transcript)
  BY DEF BuiltFrom
<1>3. /\ S.challenge => chals = <<T(PublicValues(c))>>
      /\ S.challenge => Challenges(S, d, chals, U.comm_W_shared, U.comm_W_precommitted)
                          = <<T(chals)>>
  <2>1. S.challenge => \A v : Challenges(S, d, v, U.comm_W_shared, U.comm_W_precommitted)
                                = <<T(v)>>
    BY Zenon DEF Challenges
  <2> HIDE DEF T
  <2>2. QED
    BY <1>2, <2>1, Zenon
<1>4. PublicValues(c) \in Seq(PublicValue) /\ Len(PublicValues(c)) = 1
      /\ PublicValues(c)[1] \in PublicValue
  BY <1>1, PublicValuesType
<1>5. Len(U.public_values) = 1
  <2>1. S.challenge => Len(chals) = 1
    <3> HIDE DEF T, chals
    <3>1. QED
      BY <1>3
  <2>2. QED
    BY <1>2, <1>4, <2>1
<1>6. CASE Supported(S)
  <2>1. U.public_values = PublicValues(c)
    BY <1>2, <1>6 DEF Supported
  <2>2. QED
    BY <1>2, <1>5, <1>6, <2>1, Zenon DEF Validate
<1>7. CASE ~Supported(S)
  <2>1. S.challenge /\ U.public_values = chals
    BY <1>2, <1>7 DEF Supported
  <2>2. T(chals) # T(PublicValues(c))
    <3>1. T(chals).public_values = chals /\ T(PublicValues(c)).public_values = PublicValues(c)
      BY Zenon
    <3>2. chals[1] \in Transcript
      <4> HIDE DEF T, chals
      <4>1. Len(chals) = 1
        BY <1>3, <2>1
      <4>2. QED
        BY <1>2, <4>1
    <3>3. chals # PublicValues(c)
      BY <1>4, <3>2, OutputsAssumption
    <3>4. QED
      BY <3>1, <3>3
  <2>3. <<T(chals)>> # <<T(PublicValues(c))>>
    <3> HIDE DEF T, chals
    <3>1. QED
      BY <2>2
  <2>4. chals # Challenges(S, d, U.public_values, U.comm_W_shared, U.comm_W_precommitted)
    BY <1>3, <2>1, <2>3, Zenon
  <2>5. QED
    BY <1>7, <2>4, Zenon DEF Validate
<1>8. QED
  BY <1>6, <1>7

-----------------------------------------------------------------------------
(* What verify does with the proof that prove assembles. *)

(* The shared commitment taken out of an instance and attached again. *)
LEMMA AttachStrip ==
  ASSUME NEW U, IsInstance(U), NEW comm, comm = U.comm_W_shared
  PROVE  [[U EXCEPT !.comm_W_shared = None] EXCEPT !.comm_W_shared = comm] = U
BY DEF IsInstance

LEMMA VerifyMade ==
  ASSUME NEW n \in Nat, n >= 1, NEW built, DOMAIN built = {Core} \cup 1 .. n,
         \A i \in DOMAIN built : IsInstance(built[i].U),
         \A i \in DOMAIN built : built[i].U.comm_W_shared = built[1].U.comm_W_shared
  PROVE  /\ \A num : Verify(MakeProof(built, n), num) <=>
              /\ num # 0 /\ num = n /\ num = pk.n
              /\ \A i \in 1 .. n : Validate(built[i].U, pk.step, Domain(i, n))
              /\ Validate(built[Core].U, pk.core, Domain(Core, n))
              /\ Convincing(built)
         /\ VerifiedValues(MakeProof(built, n))
              = [i \in {Core} \cup 1 .. n |-> built[i].U.public_values]
<1> DEFINE comm == built[1].U.comm_W_shared
           all == [i \in 1 .. n |-> built[i].U]
           strip(U) == [U EXCEPT !.comm_W_shared = None]
           attach(U) == [U EXCEPT !.comm_W_shared = comm]
           stripped == [i \in 1 .. n |-> strip(all[i])]
           P == MakeProof(built, n)
           back == [i \in 1 .. n |-> attach(stripped[i])]
<1>1. 1 \in 1 .. n /\ Core \in DOMAIN built /\ Core \notin 1 .. n
  BY DEF Core
<1>2. P = [comm_W_shared |-> all[1].comm_W_shared,
           step_instances |-> stripped,
           core_instance |-> strip(built[Core].U),
           argument |-> [statement |-> Statement(built[Core].U, all),
                         convincing |-> Convincing(built)]]
  BY Zenon DEF MakeProof
<1>3. all[1].comm_W_shared = comm
  BY <1>1
<1> HIDE DEF P
<1>4. /\ P.comm_W_shared = comm /\ P.step_instances = stripped
      /\ P.core_instance = strip(built[Core].U)
      /\ P.argument.statement = Statement(built[Core].U, all)
      /\ P.argument.convincing = Convincing(built)
  BY <1>2, <1>3, Zenon
<1>5. Len(stripped) = n /\ DOMAIN stripped = 1 .. n
  <2> HIDE DEF strip, all
  <2>1. QED
    OBVIOUS
<1>6. \A i \in DOMAIN built : attach(strip(built[i].U)) = built[i].U
  BY AttachStrip
<1>7. \A i \in 1 .. n : stripped[i] = strip(built[i].U)
  <2> HIDE DEF strip
  <2>1. QED
    OBVIOUS
<1>8. back = all
  <2> HIDE DEF strip, attach, stripped
  <2>1. QED
    BY <1>6, <1>7
<1>9. attach(strip(built[Core].U)) = built[Core].U
  BY <1>1, <1>6
<1>10. ASSUME NEW num
       PROVE  Verify(P, num) <=>
                /\ num # 0 /\ num = n /\ num = pk.n
                /\ \A i \in 1 .. n : Validate(built[i].U, pk.step, Domain(i, n))
                /\ Validate(built[Core].U, pk.core, Domain(Core, n))
                /\ Convincing(built)
  <2> DEFINE steps == [i \in 1 .. Len(P.step_instances) |->
                         [P.step_instances[i] EXCEPT !.comm_W_shared = P.comm_W_shared]]
             core == [P.core_instance EXCEPT !.comm_W_shared = P.comm_W_shared]
  <2>1. steps = all
    BY <1>4, <1>5, <1>8, Zenon
  <2>2. core = built[Core].U
    BY <1>4, <1>9, Zenon
  <2>3. CountsAgree(P, num) <=> num # 0 /\ num = n /\ num = pk.n
    BY <1>4, <1>5, Zenon DEF CountsAgree
  <2>4. Verify(P, num) <=>
          /\ CountsAgree(P, num)
          /\ \A i \in 1 .. Len(P.step_instances) :
               Validate(steps[i], pk.step, Domain(i, Len(P.step_instances)))
          /\ Validate(core, pk.core, Domain(Core, Len(P.step_instances)))
          /\ P.argument.statement = Statement(core, steps)
          /\ P.argument.convincing
    BY Zenon DEF Verify
  <2> HIDE DEF steps, core, all, stripped
  <2>5. Len(P.step_instances) = n
    BY <1>4, <1>5, Zenon
  <2>6. Verify(P, num) <=>
          /\ CountsAgree(P, num)
          /\ \A i \in 1 .. n : Validate(all[i], pk.step, Domain(i, n))
          /\ Validate(built[Core].U, pk.core, Domain(Core, n))
          /\ Convincing(built)
    BY <1>4, <2>1, <2>2, <2>4, <2>5, Zenon
  <2>7. \A i \in 1 .. n : all[i] = built[i].U
    BY DEF all
  <2>8. QED
    BY <2>3, <2>6, <2>7, Zenon
<1>11. VerifiedValues(P) = [i \in {Core} \cup 1 .. n |-> built[i].U.public_values]
  <2>1. VerifiedValues(P) = [i \in {Core} \cup 1 .. n |->
                               IF i = Core THEN strip(built[Core].U).public_values
                                           ELSE stripped[i].public_values]
    BY <1>4, <1>5, Zenon DEF VerifiedValues
  <2>2. \A i \in DOMAIN built : strip(built[i].U).public_values = built[i].U.public_values
    BY DEF IsInstance
  <2> HIDE DEF strip, stripped
  <2>3. \A i \in {Core} \cup 1 .. n :
          (IF i = Core THEN strip(built[Core].U).public_values ELSE stripped[i].public_values)
             = built[i].U.public_values
    BY <1>1, <1>7, <2>2
  <2>4. QED
    BY <2>1, <2>3
<1>12. QED
  BY <1>10, <1>11 DEF P

(* The batch a proof is made from and the batch its state was prepared for  *)
(* have the same circuits when prove gets as far as the argument.           *)
LEMMA SameIndices ==
  ASSUME NEW before \in Batches, NEW batch \in Batches, Indices(before) = Indices(batch)
  PROVE  Len(before.steps) = Len(batch.steps) /\ Len(batch.steps) >= 1
<1>1. /\ before.steps \in Seq(Circuit) /\ before.steps # <<>>
      /\ batch.steps \in Seq(Circuit) /\ batch.steps # <<>>
  BY BatchesAssumption
<1>2. /\ Len(before.steps) \in Nat /\ Len(before.steps) >= 1
      /\ Len(batch.steps) \in Nat /\ Len(batch.steps) >= 1
  BY <1>1
<1>3. {0} \cup 1 .. Len(before.steps) = {0} \cup 1 .. Len(batch.steps)
  BY DEF Indices, StepsOf, Core
<1>4. QED
  BY <1>2, <1>3

(* The products prove folds are those of the instances it built. *)
LEMMA LayerIsCurrent ==
  ASSUME pk \in Keys, NEW before \in Batches, NEW batch \in Batches,
         Indices(before) = Indices(batch), CacheIsOf(cache, before),
         cache # None => \A j \in StepsOf(batch) :
                           cache.public_values[j] = PublicValues(batch.steps[j]),
         NEW i \in Indices(batch), NEW b, BuiltFrom(b, i, before, batch)
  PROVE  /\ Layer(i, b) = MultiplyVec(b.W, RegularInstance(b.U).X)
         /\ cache # None /\ i # Core
              => cache.matvec[i] = MultiplyVec(b.W, RegularInstance(b.U).X)
<1>1. CASE cache = None \/ i = Core
  BY <1>1 DEF Layer
<1>2. CASE cache # None /\ i # Core
  <2>1. i \in StepsOf(before) /\ i \in StepsOf(batch)
    BY <1>2, BatchType
  <2>2. /\ CanCacheMatvec
        /\ PublicValues(before.steps[i]) = PublicValues(batch.steps[i])
        /\ cache.matvec[i] = MultiplyVec(WitnessOf(before, i),
                                        PublicValues(before.steps[i]))
    BY <1>2, <2>1, Zenon DEF CacheIsOf
  <2>3. ShapeAt(i) = pk.step /\ ~pk.step.challenge /\ ~pk.step.rest
        /\ CircuitAt(batch, i) = batch.steps[i]
    BY <1>2, <2>2 DEF CanCacheMatvec, ShapeAt, CircuitAt
  <2>4. /\ b.U.challenges = <<>> /\ b.U.public_values = PublicValues(batch.steps[i])
        /\ b.W = [WitnessOf(before, i) EXCEPT !.rest = Zero]
    BY <2>3, Zenon DEF BuiltFrom, Challenges
  <2>5. b.W = WitnessOf(before, i)
    BY <2>4 DEF WitnessOf
  <2>6. RegularInstance(b.U).X = PublicValues(batch.steps[i])
    <3>1. PICK x : PublicValues(batch.steps[i]) = <<x>>
      BY DEF PublicValues
    <3>2. <<x>> \o <<>> = <<x>>
      BY SingleSeq
    <3>3. RegularInstance(b.U).X = b.U.public_values \o b.U.challenges
      BY DEF RegularInstance
    <3>4. QED
      BY <2>4, <3>1, <3>2, <3>3, Zenon
  <2>7. QED
    BY <1>2, <2>2, <2>5, <2>6, Zenon DEF Layer
<1>3. QED
  BY <1>1, <1>2

LEMMA Delivered ==
  ASSUME pk \in Keys, NEW before \in Batches, NEW batch \in Batches,
         Indices(before) = Indices(batch), CacheIsOf(cache, before),
         cache # None => \A j \in StepsOf(batch) :
                           cache.public_values[j] = PublicValues(batch.steps[j]),
         NEW built, DOMAIN built = Indices(batch),
         \A i \in Indices(batch) : BuiltFrom(built[i], i, before, batch),
         NEW comm, \A i \in Indices(batch) : built[i].U.comm_W_shared = comm
  PROVE  /\ Verify(MakeProof(built, Len(batch.steps)), pk.n)
              <=> AcceptedBatch(pk, before, batch)
         /\ AcceptedBatch(pk, before, batch)
              => VerifiedValues(MakeProof(built, Len(batch.steps)))
                   = ReportedValues(pk, batch)
<1> DEFINE n == Len(batch.steps)
           P == MakeProof(built, n)
           z(i) == MultiplyVec(built[i].W, RegularInstance(built[i].U).X)
<1>1. /\ n \in Nat /\ n >= 1 /\ Len(before.steps) = n
      /\ Indices(batch) = {Core} \cup 1 .. n /\ 1 \in Indices(batch)
  BY SameIndices, BatchType DEF Indices, StepsOf
<1>2. /\ \A i \in DOMAIN built : IsInstance(built[i].U) /\ OpensTo(built[i])
      /\ \A i \in DOMAIN built : built[i].U.comm_W_shared = built[1].U.comm_W_shared
  BY <1>1 DEF BuiltFrom
<1>3. /\ Verify(P, pk.n) <=>
           /\ pk.n # 0 /\ pk.n = n
           /\ \A i \in 1 .. n : Validate(built[i].U, pk.step, Domain(i, n))
           /\ Validate(built[Core].U, pk.core, Domain(Core, n))
           /\ Convincing(built)
      /\ VerifiedValues(P) = [i \in {Core} \cup 1 .. n |-> built[i].U.public_values]
  <2>1. DOMAIN built = {Core} \cup 1 .. n
    BY <1>1
  <2> HIDE DEF n
  <2>2. QED
    BY <1>1, <1>2, <2>1, VerifyMade
<1> HIDE DEF P
<1>4. \A i \in Indices(batch) :
        Validate(built[i].U, ShapeAt(i), Domain(i, n)) <=> Supported(ShapeAt(i))
  BY InstanceValidates
<1>5. \A i \in Indices(batch) : ShapeAt(i) = IF i = Core THEN pk.core ELSE pk.step
  BY DEF ShapeAt
<1>6. /\ \A i \in 1 .. n : i # Core /\ i \in Indices(batch)
      /\ Core \in Indices(batch)
  BY <1>1 DEF Core
<1>7. OrderSupported(pk) <=> Supported(pk.core) /\ Supported(pk.step)
  BY DEF OrderSupported, Supported
<1> HIDE DEF n
<1>8. OrderSupported(pk) <=>
        /\ \A i \in 1 .. n : Validate(built[i].U, pk.step, Domain(i, n))
        /\ Validate(built[Core].U, pk.core, Domain(Core, n))
  BY <1>1, <1>4, <1>5, <1>6, <1>7
<1>9. \A i \in Indices(batch) : Layer(i, built[i]) = z(i)
  BY LayerIsCurrent
<1>10. Convincing(built) <=> \A i \in Indices(batch) : IsSat(z(i), ShapeAt(i))
  <2>1. Convincing(built) <=>
          \A i \in DOMAIN built :
            OpensTo(built[i]) /\ Layer(i, built[i]) = z(i) /\ IsSat(z(i), ShapeAt(i))
    BY Zenon DEF Convincing
  <2> HIDE DEF z
  <2>2. QED
    BY <1>2, <1>9, <2>1
<1>11. OrderSupported(pk) =>
         \A i \in Indices(batch) : IsSat(z(i), ShapeAt(i)) <=> Matches(i, before, batch)
  <2> SUFFICES ASSUME OrderSupported(pk), NEW i \in Indices(batch)
               PROVE  IsSat(z(i), ShapeAt(i)) <=> Matches(i, before, batch)
    BY Zenon
  <2>1. Supported(ShapeAt(i)) /\ i \in Indices(before)
    BY <1>5, <1>7
  <2>2. BuiltFrom(built[i], i, before, batch)
    OBVIOUS
  <2>3. QED
    BY <2>1, <2>2, InstanceIsSat
<1> HIDE DEF z
<1>12. AcceptedBatch(pk, before, batch) <=>
         /\ n = pk.n /\ OrderSupported(pk)
         /\ \A i \in Indices(batch) : Matches(i, before, batch)
  BY <1>1, BatchAccepted DEF n
<1>13. Verify(P, pk.n) <=> AcceptedBatch(pk, before, batch)
  BY <1>1, <1>3, <1>8, <1>10, <1>11, <1>12
<1>14. AcceptedBatch(pk, before, batch) => VerifiedValues(P) = ReportedValues(pk, batch)
  <2> SUFFICES ASSUME AcceptedBatch(pk, before, batch)
               PROVE  VerifiedValues(P) = ReportedValues(pk, batch)
    OBVIOUS
  <2>1. \A i \in Indices(batch) : Supported(ShapeAt(i))
    BY <1>5, <1>7, <1>12
  <2>2. \A i \in Indices(batch) : built[i].U.public_values = PublicValues(CircuitAt(batch, i))
    BY <2>1, Zenon DEF BuiltFrom, Supported
  <2>3. \A i \in Indices(batch) : ReportedValues(pk, batch)[i]
                                   = PublicValues(CircuitAt(batch, i))
    BY BatchAccepted
  <2>4. ReportedValues(pk, batch) = [i \in Indices(batch) |-> ReportedValues(pk, batch)[i]]
    BY DEF ReportedValues
  <2>5. QED
    BY ZenonT(60), <1>1, <1>3, <2>2, <2>3, <2>4
<1>15. QED
  BY <1>13, <1>14 DEF P, n

-----------------------------------------------------------------------------
(* The invariant holds initially and every action preserves it. *)

LEMMA FaithfulNext ==
  ASSUME pk' = pk, \A p \in proofs' : Faithful(p)
  PROVE  (\A p \in proofs : Faithful(p))'
<1>1. ASSUME NEW p PROVE Verify(p.proof, pk.n)' <=> Verify(p.proof, pk.n)
  BY Zenon DEF Verify, CountsAgree, Validate
<1>2. ASSUME NEW p \in proofs' PROVE Faithful(p)'
  BY <1>1 DEF Faithful
<1>3. QED
  BY <1>2

LEMMA PreparedNext ==
  ASSUME pk' = pk,
         prepped' # None => /\ \A i \in DOMAIN ps' : ps'[i].W = WitnessOf(prepped', i)
                            /\ CacheIsOf(cache', prepped')
  PROVE  (prepped # None => /\ \A i \in DOMAIN ps : ps[i].W = WitnessOf(prepped, i)
                            /\ CacheIsOf(cache, prepped))'
BY SMTT(60) DEF WitnessOf, ShapeAt, CacheIsOf, CanCacheMatvec, PublicValues

LEMMA BuiltNext ==
  ASSUME pk' = pk,
         \A i \in DOMAIN inst' : BuiltFrom(inst'[i], i, prepped', call'.batch)
  PROVE  (\A i \in DOMAIN inst : BuiltFrom(inst[i], i, prepped, call.batch))'
BY SMTT(60) DEF BuiltFrom, WitnessOf, ShapeAt, PublicValues

(* What every step after setup has to show. *)
LEMMA OutcomeNext ==
  ASSUME pk' = pk, pk # None,
         prepped' # None => /\ \A i \in DOMAIN ps' : ps'[i].W = WitnessOf(prepped', i)
                            /\ CacheIsOf(cache', prepped'),
         phase' = "build" =>
           /\ InputsMatch'
           /\ DOMAIN inst' = DOMAIN ps' \ call'.todo
           /\ \A i \in DOMAIN inst' : BuiltFrom(inst'[i], i, prepped', call'.batch)
           /\ \A i \in DOMAIN inst' : inst'[i].U.comm_W_shared = ps'[Core].comm_W_shared,
         \A p \in proofs' : Faithful(p)
  PROVE  OutcomeInv'
<1>1. (\A p \in proofs : Faithful(p))'
  BY FaithfulNext
<1>2. (prepped # None => /\ \A i \in DOMAIN ps : ps[i].W = WitnessOf(prepped, i)
                         /\ CacheIsOf(cache, prepped))'
  BY PreparedNext
<1>3. phase' = "build" => (\A i \in DOMAIN inst : BuiltFrom(inst[i], i, prepped, call.batch))'
  BY BuiltNext
<1>4. QED
  BY <1>1, <1>2, <1>3 DEF OutcomeInv

LEMMA InitOutcome == Init => OutcomeInv
BY DEF Init, OutcomeInv

LEMMA SetupOutcome ==
  ASSUME SessionInv, OutcomeInv, NEW key \in Keys, Setup(key)
  PROVE  OutcomeInv'
<1>1. prepped' = None /\ phase' = "idle" /\ proofs' = {}
  BY DEF Setup, SessionInv, OutcomeInv
<1>2. QED
  BY <1>1 DEF OutcomeInv

LEMMA PrepProveOutcome ==
  ASSUME SessionInv, OutcomeInv, NEW batch \in Batches, PrepProve(batch)
  PROVE  OutcomeInv'
<1> DEFINE k == calls + 1
           shared == SharedWitness(batch.steps[1], k)
           state == [i \in Indices(batch) |->
                       PrecommittedWitness(shared, ShapeAt(i), CircuitAt(batch, i), i, k)]
           values == [i \in StepsOf(batch) |-> PublicValues(batch.steps[i])]
           products == [i \in StepsOf(batch) |-> MultiplyVec(state[i].W, values[i])]
<1>1. /\ pk' = pk /\ ps' = state /\ prepped' = batch /\ phase' = "prepped"
      /\ cache' = IF CanCacheMatvec THEN [matvec |-> products, public_values |-> values]
                  ELSE None
      /\ proofs' = proofs /\ phase \in {"idle", "prepped"}
  BY Zenon DEF PrepProve
<1>2. pk \in Keys /\ pk # None /\ calls \in Nat
  BY <1>1, NoneAssumption, ValuesAssumption DEF SessionInv, TypeOK, Option
<1>3. \A i \in Indices(batch) : state[i].W = WitnessOf(batch, i)
  <2> SUFFICES ASSUME NEW i \in Indices(batch) PROVE state[i].W = WitnessOf(batch, i)
    OBVIOUS
  <2>1. i \in Nat /\ k \in Nat /\ CircuitAt(batch, i) \in Circuit
        /\ batch.steps[1] \in Circuit /\ ShapeAt(i) \in SegmentShape
    BY <1>2, BatchType, ShapeType
  <2>2. state[i] = PrecommittedWitness(shared, ShapeAt(i), CircuitAt(batch, i), i, k)
    OBVIOUS
  <2> HIDE DEF state, k
  <2>3. QED
    BY <1>2, <2>1, <2>2, PreparedWitness DEF WitnessOf
<1>4. DOMAIN state = Indices(batch)
  OBVIOUS
<1>5. StepsOf(batch) \subseteq Indices(batch)
  BY DEF Indices
<1> HIDE DEF state
<1>6. \A i \in StepsOf(batch) :
        /\ values[i] = PublicValues(batch.steps[i])
        /\ products[i] = MultiplyVec(WitnessOf(batch, i), PublicValues(batch.steps[i]))
  BY <1>3, <1>5
<1> HIDE DEF values, products
<1>7. CacheIsOf(cache', batch)
  <2>1. CASE CanCacheMatvec
    <3>1. /\ cache'.matvec = products /\ cache'.public_values = values
      BY <1>1, <2>1
    <3>2. QED
      BY <1>6, <2>1, <3>1, Zenon DEF CacheIsOf
  <2>2. CASE ~CanCacheMatvec
    BY <1>1, <2>2 DEF CacheIsOf
  <2>3. QED
    BY <2>1, <2>2
<1>8. QED
  BY <1>1, <1>2, <1>3, <1>4, <1>7, OutcomeNext DEF OutcomeInv

(* What the running prove works on. *)
LEMMA OnPrepared ==
  ASSUME SessionInv, OutcomeInv, phase \in {"prepped", "rerandomize", "build"}
  PROVE  /\ pk \in Keys /\ pk # None /\ prepped \in Batches /\ prepped # None
         /\ DOMAIN ps = Indices(prepped)
         /\ \A i \in DOMAIN ps : ps[i].W = WitnessOf(prepped, i)
         /\ CacheIsOf(cache, prepped)
         /\ \A p \in proofs : Faithful(p)
<1>1. /\ pk \in Keys /\ prepped \in Batches
      /\ ps \in [Indices(prepped) -> PrecommittedState]
  BY Prepared
<1>2. QED
  BY <1>1, NoneAssumption DEF OutcomeInv

LEMMA ProveOutcome ==
  ASSUME SessionInv, OutcomeInv, NEW batch \in Batches, Prove(batch)
  PROVE  OutcomeInv'
<1> DEFINE t == RerandomizeInPlace(ps[Core], Core, calls + 1)
<1>1. /\ phase = "prepped" /\ phase' = "rerandomize"
      /\ ps' = [ps EXCEPT ![Core] = t] /\ pk' = pk /\ prepped' = prepped
      /\ cache' = cache /\ proofs' = proofs
  BY DEF Prove
<1>2. Usable(t, ShapeAt(Core)) /\ t.W = ps[Core].W
  <2>1. /\ pk \in Keys /\ ShapeAt(Core) \in SegmentShape
        /\ Usable(ps[Core], ShapeAt(Core)) /\ Core \in Nat /\ calls + 1 \in Nat
    BY <1>1, Prepared
  <2>2. QED
    BY <2>1, RerandomizeInPlaceUsable
<1> HIDE DEF t
<1>3. DOMAIN ps' = DOMAIN ps /\ \A i \in DOMAIN ps : ps'[i].W = ps[i].W
  BY <1>1, <1>2, Prepared
<1>4. QED
  BY <1>1, <1>3, OnPrepared, OutcomeNext

LEMMA RerandomizeStepOutcome ==
  ASSUME SessionInv, OutcomeInv, NEW i \in call.todo, RerandomizeStep(i)
  PROVE  OutcomeInv'
<1> DEFINE t == RerandomizeWithSharedInPlace(ps[i], ps[Core].comm_W_shared,
                                             ps[Core].r_W_shared, i, calls)
<1>1. /\ phase = "rerandomize" /\ phase' = phase
      /\ ps' = [ps EXCEPT ![i] = t] /\ pk' = pk /\ prepped' = prepped
      /\ cache' = cache /\ proofs' = proofs
  BY DEF RerandomizeStep
<1>2. i \in DOMAIN ps /\ i \in Nat
  BY <1>1, Prepared DEF SessionInv, TypeOK
<1>3. Usable(t, ShapeAt(i)) /\ t.W = ps[i].W
  <2>1. /\ pk \in Keys /\ calls \in Nat
        /\ ShapeAt(i) \in SegmentShape /\ Usable(ps[i], ShapeAt(i))
        /\ ShapeAt(Core) \in SegmentShape /\ Usable(ps[Core], ShapeAt(Core))
        /\ ps[i].W.shared = ps[Core].W.shared
    BY <1>1, <1>2, Prepared
  <2>2. /\ Usable(t, ShapeAt(i))
        /\ t.comm_W_shared = ps[Core].comm_W_shared
        /\ t.r_W_shared = ps[Core].r_W_shared
        /\ t.W = ps[i].W
    BY <1>2, <2>1, RerandomizeWithSharedUsable
  <2>3. QED
    BY <2>2
<1> HIDE DEF t
<1>4. DOMAIN ps' = DOMAIN ps /\ \A j \in DOMAIN ps : ps'[j].W = ps[j].W
  BY <1>1, <1>2, <1>3
<1>5. QED
  BY <1>1, <1>4, OnPrepared, OutcomeNext

(* A prove that ends in an error delivers nothing. *)
LEMMA DropPrepOutcome ==
  ASSUME SessionInv, OutcomeInv, phase \in {"prepped", "rerandomize", "build"},
         DropPrep, pk' = pk, proofs' = proofs
  PROVE  OutcomeInv'
<1>1. prepped' = None /\ phase' = "idle"
  BY DEF DropPrep
<1>2. QED
  BY <1>1, OnPrepared, OutcomeNext

LEMMA CheckInputsOutcome ==
  ASSUME SessionInv, OutcomeInv, CheckInputs
  PROVE  OutcomeInv'
<1>1. phase = "rerandomize" /\ pk' = pk /\ proofs' = proofs
  BY DEF CheckInputs
<1>2. CASE DropPrep
  BY <1>1, <1>2, DropPrepOutcome
<1>3. CASE /\ InputsMatch
           /\ phase' = "build"
           /\ call' = [call EXCEPT !.todo = DOMAIN ps]
           /\ UNCHANGED <<prepped, ps, cache, inst>>
  <2>1. call'.batch = call.batch /\ call'.todo = DOMAIN ps /\ inst' = <<>>
    BY <1>1, <1>3 DEF SessionInv, TypeOK
  <2>2. InputsMatch'
    BY <1>1, <1>3, <2>1 DEF InputsMatch, PublicValues
  <2>3. DOMAIN inst' = {}
    BY <2>1
  <2>4. QED
    BY <1>1, <1>3, <2>1, <2>2, <2>3, OnPrepared, OutcomeNext
<1>4. QED
  BY <1>2, <1>3 DEF CheckInputs

(* The prepared state t that r1cs_instance_and_witness leaves of s. *)
Continues(t, s, S) ==
  Usable(t, S) /\ t.comm_W_shared = s.comm_W_shared /\ t.W = s.W

LEMMA BuildContinues ==
  ASSUME pk \in Keys, NEW S \in SegmentShape, NEW s, Usable(s, S),
         NEW c \in Circuit, NEW i \in Nat, NEW n \in Nat, NEW k \in Nat
  PROVE  Continues(R1csInstanceAndWitness(s, S, c, i, n, k).ps, s, S)
<1>1. /\ Usable(R1csInstanceAndWitness(s, S, c, i, n, k).ps, S)
      /\ R1csInstanceAndWitness(s, S, c, i, n, k).ps.comm_W_shared = s.comm_W_shared
      /\ R1csInstanceAndWitness(s, S, c, i, n, k).ps.r_W_shared = s.r_W_shared
      /\ R1csInstanceAndWitness(s, S, c, i, n, k).ps.W = s.W
  BY BuildUsable
<1>2. QED
  BY <1>1 DEF Continues

(* A worker of build, and the outcome. *)
LEMMA BuildInstanceOutcome ==
  ASSUME SessionInv, OutcomeInv, NEW i \in call.todo, BuildInstance(i)
  PROVE  OutcomeInv'
<1> DEFINE b == R1csInstanceAndWitness(ps[i], ShapeAt(i), CircuitAt(call.batch, i), i,
                                       Len(call.batch.steps), calls)
           made == [U |-> b.U, W |-> b.W, r_W |-> b.r_W]
<1>1. /\ phase = "build" /\ phase' = phase
      /\ ps' = [ps EXCEPT ![i] = b.ps]
      /\ inst' = [j \in DOMAIN inst \cup {i} |-> IF j = i THEN made ELSE inst[j]]
      /\ call' = [call EXCEPT !.todo = @ \ {i}]
      /\ pk' = pk /\ prepped' = prepped /\ cache' = cache /\ proofs' = proofs
  BY Zenon DEF BuildInstance
<1>2. /\ call.batch \in Batches /\ DOMAIN ps = Indices(call.batch)
      /\ i \in DOMAIN ps /\ call.todo \subseteq DOMAIN ps
      /\ call'.batch = call.batch /\ call'.todo = call.todo \ {i}
  BY <1>1 DEF SessionInv, TypeOK
<1>3. /\ pk \in Keys /\ prepped \in Batches /\ calls \in Nat /\ Core \in DOMAIN ps
      /\ Usable(ps[i], ShapeAt(i)) /\ ps[i].W = WitnessOf(prepped, i)
  BY <1>1, <1>2, Prepared, OnPrepared
<1>4. /\ BuiltFrom(made, i, prepped, call.batch)
      /\ b.U.comm_W_shared = ps[i].comm_W_shared
  <2>1. i \in Indices(call.batch)
    BY <1>2
  <2>2. b = R1csInstanceAndWitness(ps[i], ShapeAt(i), CircuitAt(call.batch, i), i,
                                   Len(call.batch.steps), calls)
    OBVIOUS
  <2> HIDE DEF b
  <2>3. QED
    BY <1>2, <1>3, <2>1, <2>2, BuildBuilt
<1>5. /\ Usable(b.ps, ShapeAt(i))
      /\ b.ps.comm_W_shared = ps[i].comm_W_shared /\ b.ps.W = ps[i].W
  <2> DEFINE c == CircuitAt(call.batch, i)
             n == Len(call.batch.steps)
             s == ps[i]
             S == ShapeAt(i)
  <2>1. /\ pk \in Keys /\ S \in SegmentShape /\ Usable(s, S)
        /\ c \in Circuit /\ i \in Nat /\ n \in Nat /\ calls \in Nat
    BY <1>2, <1>3, BatchType, ShapeType
  <2> HIDE DEF c, n, s, S
  <2>2. Continues(R1csInstanceAndWitness(s, S, c, i, n, calls).ps, s, S)
    BY <2>1, BuildContinues
  <2>3. QED
    BY <2>2 DEF Continues, c, n, s, S
<1>6. made.U = b.U
  BY Zenon
<1> HIDE DEF b, made
<1>7. /\ DOMAIN ps' = DOMAIN ps /\ \A j \in DOMAIN ps : ps'[j].W = ps[j].W
      /\ ps'[Core].comm_W_shared = ps[Core].comm_W_shared
  BY <1>1, <1>2, <1>3, <1>5
<1>8. /\ DOMAIN inst = DOMAIN ps \ call.todo /\ InputsMatch
      /\ \A j \in DOMAIN inst : BuiltFrom(inst[j], j, prepped, call.batch)
      /\ \A j \in DOMAIN inst : inst[j].U.comm_W_shared = ps[Core].comm_W_shared
  BY <1>1 DEF OutcomeInv
<1>9. ps[i].comm_W_shared = ps[Core].comm_W_shared
  BY <1>1, <1>2 DEF SessionInv, SharedCommitmentIsCommon
<1>10. /\ DOMAIN inst' = DOMAIN ps' \ call'.todo
       /\ \A j \in DOMAIN inst' : inst'[j] = IF j = i THEN made ELSE inst[j]
  BY <1>1, <1>2, <1>7, <1>8
<1>11. \A j \in DOMAIN inst' : BuiltFrom(inst'[j], j, prepped', call'.batch)
  <2> SUFFICES ASSUME NEW j \in DOMAIN inst'
               PROVE  BuiltFrom(inst'[j], j, prepped, call.batch)
    BY <1>1, <1>2
  <2>1. CASE j = i
    BY <1>4, <1>10, <2>1
  <2>2. CASE j # i
    <3>1. inst'[j] = inst[j] /\ j \in DOMAIN inst
      BY <1>1, <1>10, <2>2
    <3>2. QED
      BY <1>8, <3>1
  <2>3. QED
    BY <2>1, <2>2
<1>12. \A j \in DOMAIN inst' : inst'[j].U.comm_W_shared = ps'[Core].comm_W_shared
  BY <1>1, <1>4, <1>6, <1>7, <1>8, <1>9, <1>10
<1>13. InputsMatch'
  BY ZenonT(60), <1>1, <1>2, <1>7, <1>8 DEF InputsMatch, PublicValues
<1>14. QED
  BY <1>1, <1>7, <1>10, <1>11, <1>12, <1>13, OnPrepared, OutcomeNext

(* The proof a finished prove delivers. *)
LEMMA FinishDelivers ==
  ASSUME SessionInv, OutcomeInv, phase = "build", call.todo = {}
  PROVE  Faithful([proof |-> MakeProof(inst, Len(call.batch.steps)),
                   batch |-> call.batch, prepped |-> prepped])
<1> DEFINE P == MakeProof(inst, Len(call.batch.steps))
           p == [proof |-> P, batch |-> call.batch, prepped |-> prepped]
<1>1. /\ pk \in Keys /\ prepped \in Batches /\ call.batch \in Batches
      /\ DOMAIN ps = Indices(prepped) /\ DOMAIN ps = Indices(call.batch)
      /\ CacheIsOf(cache, prepped)
  BY OnPrepared DEF SessionInv
<1>2. /\ DOMAIN inst = Indices(call.batch)
      /\ \A i \in Indices(call.batch) : BuiltFrom(inst[i], i, prepped, call.batch)
      /\ \A i \in Indices(call.batch) :
           inst[i].U.comm_W_shared = ps[Core].comm_W_shared
  BY <1>1 DEF OutcomeInv
<1>3. cache # None => \A j \in StepsOf(call.batch) :
                        cache.public_values[j] = PublicValues(call.batch.steps[j])
  BY DEF OutcomeInv, InputsMatch
<1>4. /\ Verify(P, pk.n) <=> AcceptedBatch(pk, prepped, call.batch)
      /\ AcceptedBatch(pk, prepped, call.batch)
           => VerifiedValues(P) = ReportedValues(pk, call.batch)
  BY ZenonT(60), <1>1, <1>2, <1>3, Delivered
<1> HIDE DEF P
<1>5. p.proof = P /\ p.batch = call.batch /\ p.prepped = prepped
  BY Zenon
<1>6. Faithful(p)
  BY <1>1, <1>4, <1>5, Zenon DEF Faithful
<1>7. QED
  BY <1>6 DEF P

LEMMA FinishProveOutcome ==
  ASSUME SessionInv, OutcomeInv, FinishProve
  PROVE  OutcomeInv'
<1> DEFINE p == [proof |-> MakeProof(inst, Len(call.batch.steps)),
                 batch |-> call.batch, prepped |-> prepped]
<1>1. phase = "build" /\ call.todo = {} /\ pk' = pk
  BY DEF FinishProve
<1>2. CASE DropPrep /\ proofs' = proofs
  BY <1>1, <1>2, DropPrepOutcome
<1>3. CASE /\ proofs' = proofs \cup {p}
           /\ phase' = "prepped"
           /\ UNCHANGED <<prepped, ps, cache>>
  <2>1. Faithful(p)
    BY <1>1, FinishDelivers
  <2> HIDE DEF p
  <2>2. \A q \in proofs' : Faithful(q)
    BY <1>1, <1>3, <2>1, OnPrepared
  <2>3. QED
    BY <1>1, <1>3, <2>2, OnPrepared, OutcomeNext
<1>4. QED
  BY <1>2, <1>3 DEF FinishProve

LEMMA StutterOutcome ==
  ASSUME SessionInv, OutcomeInv, UNCHANGED vars
  PROVE  OutcomeInv'
<1>1. /\ pk' = pk /\ phase' = phase /\ prepped' = prepped /\ ps' = ps
      /\ cache' = cache /\ call' = call /\ inst' = inst /\ proofs' = proofs
  BY DEF vars
<1>2. CASE pk = None
  BY <1>1, <1>2 DEF OutcomeInv, SessionInv
<1>3. CASE pk # None
  <2>1. phase = "build" => InputsMatch'
    BY <1>1 DEF OutcomeInv, InputsMatch, PublicValues
  <2>2. QED
    BY <1>1, <1>3, <2>1, OutcomeNext DEF OutcomeInv
<1>4. QED
  BY <1>2, <1>3

LEMMA OutcomeStep == SessionInv /\ OutcomeInv /\ [Next]_vars => OutcomeInv'
<1> SUFFICES ASSUME SessionInv, OutcomeInv, [Next]_vars PROVE OutcomeInv'
  OBVIOUS
<1>1. ASSUME NEW key \in Keys, Setup(key) PROVE OutcomeInv'
  BY <1>1, SetupOutcome
<1>2. ASSUME NEW batch \in Batches, PrepProve(batch) PROVE OutcomeInv'
  BY <1>2, PrepProveOutcome
<1>3. ASSUME NEW batch \in Batches, Prove(batch) PROVE OutcomeInv'
  BY <1>3, ProveOutcome
<1>4. ASSUME NEW i \in call.todo, RerandomizeStep(i) PROVE OutcomeInv'
  BY <1>4, RerandomizeStepOutcome
<1>5. CASE CheckInputs
  BY <1>5, CheckInputsOutcome
<1>6. ASSUME NEW i \in call.todo, BuildInstance(i) PROVE OutcomeInv'
  BY <1>6, BuildInstanceOutcome
<1>7. CASE FinishProve
  BY <1>7, FinishProveOutcome
<1>8. CASE ProveFails
  <2>1. phase \in {"rerandomize", "build"} /\ DropPrep /\ pk' = pk /\ proofs' = proofs
    BY <1>8 DEF ProveFails
  <2>2. QED
    BY <2>1, DropPrepOutcome
<1>9. CASE UNCHANGED vars
  BY <1>9, StutterOutcome
<1>10. QED
  BY <1>1, <1>2, <1>3, <1>4, <1>5, <1>6, <1>7, <1>8, <1>9 DEF Next

LEMMA OutcomeHolds == Spec => [](SessionInv /\ OutcomeInv)
<1>1. QED
  BY InitInv, StepInv, InitOutcome, OutcomeStep, PTL DEF Spec

-----------------------------------------------------------------------------
(* What follows for the proofs delivered *)

LEMMA ProofsFaithful ==
  ASSUME SessionInv, OutcomeInv, NEW p \in proofs
  PROVE  pk \in Keys /\ p.batch \in Batches /\ p.prepped \in Batches /\ Faithful(p)
BY DEF SessionInv, TypeOK, Option, OutcomeInv, Faithful

LEMMA CurrentProducts == SessionInv /\ OutcomeInv => CachedProductsAreCurrent
<1> SUFFICES ASSUME SessionInv, OutcomeInv, cache # None, NEW i \in DOMAIN inst \ {Core}
             PROVE  cache.matvec[i] = MultiplyVec(inst[i].W, RegularInstance(inst[i].U).X)
  BY DEF CachedProductsAreCurrent
<1>1. phase = "build"
  BY DEF SessionInv
<1>2. /\ pk \in Keys /\ prepped \in Batches /\ call.batch \in Batches
      /\ Indices(prepped) = Indices(call.batch) /\ i \in Indices(call.batch)
      /\ CacheIsOf(cache, prepped) /\ BuiltFrom(inst[i], i, prepped, call.batch)
  BY <1>1, OnPrepared DEF SessionInv, TypeOK, OutcomeInv
<1>3. cache # None => \A j \in StepsOf(call.batch) :
                        cache.public_values[j] = PublicValues(call.batch.steps[j])
  BY <1>1 DEF OutcomeInv, InputsMatch
<1>4. QED
  BY <1>2, <1>3, LayerIsCurrent

LEMMA HonestAccepted ==
  ASSUME pk \in Keys, NEW batch \in Batches, CommonShared(batch),
         Len(batch.steps) = pk.n, OrderSupported(pk)
  PROVE  AcceptedBatch(pk, batch, batch)
<1>1. ASSUME NEW i \in Indices(batch) PROVE Matches(i, batch, batch)
  <2> DEFINE c == CircuitAt(batch, i)
  <2>1. (IF pk.shared THEN c.sh ELSE Zero) = IF pk.shared THEN batch.steps[1].sh ELSE Zero
    BY DEF CommonShared
  <2>2. PublicValues(c) = <<Out[<<IF pk.shared THEN c.sh ELSE Zero, c.w>>]>>
    BY DEF PublicValues
  <2>3. QED
    BY <2>1, <2>2, Zenon DEF Matches
<1>2. QED
  BY <1>1, BatchAccepted

LEMMA HonestProofs == SessionInv /\ OutcomeInv => HonestProofsVerify
<1> SUFFICES ASSUME SessionInv, OutcomeInv, NEW p \in proofs,
                    p.batch = p.prepped, CommonShared(p.batch),
                    Len(p.batch.steps) = pk.n, OrderSupported(pk)
             PROVE  /\ Verify(p.proof, pk.n)
                    /\ \A i \in Indices(p.batch) :
                         VerifiedValues(p.proof)[i] = PublicValues(CircuitAt(p.batch, i))
  BY DEF HonestProofsVerify
<1>1. pk \in Keys /\ p.batch \in Batches /\ Faithful(p)
  BY ProofsFaithful
<1>2. AcceptedBatch(pk, p.prepped, p.batch)
  BY <1>1, HonestAccepted
<1>3. Verify(p.proof, pk.n) /\ VerifiedValues(p.proof) = ReportedValues(pk, p.batch)
  BY <1>1, <1>2 DEF Faithful
<1>4. QED
  BY <1>1, <1>3, BatchAccepted

LEMMA AcceptedProofs == SessionInv /\ OutcomeInv => AcceptedProofsAreTrue
<1> SUFFICES ASSUME SessionInv, OutcomeInv, NEW p \in proofs, NEW num \in 0 .. 4,
                    Verify(p.proof, num)
             PROVE  /\ Len(p.batch.steps) = pk.n
                    /\ \A i \in Indices(p.batch) :
                         VerifiedValues(p.proof)[i] = PublicValues(CircuitAt(p.batch, i))
                    /\ \E v \in SharedValue : \A i \in Indices(p.batch) :
                         \E w \in Private : VerifiedValues(p.proof)[i] = <<Out[<<v, w>>]>>
  BY DEF AcceptedProofsAreTrue
<1>1. pk \in Keys /\ p.batch \in Batches /\ p.prepped \in Batches /\ Faithful(p)
  BY ProofsFaithful
<1>2. num = pk.n
  BY Zenon DEF Verify, CountsAgree
<1>3. /\ AcceptedBatch(pk, p.prepped, p.batch)
      /\ VerifiedValues(p.proof) = ReportedValues(pk, p.batch)
  BY <1>1, <1>2 DEF Faithful
<1>4. /\ Len(p.batch.steps) = pk.n /\ Len(p.prepped.steps) = pk.n
      /\ \A i \in Indices(p.batch) : Matches(i, p.prepped, p.batch)
      /\ \A i \in Indices(p.batch) :
           VerifiedValues(p.proof)[i] = PublicValues(CircuitAt(p.batch, i))
  BY <1>1, <1>3, BatchAccepted
<1> DEFINE v == IF pk.shared THEN p.prepped.steps[1].sh ELSE Zero
<1>5. v \in SharedValue
  BY <1>1, BatchType DEF SharedValue, Circuit
<1>6. ASSUME NEW i \in Indices(p.batch)
      PROVE  \E w \in Private : VerifiedValues(p.proof)[i] = <<Out[<<v, w>>]>>
  <2>1. i \in Indices(p.prepped)
    BY <1>4 DEF Indices, StepsOf
  <2>2. CircuitAt(p.batch, i).w \in Private /\ CircuitAt(p.prepped, i).w \in Private
    BY <1>1, <2>1, BatchType DEF Circuit
  <2>3. PublicValues(CircuitAt(p.batch, i))
          = <<Out[<<v, IF ShapeAt(i).precommitted THEN CircuitAt(p.prepped, i).w
                       ELSE CircuitAt(p.batch, i).w>>]>>
    BY <1>4, Zenon DEF Matches
  <2> HIDE DEF v
  <2>4. QED
    BY <1>4, <2>2, <2>3
<1>7. QED
  BY <1>4, <1>5, <1>6

-----------------------------------------------------------------------------
(* The actions of the service, in terms of what the client knows *)

Views == [s \in {"prep"} |-> prepped]
Requests == [s \in {"prep"} |-> call.batch]
Delivery(p) ==
  [prepared |-> p.prepped, input |-> p.batch,
   values |-> IF Verify(p.proof, pk.n) THEN VerifiedValues(p.proof) ELSE None,
   accepted |-> Verify(p.proof, pk.n)]
Deliveries == {Delivery(p) : p \in proofs}

LEMMA ServiceInit ==
  Service!Init <=> /\ pk = None
                   /\ Views = [s \in {"prep"} |-> None]
                   /\ Requests = [s \in {"prep"} |-> None]
                   /\ Deliveries = {}
BY Zenon DEF Service!Init, Views, Requests, Deliveries, Delivery

LEMMA ServiceStutter ==
  ASSUME UNCHANGED <<pk, Views, Requests, Deliveries>>
  PROVE  UNCHANGED Service!vars
BY Zenon DEF Service!vars, Views, Requests, Deliveries, Delivery

LEMMA ServiceSetup ==
  ASSUME NEW k, pk = None, pk' = k, UNCHANGED <<Views, Requests, Deliveries>>
  PROVE  Service!Setup(k)
BY Zenon DEF Service!Setup, Views, Requests, Deliveries, Delivery

LEMMA ServicePrepare ==
  ASSUME NEW s, NEW input, pk # None, Requests[s] = None,
         Views' = [Views EXCEPT ![s] = input], UNCHANGED <<pk, Requests, Deliveries>>
  PROVE  Service!Prepare(s, input)
BY Zenon DEF Service!Prepare, Summary, Views, Requests, Deliveries, Delivery

LEMMA ServiceRequest ==
  ASSUME NEW s, NEW input, Views[s] # None, Requests[s] = None,
         Requests' = [Requests EXCEPT ![s] = input],
         UNCHANGED <<pk, Views, Deliveries>>
  PROVE  Service!Request(s, input)
BY Zenon DEF Service!Request, Views, Requests, Deliveries, Delivery

LEMMA ServiceDeliver ==
  ASSUME NEW s, Requests[s] # None,
         Deliveries' = Deliveries \cup
           {[prepared |-> Views[s], input |-> Requests[s],
             values   |-> IF AcceptedBatch(pk, Views[s], Requests[s])
                            THEN ReportedValues(pk, Requests[s]) ELSE None,
             accepted |-> AcceptedBatch(pk, Views[s], Requests[s])]},
         Views' = [Views EXCEPT ![s] = Views[s]],
         Requests' = [Requests EXCEPT ![s] = None], UNCHANGED pk
  PROVE  Service!Deliver(s)
BY Zenon DEF Service!Deliver, After, Views, Requests, Deliveries, Delivery

LEMMA ServiceFail ==
  ASSUME NEW s, Requests[s] # None,
         Views' = [Views EXCEPT ![s] = None], Requests' = [Requests EXCEPT ![s] = None],
         UNCHANGED <<pk, Deliveries>>
  PROVE  Service!Fail(s)
BY Zenon DEF Service!Fail, Views, Requests, Deliveries, Delivery

-----------------------------------------------------------------------------
(* Every action of the prover is an action of the service, or hidden. *)

(* The prepared state is now of the batch v and the request is r. *)
Moves(v, r) ==
  /\ Views' = [Views EXCEPT !["prep"] = v]
  /\ Requests' = [Requests EXCEPT !["prep"] = r]

LEMMA MovesTo ==
  ASSUME NEW v, NEW r, prepped' = v, call'.batch = r
  PROVE  /\ Moves(v, r)
         /\ v = prepped => Views' = Views
         /\ r = call.batch => Requests' = Requests
<1>1. Views' = [s \in {"prep"} |-> v] /\ Requests' = [s \in {"prep"} |-> r]
  BY DEF Views, Requests
<1>2. QED
  BY <1>1 DEF Moves, Views, Requests

LEMMA ViewNow == Views["prep"] = prepped /\ Requests["prep"] = call.batch
BY DEF Views, Requests

(* Verifying a proof depends on the key alone. *)
LEMMA DeliveriesStep ==
  ASSUME pk' = pk, NEW new, proofs' = proofs \cup new
  PROVE  Deliveries' = Deliveries \cup {Delivery(p) : p \in new}
<1>1. ASSUME NEW p PROVE Verify(p.proof, pk.n)' = Verify(p.proof, pk.n)
  BY Zenon DEF Verify, CountsAgree, Validate
<1>2. ASSUME NEW p PROVE Delivery(p)' = Delivery(p)
  BY <1>1, Zenon DEF Delivery
<1>3. Deliveries' = {Delivery(p)' : p \in proofs'}
  BY Zenon DEF Deliveries
<1>4. QED
  BY <1>2, <1>3 DEF Deliveries

LEMMA SameDeliveries ==
  ASSUME pk' = pk, proofs' = proofs
  PROVE  Deliveries' = Deliveries
<1>1. proofs' = proofs \cup {}
  OBVIOUS
<1>2. Deliveries' = Deliveries \cup {Delivery(p) : p \in {}}
  BY <1>1, DeliveriesStep
<1>3. QED
  BY <1>2

(* Steps that keep the batch prepared and the batch requested are hidden. *)
LEMMA HiddenStep ==
  ASSUME pk' = pk, prepped' = prepped, call'.batch = call.batch, proofs' = proofs
  PROVE  UNCHANGED Service!vars
BY MovesTo, SameDeliveries, ServiceStutter

LEMMA InitMaps == Init => Service!Init
<1> SUFFICES ASSUME Init PROVE Service!Init
  OBVIOUS
<1>1. pk = None /\ prepped = None /\ call.batch = None /\ proofs = {}
  BY DEF Init, NoCall
<1>2. QED
  BY <1>1, ServiceInit DEF Views, Requests, Deliveries

LEMMA SetupMaps ==
  ASSUME SessionInv, OutcomeInv, NEW key \in Keys, Setup(key)
  PROVE  Service!Setup(key)
<1>1. /\ pk = None /\ pk' = key /\ proofs = {} /\ proofs' = {}
      /\ prepped' = prepped /\ call' = call
  BY DEF Setup, SessionInv, OutcomeInv
<1>2. Views' = Views /\ Requests' = Requests
  BY <1>1 DEF Views, Requests
<1>3. Deliveries = {} /\ Deliveries' = {}
  <2>1. Deliveries' = {Delivery(p)' : p \in proofs'}
    BY Zenon DEF Deliveries
  <2>2. QED
    BY <1>1, <2>1 DEF Deliveries
<1>4. QED
  BY <1>1, <1>2, <1>3, ServiceSetup

LEMMA PrepProveMaps ==
  ASSUME SessionInv, OutcomeInv, NEW batch \in Batches, PrepProve(batch)
  PROVE  Service!Prepare("prep", batch)
<1>1. /\ phase \in {"idle", "prepped"} /\ pk' = pk /\ prepped' = batch
      /\ call' = call /\ proofs' = proofs
  BY DEF PrepProve
<1>2. pk # None /\ call.batch = None
  BY <1>1 DEF SessionInv, NoCall
<1>3. Moves(batch, call.batch) /\ Requests' = Requests
  BY <1>1, MovesTo
<1>4. QED
  BY <1>1, <1>2, <1>3, ViewNow, SameDeliveries, ServicePrepare DEF Moves

LEMMA ProveMaps ==
  ASSUME SessionInv, OutcomeInv, NEW batch \in Batches, Prove(batch)
  PROVE  Service!Request("prep", batch)
<1>1. /\ phase = "prepped" /\ pk' = pk /\ prepped' = prepped
      /\ call'.batch = batch /\ proofs' = proofs
  BY DEF Prove
<1>2. prepped # None /\ call.batch = None
  BY <1>1 DEF SessionInv, NoCall
<1>3. Moves(prepped, batch) /\ Views' = Views
  BY <1>1, MovesTo
<1>4. QED
  BY <1>1, <1>2, <1>3, ViewNow, SameDeliveries, ServiceRequest DEF Moves

LEMMA DropPrepMaps ==
  ASSUME SessionInv, OutcomeInv, phase \in {"rerandomize", "build"},
         DropPrep, pk' = pk, proofs' = proofs
  PROVE  Service!Fail("prep")
<1>1. prepped' = None /\ call'.batch = None
  BY DEF DropPrep, NoCall
<1>2. call.batch # None
  BY NoneAssumption DEF SessionInv
<1>3. Moves(None, None)
  BY <1>1, MovesTo
<1>4. QED
  BY <1>2, <1>3, ViewNow, SameDeliveries, ServiceFail DEF Moves

LEMMA FinishProveMaps ==
  ASSUME SessionInv, OutcomeInv, FinishProve
  PROVE  Service!Deliver("prep") \/ Service!Fail("prep")
<1> DEFINE p == [proof |-> MakeProof(inst, Len(call.batch.steps)),
                 batch |-> call.batch, prepped |-> prepped]
<1>1. phase = "build" /\ call.todo = {} /\ pk' = pk
  BY DEF FinishProve
<1>2. CASE DropPrep /\ proofs' = proofs
  BY <1>1, <1>2, DropPrepMaps
<1>3. CASE /\ proofs' = proofs \cup {p}
           /\ call' = NoCall
           /\ UNCHANGED <<prepped, ps, cache>>
  <2>1. Faithful(p) /\ p.prepped = prepped /\ p.batch = call.batch
    BY <1>1, FinishDelivers
  <2> HIDE DEF p
  <2>2. /\ AcceptedBatch(pk, prepped, call.batch) = Verify(p.proof, pk.n)
        /\ Verify(p.proof, pk.n)
             => VerifiedValues(p.proof) = ReportedValues(pk, call.batch)
    <3>1. /\ AcceptedBatch(pk, prepped, call.batch) \in BOOLEAN
          /\ Verify(p.proof, pk.n) \in BOOLEAN
      BY DEF AcceptedBatch, Verify
    <3>2. QED
      BY <2>1, <3>1 DEF Faithful
  <2>3. Delivery(p) = [prepared |-> prepped, input |-> call.batch,
                       values   |-> IF AcceptedBatch(pk, prepped, call.batch)
                                      THEN ReportedValues(pk, call.batch) ELSE None,
                       accepted |-> AcceptedBatch(pk, prepped, call.batch)]
    BY <2>1, <2>2, Zenon DEF Delivery
  <2>4. Deliveries' = Deliveries \cup {Delivery(q) : q \in {p}}
    BY <1>1, <1>3, DeliveriesStep
  <2>5. Deliveries' = Deliveries \cup {Delivery(p)}
    BY <2>4
  <2>6. prepped' = prepped /\ call'.batch = None
    BY <1>3 DEF NoCall
  <2>7. call.batch # None
    BY <1>1, NoneAssumption DEF SessionInv
  <2>8. Moves(prepped, None)
    BY <2>6, MovesTo
  <2>9. Service!Deliver("prep")
    BY <1>1, <2>3, <2>5, <2>7, <2>8, ViewNow, ServiceDeliver DEF Moves
  <2>10. QED
    BY <2>9
<1>4. QED
  BY <1>2, <1>3 DEF FinishProve

LEMMA StepMaps ==
  SessionInv /\ OutcomeInv /\ [Next]_vars => [Service!Next]_(Service!vars)
<1> SUFFICES ASSUME SessionInv, OutcomeInv, [Next]_vars
             PROVE  [Service!Next]_(Service!vars)
  OBVIOUS
<1>1. CASE \E key \in Keys : Setup(key)
  BY <1>1, SetupMaps DEF Service!Next
<1>2. CASE \E batch \in Batches : PrepProve(batch)
  BY <1>2, PrepProveMaps DEF Service!Next
<1>3. CASE \E batch \in Batches : Prove(batch)
  BY <1>3, ProveMaps DEF Service!Next
<1>4. CASE \E i \in call.todo : RerandomizeStep(i) \/ BuildInstance(i)
  <2>1. /\ pk' = pk /\ prepped' = prepped /\ proofs' = proofs
        /\ \E i : call' = [call EXCEPT !.todo = @ \ {i}]
    BY <1>4 DEF RerandomizeStep, BuildInstance
  <2>2. call'.batch = call.batch
    BY <2>1 DEF SessionInv, TypeOK
  <2>3. QED
    BY <2>1, <2>2, HiddenStep
<1>5. CASE CheckInputs
  <2>1. phase = "rerandomize" /\ pk' = pk /\ proofs' = proofs
    BY <1>5 DEF CheckInputs
  <2>2. CASE DropPrep
    BY <2>1, <2>2, DropPrepMaps DEF Service!Next, Service!Answer
  <2>3. CASE prepped' = prepped /\ call' = [call EXCEPT !.todo = DOMAIN ps]
    <3>1. call'.batch = call.batch
      BY <2>3 DEF SessionInv, TypeOK
    <3>2. QED
      BY <2>1, <2>3, <3>1, HiddenStep
  <2>4. QED
    BY <1>5, <2>2, <2>3 DEF CheckInputs
<1>6. CASE FinishProve
  BY <1>6, FinishProveMaps DEF Service!Next, Service!Answer
<1>7. CASE ProveFails
  <2>1. phase \in {"rerandomize", "build"} /\ DropPrep /\ pk' = pk /\ proofs' = proofs
    BY <1>7 DEF ProveFails
  <2>2. QED
    BY <2>1, DropPrepMaps DEF Service!Next, Service!Answer
<1>8. CASE UNCHANGED vars
  BY <1>8, HiddenStep DEF vars
<1>9. QED
  BY <1>1, <1>2, <1>3, <1>4, <1>5, <1>6, <1>7, <1>8 DEF Next

-----------------------------------------------------------------------------
(* Theorems *)

(* cached_step_matvec, made by prep_prove, is the product of the witness    *)
(* and public inputs of every instance that any later prove builds.         *)
THEOREM CachedCurrent == Spec => []CachedProductsAreCurrent
<1>1. QED
  BY CurrentProducts, OutcomeHolds, PTL

(* However often a prepared state was used before, a prove on its own batch *)
(* yields a proof that verify accepts, with the values of the circuits.     *)
THEOREM HonestVerify == Spec => []HonestProofsVerify
<1>1. QED
  BY HonestProofs, OutcomeHolds, PTL

(* Whatever batches prep_prove and prove were given, a proof that verify    *)
(* accepts has the steps of the key and reports the values of the batch     *)
(* requested, all outputs for one value of the shared variables.            *)
THEOREM AcceptedTrue == Spec => []AcceptedProofsAreTrue
<1>1. QED
  BY AcceptedProofs, OutcomeHolds, PTL

(* Whatever its blinds and caches, and in whatever order its workers ran, a *)
(* client of vega_mc_zkp.rs sees what the service promises: each prove      *)
(* fails and takes the prepared state with it, or delivers a proof that     *)
(* verifies exactly when the two batches and the key say.                   *)
THEOREM RefinesService == Spec => Service!SafeSpec
<1>1. QED
  BY InitMaps, StepMaps, OutcomeHolds, PTL DEF Spec, Service!SafeSpec

=============================================================================
