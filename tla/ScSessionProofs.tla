-------------------------- MODULE ScSessionProofs --------------------------
(***************************************************************************)
(* Proofs about ScSession, for any keys, circuits, values, slots and       *)
(* number of calls: types and openings, the cached rest, soundness, blinds *)
(* that no two proofs share, and the refinement of ProvingService.         *)
(***************************************************************************)
EXTENDS ScSession, TLAPS

(* A commitment to v under r, of an entry claimed to be small or not.       *)
OpensUnderAClaim(comm, v, r) ==
  \E claim \in BOOLEAN : comm = Commit(CommitWithoutBlind(v, claim), r)

(* The stored segments are those of the circuit prep_prove ran on, and the  *)
(* assignment still starts with them, wherever the last prove left it.      *)
HoldsPrep(p) ==
  /\ p.W.shared = IF pk.shared THEN p.of.sh ELSE Zero
  /\ p.W.precommitted = IF pk.precommitted THEN p.of.w ELSE Zero
  /\ Len(p.aux) \in PrepAuxLen .. PrepAuxLen + (IF pk.rest THEN 1 ELSE 0)
  /\ pk.shared => p.aux[1] = p.W.shared
  /\ pk.precommitted => p.aux[PrepAuxLen] = p.W.precommitted
  /\ p.cached_product = PrecommittedProduct(p.W)

SharedOpens(p) ==
  /\ p.comm_W_shared # None <=> pk.shared
  /\ pk.shared => /\ p.r_W_shared \in Atom /\ p.r_W_shared.segment = "shared"
                  /\ OpensUnderAClaim(p.comm_W_shared, p.W.shared, p.r_W_shared)

PrecommittedOpens(p) ==
  /\ p.comm_W_precommitted # None <=> pk.precommitted
  /\ pk.precommitted =>
       /\ p.r_W_precommitted \in Atom /\ p.r_W_precommitted.segment = "precommitted"
       /\ OpensUnderAClaim(p.comm_W_precommitted, p.W.precommitted, p.r_W_precommitted)

CacheIsPair(p) ==
  /\ p.cached_rest_msm = None <=> p.cached_rest_witness = None
  /\ p.cached_rest_msm # None =>
       /\ pk.zk
       /\ \E claim \in BOOLEAN :
            p.cached_rest_msm = CommitWithoutBlind(p.cached_rest_witness, claim)

(* A prepared state, at any stage of any prove. *)
Usable(p) ==
  /\ p \in PreparedState
  /\ HoldsPrep(p)
  /\ SharedOpens(p)
  /\ PrecommittedOpens(p)
  /\ CacheIsPair(p)

(* No commitment of the prepared state was truncated by a false claim. *)
StoredAreWhole(p) ==
  /\ pk.shared => OpensWhole(p.comm_W_shared, p.W.shared, p.r_W_shared)
  /\ pk.precommitted =>
       OpensWhole(p.comm_W_precommitted, p.W.precommitted, p.r_W_precommitted)
CacheIsWhole(p) ==
  p.cached_rest_msm # None => p.cached_rest_msm = <<"whole", p.cached_rest_witness>>

(* Between two proves, sound says exactly that; and a plain prove leaves no *)
(* rest behind.                                                             *)
Resting(p) ==
  /\ p.sound <=> StoredAreWhole(p) /\ CacheIsWhole(p)
  /\ p.scratch # "taken" /\ p.z_buffer # "taken"
  /\ ~pk.zk => p.W.rest = Zero

(* The rest segment that a running prove computes. *)
RestOf(r) == IF pk.rest THEN RestValue(r.input.circuit, r.challenges) ELSE Zero

(* A prove up to its rest commitment ... *)
BeforeCommit(p, r) ==
  /\ r.stage \in IF pk.zk THEN {"synthesize", "commit"} ELSE {"build"}
  /\ r.before.sound <=> StoredAreWhole(p) /\ CacheIsWhole(p)
  /\ r.before.first <=> p.cached_rest_msm = None
  /\ r.stage = "commit" => p.W.rest = RestOf(r)
  /\ r.stage = "build" => p.W.rest = Zero

(* ... and with its instance and witness, whose commitments are whole        *)
(* exactly when no claim was false.                                          *)
AfterCommit(p, r) ==
  /\ r.stage \in {"multiply", "argue"}
  /\ r.W = [shared |-> p.W.shared, precommitted |-> p.W.precommitted, rest |-> RestOf(r)]
  /\ r.r_W = <<p.r_W_shared, p.r_W_precommitted, Blind(r.k, "rest")>>
  /\ r.U = [comm_W_shared |-> p.comm_W_shared,
            comm_W_precommitted |-> p.comm_W_precommitted,
            comm_W_rest |-> Commit(r.U.comm_W_rest.v, Blind(r.k, "rest")),
            public_values |-> Values(pk, r.input.circuit),
            challenges |-> r.challenges]
  /\ StillSound(r.before, pk, r.input)
       <=> StoredAreWhole(p) /\ r.U.comm_W_rest.v = <<"whole", RestOf(r)>>
  /\ r.before.sound => StoredAreWhole(p)
  /\ IF pk.zk THEN StillSound(r.before, pk, r.input)
                     <=> StoredAreWhole(p) /\ CacheIsWhole(p)
              ELSE /\ p.W.rest = Zero /\ r.before.first
                   /\ p.sound <=> StoredAreWhole(p)
  /\ pk.zk <=> p.cached_rest_msm # None
  /\ r.stage = "argue" =>
       /\ r.z = [W |-> r.W, X |-> r.U.public_values \o r.U.challenges]
       /\ r.product = Product(r.z)

Proving(p, r) ==
  /\ r.before.of = p.of /\ r.before.sound = p.sound
  /\ r.challenges = Challenges(Values(pk, r.input.circuit), p.comm_W_shared,
                               p.comm_W_precommitted)
  /\ BeforeCommit(p, r) \/ AfterCommit(p, r)
  /\ (p.scratch = "taken" \/ p.z_buffer = "taken") <=> r.stage = "argue"
  /\ pk.zk => /\ pk.shared => p.r_W_shared = Blind(r.k, "shared")
              /\ pk.precommitted => p.r_W_precommitted = Blind(r.k, "precommitted")

SlotInv(p, r) ==
  /\ p # None => Usable(p)
  /\ p # None /\ r = None => Resting(p)
  /\ r # None => p # None /\ Proving(p, r)

(* What a proof commits to: what was prepared and the rest of the requested *)
(* circuit, exactly when no claim behind it was false.                      *)
CommitsToCurrent(p) ==
  LET U == p.proof.U
      rest == IF pk.rest THEN RestValue(p.input.circuit, U.challenges) ELSE Zero
  IN  StillSound(p.before, pk, p.input) <=>
        /\ pk.shared => U.comm_W_shared.v = <<"whole", p.before.of.sh>>
        /\ pk.precommitted => U.comm_W_precommitted.v = <<"whole", p.before.of.w>>
        /\ U.comm_W_rest.v = <<"whole", rest>>

(* What a prove delivers: such a proof, that verifies exactly when Accepted *)
(* says.                                                                    *)
Delivered(p) ==
  /\ p.proof.U.public_values = Values(pk, p.input.circuit)
  /\ Verify(p.proof) <=> Accepted(pk, p.before, p.input)
  /\ CommitsToCurrent(p)

SessionInv ==
  /\ TypeOK
  /\ pk = None => proofs = {} /\ \A s \in Slots : prep[s] = None /\ run[s] = None
  /\ \A s \in Slots : SlotInv(prep[s], run[s])
  /\ \A p \in proofs : Delivered(p)
-----------------------------------------------------------------------------
(* Commitments *)

(* A blind drawn in some call for a segment is an atom. *)
LEMMA BlindIsAtom ==
  ASSUME NEW k \in Nat, NEW segment \in {"shared", "precommitted", "rest"}
  PROVE  Blind(k, segment) \in Atom /\ Blind(k, segment).segment = segment
BY DEF Blind, Atom

LEMMA BlindInjective ==
  ASSUME NEW k, NEW l, NEW segment, NEW other, Blind(k, segment) = Blind(l, other)
  PROVE  k = l /\ segment = other
BY DEF Blind

(* A commitment is determined by its point and its blind. *)
LEMMA CommitInjective ==
  ASSUME NEW v, NEW w, NEW r, NEW s, Commit(v, r) = Commit(w, s)
  PROVE  v = w /\ r = s
<1>1. Commit(v, r).v = v /\ Commit(w, s).v = w
  BY DEF Commit
<1>2. Commit(v, r).plus = {r} /\ Commit(w, s).plus = {s}
  BY DEF Commit
<1>3. QED
  BY <1>1, <1>2

LEMMA CommitType ==
  ASSUME NEW P, NEW v \in P, NEW r \in Atom
  PROVE  Commit(v, r) \in CommitmentTo(P)
BY DEF Commit, CommitmentTo

LEMMA RerandomizeOpens ==
  ASSUME NEW v, NEW r, NEW s
  PROVE  RerandomizeCommitment(Commit(v, r), r, s) = Commit(v, s)
BY DEF RerandomizeCommitment, Commit

(* A claim keeps the whole value exactly when it is true.                   *)
LEMMA ClaimedPoint ==
  ASSUME NEW S, NEW v \in S, NEW claim \in BOOLEAN
  PROVE  /\ CommitWithoutBlind(v, claim) \in Point(S)
         /\ CommitWithoutBlind(v, claim) = <<"whole", v>> <=> (claim => FitsWord(v))
<1>1. CASE claim /\ ~FitsWord(v)
  <2>1. CommitWithoutBlind(v, claim) = <<"truncated", v>>
    BY <1>1 DEF CommitWithoutBlind
  <2>2. <<"truncated", v>> # <<"whole", v>>
    OBVIOUS
  <2>3. <<"truncated", v>> \in Point(S)
    BY DEF Point
  <2>4. QED
    BY <1>1, <2>1, <2>2, <2>3
<1>2. CASE ~(claim /\ ~FitsWord(v))
  BY <1>2 DEF CommitWithoutBlind, Point
<1>3. QED
  BY <1>1, <1>2

(* The difference to another value gives the whole new value exactly when   *)
(* the point it is added to was the whole old one.                          *)
LEMMA AddDeltaPoint ==
  ASSUME NEW old \in RestSegment, NEW new \in RestSegment,
         NEW claim \in BOOLEAN, NEW raw, raw = CommitWithoutBlind(old, claim)
  PROVE  /\ AddDelta(raw, new, old) \in BlindedPoint
         /\ AddDelta(raw, new, old) = <<"whole", new>> <=> raw = <<"whole", old>>
<1>1. raw \in Point(RestSegment) /\ raw \in {<<"whole", old>>, <<"truncated", old>>}
  BY ClaimedPoint DEF CommitWithoutBlind
<1>2. CASE new = old
  BY <1>1, <1>2 DEF AddDelta, BlindedPoint
<1>3. CASE new # old /\ raw = <<"whole", old>>
  BY <1>3 DEF AddDelta, BlindedPoint, Point
<1>4. CASE new # old /\ raw # <<"whole", old>>
  <2>1. AddDelta(raw, new, old) = <<"mixed", raw, new, old>>
    BY <1>4 DEF AddDelta
  <2>2. <<"mixed", raw, new, old>> # <<"whole", new>>
    <3>1. <<"mixed", raw, new, old>>[1] = "mixed" /\ <<"whole", new>>[1] = "whole"
      OBVIOUS
    <3>2. QED
      BY <3>1
  <2>3. <<"mixed", raw, new, old>> \in BlindedPoint
    BY <1>1 DEF BlindedPoint
  <2>4. QED
    BY <1>4, <2>1, <2>2, <2>3
<1>5. QED
  BY <1>2, <1>3, <1>4

-----------------------------------------------------------------------------
(* Values and constants *)

LEMMA KeyType ==
  ASSUME NEW k \in Keys
  PROVE  /\ k \in [zk : BOOLEAN, shared : BOOLEAN, precommitted : BOOLEAN,
                   rest : BOOLEAN, challenge : BOOLEAN]
         /\ k.precommitted \/ k.rest
         /\ k # None
BY KeysAssumption, NoneAssumption

LEMMA InputType ==
  ASSUME NEW input \in Inputs
  PROVE  /\ input.circuit \in Circuits /\ input.is_small \in BOOLEAN
         /\ input.circuit.sh \in Shared /\ input.circuit.w \in Private
         /\ input # None
BY ValuesAssumption, NoneAssumption DEF Inputs

LEMMA PrepAuxLenBound ==
  /\ PrepAuxLen \in 0 .. 2
  /\ pk.shared => PrepAuxLen >= 1
  /\ pk.precommitted => PrepAuxLen >= 1
BY DEF PrepAuxLen

(* A value fits in a word unless it is large; padding always fits, and the  *)
(* content of a rest segment when its input does and it has no challenges.  *)
LEMMA Fits ==
  /\ FitsWord(Zero)
  /\ \A v \in Shared \cup Private : FitsWord(v) <=> v \notin Large
  /\ \A v \in RestContent : FitsWord(v) <=> v.w \notin Large /\ v.challenges = <<>>
<1>1. Zero \in Value /\ Zero \notin Large
  BY ValuesAssumption DEF Value
<1>2. \A v \in Shared \cup Private : v \in Value
  BY DEF Value
<1>3. \A v \in RestContent : v \notin Value
  BY ValuesAssumption
<1>4. QED
  BY <1>1, <1>2, <1>3 DEF FitsWord

LEMMA ValuesType ==
  ASSUME NEW key \in Keys, NEW c \in Circuits
  PROVE  /\ Values(key, c) \in Seq(PublicValue)
         /\ Len(Values(key, c)) = 1
         /\ Values(key, c)[1] = Out[<<IF key.shared THEN c.sh ELSE Zero, c.w>>]
<1> DEFINE p == <<IF key.shared THEN c.sh ELSE Zero, c.w>>
<1>1. p \in DOMAIN Out
  BY ValuesAssumption
<1>2. Out[p] \in PublicValue
  BY <1>1 DEF PublicValue
<1>3. Values(key, c) = <<Out[p]>>
  BY DEF Values
<1> HIDE DEF p
<1>4. QED
  BY <1>2, <1>3 DEF p

LEMMA ChallengesType ==
  ASSUME pk \in Keys, NEW values \in Seq(PublicValue),
         NEW shared \in Option(CommitmentTo(Point(SharedValue))),
         NEW precommitted \in Option(CommitmentTo(Point(PrecommittedValue)))
  PROVE  /\ Challenges(values, shared, precommitted) \in Seq(Transcript)
         /\ pk.challenge <=> Challenges(values, shared, precommitted) # <<>>
<1> DEFINE tr == [public_values |-> values, shared |-> shared,
                  precommitted |-> precommitted]
<1>1. tr \in Transcript
  BY DEF Transcript
<1>2. Challenges(values, shared, precommitted) = IF pk.challenge THEN <<tr>> ELSE <<>>
  BY DEF Challenges
<1> HIDE DEF tr
<1>3. QED
  BY <1>1, <1>2

LEMMA Concat ==
  ASSUME NEW S, NEW f \in Seq(S), NEW g \in Seq(S)
  PROVE  /\ f \o g \in Seq(S) /\ Len(f \o g) = Len(f) + Len(g)
         /\ \A i \in 1 .. Len(f) : (f \o g)[i] = f[i]
         /\ \A i \in 1 .. Len(g) : (f \o g)[Len(f) + i] = g[i]
OBVIOUS

LEMMA Widen ==
  ASSUME NEW S, NEW T, NEW f
  PROVE  /\ f \in Seq(S) => f \in Seq(S \cup T)
         /\ f \in Seq(T) => f \in Seq(S \cup T)
OBVIOUS

LEMMA Optional ==
  ASSUME NEW S, NEW x \in S, NEW a \in BOOLEAN, NEW s, s = IF a THEN <<x>> ELSE <<>>
  PROVE  s \in Seq(S) /\ Len(s) = (IF a THEN 1 ELSE 0) /\ (a => s[1] = x)
OBVIOUS

(* The leading entries of an assignment. *)
LEMMA LeadingEntries ==
  ASSUME NEW S, NEW x \in S, NEW y \in S, NEW a \in BOOLEAN, NEW b \in BOOLEAN,
         NEW s, s = (IF a THEN <<x>> ELSE <<>>) \o (IF b THEN <<y>> ELSE <<>>)
  PROVE  /\ s \in Seq(S)
         /\ Len(s) = (IF a THEN 1 ELSE 0) + (IF b THEN 1 ELSE 0)
         /\ a => s[1] = x
         /\ b => s[(IF a THEN 1 ELSE 0) + (IF b THEN 1 ELSE 0)] = y
<1> DEFINE f == IF a THEN <<x>> ELSE <<>>
           g == IF b THEN <<y>> ELSE <<>>
<1>1. f \in Seq(S) /\ Len(f) = (IF a THEN 1 ELSE 0) /\ (a => f[1] = x)
  OBVIOUS
<1>2. g \in Seq(S) /\ Len(g) = (IF b THEN 1 ELSE 0) /\ (b => g[1] = y)
  OBVIOUS
<1>3. s = f \o g
  OBVIOUS
<1> HIDE DEF f, g
<1>4. /\ s \in Seq(S) /\ Len(s) = Len(f) + Len(g)
      /\ \A i \in 1 .. Len(f) : s[i] = f[i]
      /\ \A i \in 1 .. Len(g) : s[Len(f) + i] = g[i]
  BY <1>1, <1>2, <1>3, Concat
<1>5. a => s[1] = x
  BY <1>1, <1>4
<1>6. b => s[(IF a THEN 1 ELSE 0) + (IF b THEN 1 ELSE 0)] = y
  <2> SUFFICES ASSUME b PROVE s[Len(f) + 1] = y
    BY <1>1
  <2>1. QED
    BY <1>2, <1>4
<1>7. QED
  BY <1>1, <1>2, <1>4, <1>5, <1>6

-----------------------------------------------------------------------------
(* What the operators of prep_prove and prove make of a prepared state *)

(* prep_prove leaves a state that a prove can use, with the summary of its  *)
(* input.                                                                   *)
LEMMA PreparedUsable ==
  ASSUME pk \in Keys, NEW input \in Inputs, NEW k \in Nat
  PROVE  /\ Usable(Prepared(input, k))
         /\ Resting(Prepared(input, k))
         /\ Prepared(input, k).of = input.circuit
         /\ Prepared(input, k).sound = Summary(pk, input).sound
         /\ Prepared(input, k).cached_rest_msm = None
<1> DEFINE c  == input.circuit
           small == input.is_small
           sh == IF pk.shared THEN c.sh ELSE Zero
           pw == IF pk.precommitted THEN c.w ELSE Zero
           r  == Blind(k, "shared")
           rp == Blind(k, "precommitted")
           C  == Commit(CommitWithoutBlind(sh, small), r)
           Cp == Commit(CommitWithoutBlind(pw, small), rp)
           W  == [shared |-> sh, precommitted |-> pw, rest |-> Zero]
           aux == (IF pk.shared THEN <<sh>> ELSE <<>>)
                    \o (IF pk.precommitted THEN <<pw>> ELSE <<>>)
           sound == small => FitsWord(sh) /\ FitsWord(pw)
           p == Prepared(input, k)
<1>1. /\ c \in Circuits /\ small \in BOOLEAN
      /\ c.sh \in Shared /\ c.w \in Private
      /\ pk.shared \in BOOLEAN /\ pk.precommitted \in BOOLEAN
      /\ pk.rest \in BOOLEAN /\ pk.zk \in BOOLEAN
  BY InputType, KeyType
<1>2. sh \in SharedValue /\ pw \in PrecommittedValue
  BY <1>1 DEF SharedValue, PrecommittedValue
<1>3. /\ r \in Atom /\ rp \in Atom
      /\ r.segment = "shared" /\ rp.segment = "precommitted"
  BY BlindIsAtom
<1>4. p = [aux |-> aux, W |-> W,
           comm_W_shared |-> IF pk.shared THEN C ELSE None,
           r_W_shared |-> IF pk.shared THEN r ELSE None,
           comm_W_precommitted |-> IF pk.precommitted THEN Cp ELSE None,
           r_W_precommitted |-> IF pk.precommitted THEN rp ELSE None,
           cached_product |-> <<sh, pw>>,
           cached_rest_witness |-> None,
           cached_rest_msm |-> None,
           scratch |-> "zeros",
           z_buffer |-> "zeros",
           of |-> c,
           sound |-> sound]
  BY Zenon DEF Prepared, PrecommittedProduct
<1> HIDE DEF r, rp, p
<1>5. /\ C \in CommitmentTo(Point(SharedValue))
      /\ Cp \in CommitmentTo(Point(PrecommittedValue))
  BY <1>1, <1>2, <1>3, ClaimedPoint, CommitType
<1>6. C # None /\ Cp # None
  BY <1>5, NoneAssumption
<1>7. /\ C = Commit(<<"whole", sh>>, r) <=> (small => FitsWord(sh))
      /\ Cp = Commit(<<"whole", pw>>, rp) <=> (small => FitsWord(pw))
  <2>1. /\ CommitWithoutBlind(sh, small) = <<"whole", sh>> <=> (small => FitsWord(sh))
        /\ CommitWithoutBlind(pw, small) = <<"whole", pw>> <=> (small => FitsWord(pw))
    BY <1>1, <1>2, ClaimedPoint
  <2>2. QED
    BY <2>1, CommitInjective
<1>8. /\ \E claim \in BOOLEAN : C = Commit(CommitWithoutBlind(sh, claim), r)
      /\ \E claim \in BOOLEAN : Cp = Commit(CommitWithoutBlind(pw, claim), rp)
  BY <1>1
<1> HIDE DEF C, Cp
<1>9. /\ aux \in Seq(Value \cup RestContent)
      /\ Len(aux) = PrepAuxLen
      /\ pk.shared => aux[1] = sh
      /\ pk.precommitted => aux[PrepAuxLen] = pw
  <2>1. sh \in Value \cup RestContent /\ pw \in Value \cup RestContent
    BY <1>2 DEF SharedValue, PrecommittedValue, Value
  <2>2. PrepAuxLen = (IF pk.shared THEN 1 ELSE 0) + (IF pk.precommitted THEN 1 ELSE 0)
    BY DEF PrepAuxLen
  <2>3. aux = (IF pk.shared THEN <<sh>> ELSE <<>>)
                \o (IF pk.precommitted THEN <<pw>> ELSE <<>>)
    OBVIOUS
  <2> HIDE DEF sh, pw, aux, W
  <2>4. /\ aux \in Seq(Value \cup RestContent)
        /\ Len(aux) = (IF pk.shared THEN 1 ELSE 0) + (IF pk.precommitted THEN 1 ELSE 0)
        /\ pk.shared => aux[1] = sh
        /\ pk.precommitted
             => aux[(IF pk.shared THEN 1 ELSE 0) + (IF pk.precommitted THEN 1 ELSE 0)] = pw
    BY <1>1, <2>1, <2>3, LeadingEntries
  <2>5. QED
    BY <2>2, <2>4
<1> HIDE DEF aux
<1>10. W \in Witness /\ W.shared = sh /\ W.precommitted = pw /\ W.rest = Zero
  BY <1>2 DEF Witness, RestSegment
<1>11. sound \in BOOLEAN /\ (sound <=> Summary(pk, input).sound)
  BY <1>1, Fits DEF Summary
<1> HIDE DEF sh, pw, W, sound
<1>12. p \in PreparedState
  BY <1>1, <1>2, <1>3, <1>4, <1>5, <1>9, <1>10, <1>11 DEF PreparedState, Option, Buffer
<1>13. HoldsPrep(p)
  <2>1. PrepAuxLen \in PrepAuxLen .. PrepAuxLen + (IF pk.rest THEN 1 ELSE 0)
    BY PrepAuxLenBound
  <2>2. p.cached_product = PrecommittedProduct(p.W)
    BY <1>4, <1>10 DEF PrecommittedProduct
  <2>3. QED
    BY <1>4, <1>9, <1>10, <2>1, <2>2 DEF HoldsPrep, sh, pw, c
<1>14. SharedOpens(p)
  BY <1>3, <1>4, <1>6, <1>8, <1>10 DEF SharedOpens, OpensUnderAClaim
<1>15. PrecommittedOpens(p)
  BY <1>3, <1>4, <1>6, <1>8, <1>10 DEF PrecommittedOpens, OpensUnderAClaim
<1>16. CacheIsPair(p)
  BY <1>4 DEF CacheIsPair
<1>17. Usable(p)
  BY <1>12, <1>13, <1>14, <1>15, <1>16 DEF Usable
<1>18. StoredAreWhole(p) <=> sound
  <2>1. /\ ~pk.shared => FitsWord(sh)
        /\ ~pk.precommitted => FitsWord(pw)
    BY Fits DEF sh, pw
  <2>2. StoredAreWhole(p) <=> /\ pk.shared => C = Commit(<<"whole", sh>>, r)
                              /\ pk.precommitted => Cp = Commit(<<"whole", pw>>, rp)
    BY <1>4, <1>10 DEF StoredAreWhole, OpensWhole, Opens
  <2>3. QED
    BY <1>7, <2>1, <2>2 DEF sound
<1>19. Resting(p)
  BY <1>4, <1>10, <1>11, <1>18 DEF Resting, CacheIsWhole
<1>20. QED
  <2>1. /\ p.of = c /\ p.sound = sound /\ p.cached_rest_msm = None
    BY <1>4
  <2>2. sound = Summary(pk, input).sound
    BY <1>11 DEF Summary
  <2>3. QED
    BY <1>17, <1>19, <2>1, <2>2 DEF p

(* Rerandomizing one commitment: the point stays, the blind is the new one. *)
LEMMA RerandomizeOne ==
  ASSUME NEW v, NEW r, NEW new \in Atom, NEW comm, NEW S, v \in S,
         OpensUnderAClaim(comm, v, r)
  PROVE  /\ OpensUnderAClaim(RerandomizeCommitment(comm, r, new), v, new)
         /\ RerandomizeCommitment(comm, r, new) \in CommitmentTo(Point(S))
         /\ OpensWhole(RerandomizeCommitment(comm, r, new), v, new)
              <=> OpensWhole(comm, v, r)
<1>1. PICK claim \in BOOLEAN : comm = Commit(CommitWithoutBlind(v, claim), r)
  BY DEF OpensUnderAClaim
<1> DEFINE point == CommitWithoutBlind(v, claim)
<1>2. point \in Point(S)
  BY ClaimedPoint
<1>3. comm = Commit(point, r)
  BY <1>1
<1> HIDE DEF point
<1>4. RerandomizeCommitment(comm, r, new) = Commit(point, new)
  BY <1>3, RerandomizeOpens
<1>5. Commit(point, new) \in CommitmentTo(Point(S))
  BY <1>2, CommitType
<1>6. OpensUnderAClaim(Commit(point, new), v, new)
  BY DEF OpensUnderAClaim, point
<1>7. Commit(point, new) = Commit(<<"whole", v>>, new)
        <=> Commit(point, r) = Commit(<<"whole", v>>, r)
  BY CommitInjective
<1>8. QED
  BY <1>3, <1>4, <1>5, <1>6, <1>7 DEF OpensWhole, Opens

(* rerandomize_in_place keeps a prepared state usable, with the blinds of   *)
(* its call and everything but commitments and blinds as it was.            *)
LEMMA RerandomizeUsable ==
  ASSUME pk \in Keys, NEW p, Usable(p), NEW k \in Nat
  PROVE  /\ Usable(RerandomizeInPlace(p, k))
         /\ RerandomizeInPlace(p, k) =
              [p EXCEPT !.comm_W_shared = RerandomizeInPlace(p, k).comm_W_shared,
                        !.r_W_shared = RerandomizeInPlace(p, k).r_W_shared,
                        !.comm_W_precommitted = RerandomizeInPlace(p, k).comm_W_precommitted,
                        !.r_W_precommitted = RerandomizeInPlace(p, k).r_W_precommitted]
         /\ StoredAreWhole(RerandomizeInPlace(p, k)) <=> StoredAreWhole(p)
         /\ pk.shared => RerandomizeInPlace(p, k).r_W_shared = Blind(k, "shared")
         /\ pk.precommitted
              => RerandomizeInPlace(p, k).r_W_precommitted = Blind(k, "precommitted")
<1> DEFINE r  == Blind(k, "shared")
           rp == Blind(k, "precommitted")
           C  == IF p.comm_W_shared = None THEN None
                 ELSE RerandomizeCommitment(p.comm_W_shared, p.r_W_shared, r)
           Cp == IF p.comm_W_precommitted = None THEN None
                 ELSE RerandomizeCommitment(p.comm_W_precommitted, p.r_W_precommitted, rp)
           R  == IF p.comm_W_shared = None THEN None ELSE r
           Rp == IF p.comm_W_precommitted = None THEN None ELSE rp
           q  == RerandomizeInPlace(p, k)
<1>1. /\ r \in Atom /\ rp \in Atom
      /\ r.segment = "shared" /\ rp.segment = "precommitted"
  BY BlindIsAtom
<1>2. q = [p EXCEPT !.comm_W_shared = C, !.r_W_shared = R,
                    !.comm_W_precommitted = Cp, !.r_W_precommitted = Rp]
  BY Zenon DEF RerandomizeInPlace
<1> HIDE DEF r, rp, q
<1>3. p \in PreparedState
  BY DEF Usable
<1>4. /\ C # None <=> pk.shared
      /\ pk.shared => /\ R = r
                      /\ C \in CommitmentTo(Point(SharedValue))
                      /\ OpensUnderAClaim(C, p.W.shared, r)
                      /\ OpensWhole(C, p.W.shared, r)
                           <=> OpensWhole(p.comm_W_shared, p.W.shared, p.r_W_shared)
  <2>1. p.W.shared \in SharedValue
    BY <1>3 DEF PreparedState, Witness
  <2>2. CASE pk.shared
    <3>1. /\ p.comm_W_shared # None
          /\ OpensUnderAClaim(p.comm_W_shared, p.W.shared, p.r_W_shared)
      BY <2>2 DEF Usable, SharedOpens
    <3>2. C = RerandomizeCommitment(p.comm_W_shared, p.r_W_shared, r) /\ R = r
      BY <3>1
    <3> HIDE DEF C, R
    <3>3. /\ C \in CommitmentTo(Point(SharedValue))
          /\ OpensUnderAClaim(C, p.W.shared, r)
          /\ OpensWhole(C, p.W.shared, r)
               <=> OpensWhole(p.comm_W_shared, p.W.shared, p.r_W_shared)
      BY <1>1, <2>1, <3>1, <3>2, RerandomizeOne
    <3>4. QED
      BY <2>2, <3>2, <3>3, NoneAssumption
  <2>3. CASE ~pk.shared
    BY <2>3 DEF Usable, SharedOpens
  <2>4. QED
    BY <2>2, <2>3
<1>5. /\ Cp # None <=> pk.precommitted
      /\ pk.precommitted =>
           /\ Rp = rp
           /\ Cp \in CommitmentTo(Point(PrecommittedValue))
           /\ OpensUnderAClaim(Cp, p.W.precommitted, rp)
           /\ OpensWhole(Cp, p.W.precommitted, rp)
                <=> OpensWhole(p.comm_W_precommitted, p.W.precommitted, p.r_W_precommitted)
  <2>1. p.W.precommitted \in PrecommittedValue
    BY <1>3 DEF PreparedState, Witness
  <2>2. CASE pk.precommitted
    <3>1. /\ p.comm_W_precommitted # None
          /\ OpensUnderAClaim(p.comm_W_precommitted, p.W.precommitted, p.r_W_precommitted)
      BY <2>2 DEF Usable, PrecommittedOpens
    <3>2. /\ Cp = RerandomizeCommitment(p.comm_W_precommitted, p.r_W_precommitted, rp)
          /\ Rp = rp
      BY <3>1
    <3> HIDE DEF Cp, Rp
    <3>3. /\ Cp \in CommitmentTo(Point(PrecommittedValue))
          /\ OpensUnderAClaim(Cp, p.W.precommitted, rp)
          /\ OpensWhole(Cp, p.W.precommitted, rp)
               <=> OpensWhole(p.comm_W_precommitted, p.W.precommitted, p.r_W_precommitted)
      BY <1>1, <2>1, <3>1, <3>2, RerandomizeOne
    <3>4. QED
      BY <2>2, <3>2, <3>3, NoneAssumption
  <2>3. CASE ~pk.precommitted
    BY <2>3 DEF Usable, PrecommittedOpens
  <2>4. QED
    BY <2>2, <2>3
<1>6. /\ C \in Option(CommitmentTo(Point(SharedValue)))
      /\ Cp \in Option(CommitmentTo(Point(PrecommittedValue)))
      /\ R \in Option(Atom) /\ Rp \in Option(Atom)
  BY <1>1, <1>4, <1>5 DEF Option
<1> HIDE DEF C, Cp, R, Rp
<1>7. /\ q \in PreparedState
      /\ q.comm_W_shared = C /\ q.r_W_shared = R
      /\ q.comm_W_precommitted = Cp /\ q.r_W_precommitted = Rp
      /\ q.aux = p.aux /\ q.W = p.W /\ q.of = p.of
      /\ q.cached_product = p.cached_product
      /\ q.cached_rest_msm = p.cached_rest_msm
      /\ q.cached_rest_witness = p.cached_rest_witness
  BY <1>2, <1>3, <1>6 DEF PreparedState
<1>8. HoldsPrep(q) /\ CacheIsPair(q)
  BY <1>7 DEF Usable, HoldsPrep, CacheIsPair
<1>9. SharedOpens(q) /\ PrecommittedOpens(q)
  BY <1>1, <1>4, <1>5, <1>7 DEF SharedOpens, PrecommittedOpens
<1>10. Usable(q)
  BY <1>7, <1>8, <1>9 DEF Usable
<1>11. StoredAreWhole(q) <=> StoredAreWhole(p)
  BY <1>4, <1>5, <1>7 DEF StoredAreWhole
<1>12. q = [p EXCEPT !.comm_W_shared = q.comm_W_shared, !.r_W_shared = q.r_W_shared,
                     !.comm_W_precommitted = q.comm_W_precommitted,
                     !.r_W_precommitted = q.r_W_precommitted]
  BY <1>2, <1>7
<1>13. QED
  BY <1>4, <1>5, <1>7, <1>10, <1>11, <1>12 DEF q, r, rp

(* synthesize keeps the leading entries of the assignment and puts the rest *)
(* of this prove behind them, whatever an earlier prove left there.         *)
LEMMA SynthesizedAuxFacts ==
  ASSUME pk \in Keys, NEW p, Usable(p), NEW c \in Circuits,
         NEW challenges \in Seq(Transcript)
  PROVE  /\ SynthesizedAux(p.aux, c, challenges) \in Seq(Value \cup RestContent)
         /\ Len(SynthesizedAux(p.aux, c, challenges))
              = PrepAuxLen + (IF pk.rest THEN 1 ELSE 0)
         /\ \A j \in 1 .. PrepAuxLen :
              SynthesizedAux(p.aux, c, challenges)[j] = p.aux[j]
         /\ pk.rest => SynthesizedAux(p.aux, c, challenges)[PrepAuxLen + 1]
                         = RestValue(c, challenges)
         /\ RestValue(c, challenges) \in RestContent
<1> DEFINE S == Value \cup RestContent
           rest == RestValue(c, challenges)
           tail == IF pk.rest THEN <<rest>> ELSE <<>>
           head == SubSeq(p.aux, 1, PrepAuxLen)
           aux == SynthesizedAux(p.aux, c, challenges)
<1>1. RestValue(c, challenges) \in RestContent
  BY ValuesAssumption DEF RestValue, RestContent
<1>2. /\ tail \in Seq(S) /\ Len(tail) = (IF pk.rest THEN 1 ELSE 0)
      /\ pk.rest => tail[1] = rest
  <2>1. rest \in S /\ pk.rest \in BOOLEAN
    BY <1>1, KeyType
  <2>2. tail = IF pk.rest THEN <<rest>> ELSE <<>>
    OBVIOUS
  <2> HIDE DEF tail, rest, S
  <2>3. QED
    BY <2>1, <2>2, Optional
<1>3. /\ p.aux \in Seq(S) /\ PrepAuxLen \in Nat
      /\ Len(p.aux) >= PrepAuxLen
  BY PrepAuxLenBound DEF Usable, PreparedState, HoldsPrep
<1>4. aux = head \o tail
  BY DEF SynthesizedAux
<1> HIDE DEF aux, tail, rest, S
<1>5. /\ head \in Seq(S) /\ Len(head) = PrepAuxLen
      /\ \A j \in 1 .. PrepAuxLen : head[j] = p.aux[j]
  BY <1>3
<1> HIDE DEF head
<1>6. /\ aux \in Seq(S) /\ Len(aux) = Len(head) + Len(tail)
      /\ \A j \in 1 .. Len(head) : aux[j] = head[j]
      /\ \A j \in 1 .. Len(tail) : aux[Len(head) + j] = tail[j]
  <2>1. head \in Seq(S) /\ tail \in Seq(S)
    BY <1>2, <1>5
  <2>2. /\ head \o tail \in Seq(S) /\ Len(head \o tail) = Len(head) + Len(tail)
        /\ \A j \in 1 .. Len(head) : (head \o tail)[j] = head[j]
        /\ \A j \in 1 .. Len(tail) : (head \o tail)[Len(head) + j] = tail[j]
    BY <2>1, Concat, SMTT(60)
  <2>3. QED
    BY <1>4, <2>2
<1>7. \A j \in 1 .. PrepAuxLen : aux[j] = p.aux[j]
  BY <1>5, <1>6
<1>8. pk.rest => aux[PrepAuxLen + 1] = rest
  BY <1>2, <1>5, <1>6
<1>9. QED
  BY <1>1, <1>2, <1>5, <1>6, <1>7, <1>8 DEF aux, rest, S

(* Replacing the assignment, the rest of W, and what no other part of the   *)
(* invariant reads, keeps a state usable.                                   *)
LEMMA ReplacedUsable ==
  ASSUME pk \in Keys, NEW p, Usable(p), NEW q \in PreparedState,
         q.W.shared = p.W.shared, q.W.precommitted = p.W.precommitted,
         Len(q.aux) \in PrepAuxLen .. PrepAuxLen + (IF pk.rest THEN 1 ELSE 0),
         \A j \in 1 .. PrepAuxLen : q.aux[j] = p.aux[j],
         q.comm_W_shared = p.comm_W_shared, q.r_W_shared = p.r_W_shared,
         q.comm_W_precommitted = p.comm_W_precommitted,
         q.r_W_precommitted = p.r_W_precommitted,
         q.cached_product = p.cached_product, q.of = p.of,
         CacheIsPair(q)
  PROVE  Usable(q) /\ (StoredAreWhole(q) <=> StoredAreWhole(p))
<1>1. /\ pk.shared => 1 \in 1 .. PrepAuxLen
      /\ pk.precommitted => PrepAuxLen \in 1 .. PrepAuxLen
  BY PrepAuxLenBound
<1>2. HoldsPrep(q)
  BY <1>1 DEF Usable, HoldsPrep, PrecommittedProduct
<1>3. SharedOpens(q) /\ PrecommittedOpens(q)
  BY DEF Usable, SharedOpens, PrecommittedOpens
<1>4. StoredAreWhole(q) <=> StoredAreWhole(p)
  BY DEF StoredAreWhole
<1>5. QED
  BY <1>2, <1>3, <1>4 DEF Usable

-----------------------------------------------------------------------------
(* What carries over to the next state when the key stays *)

LEMMA UsableNext ==
  ASSUME pk' = pk, \A s \in Slots : prep'[s] # None => Usable(prep'[s])
  PROVE  (\A s \in Slots : prep[s] # None => Usable(prep[s]))'
BY DEF Usable, HoldsPrep, SharedOpens, PrecommittedOpens, CacheIsPair, PrepAuxLen

LEMMA RestingNext ==
  ASSUME pk' = pk,
         \A s \in Slots : prep'[s] # None /\ run'[s] = None => Resting(prep'[s])
  PROVE  (\A s \in Slots : prep[s] # None /\ run[s] = None => Resting(prep[s]))'
BY DEF Resting, StoredAreWhole, CacheIsWhole

LEMMA ProvingNext ==
  ASSUME pk' = pk,
         \A s \in Slots : run'[s] # None => prep'[s] # None /\ Proving(prep'[s], run'[s])
  PROVE  (\A s \in Slots : run[s] # None => prep[s] # None /\ Proving(prep[s], run[s]))'
<1> SUFFICES ASSUME NEW s \in Slots, run'[s] # None
             PROVE  prep'[s] # None /\ Proving(prep[s], run[s])'
  OBVIOUS
<1>1. BeforeCommit(prep'[s], run'[s]) => BeforeCommit(prep[s], run[s])'
  BY DEF BeforeCommit, StoredAreWhole, CacheIsWhole, RestOf
<1>2. AfterCommit(prep'[s], run'[s]) => AfterCommit(prep[s], run[s])'
  BY DEF AfterCommit, StoredAreWhole, CacheIsWhole, RestOf, Values, StillSound
<1>3. QED
  BY <1>1, <1>2 DEF Proving, Challenges, Values

LEMMA DeliveredNext ==
  ASSUME pk' = pk, \A p \in proofs' : Delivered(p)
  PROVE  (\A p \in proofs : Delivered(p))'
<1> SUFFICES ASSUME NEW p \in proofs' PROVE Delivered(p)'
  OBVIOUS
<1>1. Verify(p.proof)' <=> Verify(p.proof)
  BY DEF Verify, Challenges
<1>2. Accepted(pk, p.before, p.input)' <=> Accepted(pk, p.before, p.input)
  BY DEF Accepted, StillSound, Values
<1>3. Values(pk, p.input.circuit)' = Values(pk, p.input.circuit)
  BY DEF Values
<1>4. CommitsToCurrent(p)' <=> CommitsToCurrent(p)
  BY DEF CommitsToCurrent, StillSound
<1>5. QED
  BY <1>1, <1>2, <1>3, <1>4 DEF Delivered

-----------------------------------------------------------------------------
(* The invariant holds initially and every action preserves it *)

(* What the slots hold implies the relations that TypeOK states.            *)
LEMMA SlotTypes ==
  ASSUME NEW p \in Option(PreparedState), NEW r \in Option(Running), SlotInv(p, r)
  PROVE  /\ r # None => p # None
         /\ p # None =>
              /\ Len(p.aux) \in PrepAuxLen .. PrepAuxLen + (IF pk.rest THEN 1 ELSE 0)
              /\ (p.scratch = "taken" \/ p.z_buffer = "taken")
                   <=> (r # None /\ r.stage = "argue")
              /\ p.cached_product = PrecommittedProduct(p.W)
BY DEF SlotInv, Usable, HoldsPrep, Resting, Proving

(* A step of one slot.  *)
LEMMA SlotStep ==
  ASSUME SessionInv, pk \in Keys, pk' = pk, NEW s \in Slots,
         NEW p \in Option(PreparedState), NEW r \in Option(Running), SlotInv(p, r),
         prep' = [prep EXCEPT ![s] = p], run' = [run EXCEPT ![s] = r],
         calls' \in {calls, calls + 1}, calls' \in 0 .. MaxCalls,
         r # None => r.k \in 1 .. calls',
         \A q \in proofs' : Delivered(q)
  PROVE  SessionInv'
<1>1. /\ prep \in [Slots -> Option(PreparedState)]
      /\ run \in [Slots -> Option(Running)]
      /\ calls \in Nat
      /\ \A t \in Slots : SlotInv(prep[t], run[t])
      /\ \A t \in Slots : run[t] # None => run[t].k \in 1 .. calls
  BY ValuesAssumption DEF SessionInv, TypeOK
<1>2. /\ prep' \in [Slots -> Option(PreparedState)]
      /\ run' \in [Slots -> Option(Running)]
  BY <1>1
<1>3. \A t \in Slots : SlotInv(prep'[t], run'[t])
  BY <1>1
<1>4. \A t \in Slots : run'[t] # None => run'[t].k \in 1 .. calls'
  BY <1>1
<1>5. /\ (\A t \in Slots : prep[t] # None => Usable(prep[t]))'
      /\ (\A t \in Slots : prep[t] # None /\ run[t] = None => Resting(prep[t]))'
      /\ (\A t \in Slots : run[t] # None => prep[t] # None /\ Proving(prep[t], run[t]))'
  <2>1. /\ \A t \in Slots : prep'[t] # None => Usable(prep'[t])
        /\ \A t \in Slots : prep'[t] # None /\ run'[t] = None => Resting(prep'[t])
        /\ \A t \in Slots : run'[t] # None => prep'[t] # None /\ Proving(prep'[t], run'[t])
    BY <1>3 DEF SlotInv
  <2>2. QED
    BY <2>1, UsableNext, RestingNext, ProvingNext
<1>6. (\A t \in Slots : SlotInv(prep[t], run[t]))'
  BY <1>5 DEF SlotInv
<1>7. \A t \in Slots :
        /\ run'[t] # None => prep'[t] # None
        /\ prep'[t] # None =>
              /\ Len(prep'[t].aux) \in PrepAuxLen .. PrepAuxLen + (IF pk.rest THEN 1 ELSE 0)
              /\ (prep'[t].scratch = "taken" \/ prep'[t].z_buffer = "taken")
                   <=> (run'[t] # None /\ run'[t].stage = "argue")
              /\ prep'[t].cached_product = PrecommittedProduct(prep'[t].W)
  <2> SUFFICES ASSUME NEW t \in Slots
      PROVE /\ run'[t] # None => prep'[t] # None
            /\ prep'[t] # None =>
                  /\ Len(prep'[t].aux)
                        \in PrepAuxLen .. PrepAuxLen + (IF pk.rest THEN 1 ELSE 0)
                  /\ (prep'[t].scratch = "taken" \/ prep'[t].z_buffer = "taken")
                       <=> (run'[t] # None /\ run'[t].stage = "argue")
                  /\ prep'[t].cached_product = PrecommittedProduct(prep'[t].W)
    OBVIOUS
  <2>1. CASE t = s
    BY <1>1, <2>1, SlotTypes
  <2>2. CASE t # s
    BY <1>1, <2>2, SlotTypes
  <2>3. QED
    BY <2>1, <2>2
<1>8. TypeOK'
  BY <1>2, <1>4, <1>7 DEF TypeOK, Option, PrepAuxLen, PrecommittedProduct
<1>9. (\A q \in proofs : Delivered(q))'
  BY DeliveredNext
<1>10. pk' # None
  BY NoneAssumption
<1>11. QED
  BY <1>6, <1>8, <1>9, <1>10 DEF SessionInv

LEMMA InitInv == Init => SessionInv
<1> SUFFICES ASSUME Init PROVE SessionInv
  OBVIOUS
<1>1. TypeOK
  BY ValuesAssumption DEF Init, TypeOK, Option
<1>2. QED
  BY <1>1 DEF Init, SessionInv, SlotInv

(* Facts about any state in which a key is set up. *)
LEMMA Keyed ==
  ASSUME SessionInv, pk # None
  PROVE  /\ pk \in Keys
         /\ prep \in [Slots -> Option(PreparedState)]
         /\ run \in [Slots -> Option(Running)]
         /\ calls \in 0 .. MaxCalls /\ calls \in Nat /\ MaxCalls \in Nat
         /\ \A s \in Slots : /\ SlotInv(prep[s], run[s])
                             /\ run[s] # None => run[s].k \in 1 .. calls
         /\ \A q \in proofs : Delivered(q)
BY ValuesAssumption DEF SessionInv, TypeOK, Option

LEMMA SetupInv ==
  ASSUME SessionInv, NEW key \in Keys, Setup(key)
  PROVE  SessionInv'
<1>1. /\ pk' = key /\ pk = None /\ prep' = prep /\ run' = run /\ proofs' = proofs
      /\ calls' = calls /\ proofs = {}
      /\ \A s \in Slots : prep[s] = None /\ run[s] = None
  BY DEF Setup, SessionInv
<1>2. key # None
  BY NoneAssumption
<1>3. TypeOK'
  BY <1>1 DEF SessionInv, TypeOK, Option
<1>4. QED
  BY <1>1, <1>2, <1>3 DEF SessionInv, SlotInv

LEMMA PrepProveInv ==
  ASSUME SessionInv, NEW s \in Slots, NEW input \in Inputs, PrepProve(s, input)
  PROVE  SessionInv'
<1> DEFINE p == Prepared(input, calls + 1)
<1>1. /\ pk # None /\ run[s] = None /\ calls < MaxCalls
      /\ prep' = [prep EXCEPT ![s] = p]
      /\ calls' = calls + 1 /\ pk' = pk /\ run' = run /\ proofs' = proofs
  BY DEF PrepProve
<1>2. Usable(p) /\ Resting(p)
  BY <1>1, Keyed, PreparedUsable
<1> HIDE DEF p
<1>3. p \in Option(PreparedState)
  BY <1>2 DEF Usable, Option
<1>4. SlotInv(p, None)
  BY <1>2 DEF SlotInv
<1>5. run' = [run EXCEPT ![s] = None] /\ None \in Option(Running)
  BY <1>1, Keyed DEF Option
<1>6. calls' \in 0 .. MaxCalls
  BY <1>1, Keyed
<1>7. QED
  BY <1>1, <1>3, <1>4, <1>5, <1>6, Keyed, SlotStep

LEMMA CloneInv ==
  ASSUME SessionInv, NEW s \in Slots, NEW t \in Slots, Clone(s, t)
  PROVE  SessionInv'
<1>1. /\ prep[s] # None /\ run[s] = None /\ prep[t] = None
      /\ prep' = [prep EXCEPT ![t] = prep[s]]
      /\ pk' = pk /\ run' = run /\ proofs' = proofs /\ calls' = calls
  BY DEF Clone
<1>2. pk # None
  BY <1>1 DEF SessionInv
<1>3. /\ SlotInv(prep[s], run[s]) /\ SlotInv(prep[t], run[t])
      /\ prep[s] \in Option(PreparedState)
  BY <1>2, Keyed
<1>4. run[t] = None
  BY <1>1, <1>3 DEF SlotInv
<1>5. run' = [run EXCEPT ![t] = None] /\ None \in Option(Running)
  BY <1>1, <1>2, <1>4, Keyed DEF Option
<1>6. QED
  BY <1>1, <1>2, <1>3, <1>5, Keyed, SlotStep

LEMMA FailInv ==
  ASSUME SessionInv, NEW s \in Slots, Fail(s)
  PROVE  SessionInv'
<1>1. /\ run[s] # None
      /\ run' = [run EXCEPT ![s] = None] /\ prep' = [prep EXCEPT ![s] = None]
      /\ pk' = pk /\ proofs' = proofs /\ calls' = calls
  BY DEF Fail
<1>2. pk # None
  BY <1>1 DEF SessionInv
<1>3. SlotInv(None, None) /\ None \in Option(Running) /\ None \in Option(PreparedState)
  BY DEF SlotInv, Option
<1>4. QED
  BY <1>1, <1>2, <1>3, Keyed, SlotStep

(* The local variables of a prove when it starts. *)
LEMMA StartedType ==
  ASSUME pk \in Keys, calls \in Nat, NEW input \in Inputs,
         NEW stage \in {"synthesize", "build"}, NEW p \in PreparedState
  PROVE  /\ Started(input, stage, p) \in Running
         /\ Started(input, stage, p).input = input
         /\ Started(input, stage, p).stage = stage
         /\ Started(input, stage, p).k = calls + 1
         /\ Started(input, stage, p).challenges
              = Challenges(Values(pk, input.circuit), p.comm_W_shared, p.comm_W_precommitted)
         /\ Started(input, stage, p).before.of = p.of
         /\ Started(input, stage, p).before.sound = p.sound
         /\ Started(input, stage, p).before.first <=> p.cached_rest_msm = None
<1> DEFINE ch == Challenges(Values(pk, input.circuit), p.comm_W_shared,
                            p.comm_W_precommitted)
           b == [of |-> p.of, sound |-> p.sound, first |-> p.cached_rest_msm = None]
           r == Started(input, stage, p)
<1>1. ch \in Seq(Transcript)
  <2>1. Values(pk, input.circuit) \in Seq(PublicValue)
    BY InputType, ValuesType
  <2>2. QED
    BY <2>1, ChallengesType DEF PreparedState
<1>2. b \in Before
  BY DEF Before, PreparedState
<1>3. r = [input |-> input, stage |-> stage, k |-> calls + 1, challenges |-> ch,
           W |-> None, r_W |-> None, U |-> None, z |-> None, product |-> None,
           before |-> b]
  BY Zenon DEF Started
<1>4. b.of = p.of /\ b.sound = p.sound /\ (b.first <=> p.cached_rest_msm = None)
  OBVIOUS
<1> HIDE DEF ch, b, r
<1>5. r \in Running
  BY <1>1, <1>2, <1>3 DEF Running, Option
<1>6. QED
  BY <1>3, <1>4, <1>5 DEF r, ch

LEMMA ProveZkInv ==
  ASSUME SessionInv, NEW s \in Slots, NEW input \in Inputs, ProveZk(s, input)
  PROVE  SessionInv'
<1> DEFINE p == RerandomizeInPlace(prep[s], calls + 1)
           r == Started(input, "synthesize", p)
<1>1. /\ pk # None /\ pk.zk /\ prep[s] # None /\ run[s] = None /\ calls < MaxCalls
      /\ prep' = [prep EXCEPT ![s] = p] /\ run' = [run EXCEPT ![s] = r]
      /\ calls' = calls + 1 /\ pk' = pk /\ proofs' = proofs
  BY DEF ProveZk
<1>2. Usable(prep[s]) /\ Resting(prep[s])
  BY <1>1, Keyed DEF SlotInv
<1>3. /\ Usable(p)
      /\ p = [prep[s] EXCEPT !.comm_W_shared = p.comm_W_shared, !.r_W_shared = p.r_W_shared,
                             !.comm_W_precommitted = p.comm_W_precommitted,
                             !.r_W_precommitted = p.r_W_precommitted]
      /\ StoredAreWhole(p) <=> StoredAreWhole(prep[s])
      /\ pk.shared => p.r_W_shared = Blind(calls + 1, "shared")
      /\ pk.precommitted => p.r_W_precommitted = Blind(calls + 1, "precommitted")
  <2>1. pk \in Keys /\ calls + 1 \in Nat
    BY <1>1, Keyed
  <2>2. QED
    BY <1>2, <2>1, RerandomizeUsable, Zenon
<1> HIDE DEF p
<1>4. p \in PreparedState
  BY <1>3 DEF Usable
<1>5. /\ p.sound = prep[s].sound /\ p.scratch = prep[s].scratch
      /\ p.z_buffer = prep[s].z_buffer
      /\ p.cached_rest_msm = prep[s].cached_rest_msm
      /\ p.cached_rest_witness = prep[s].cached_rest_witness
  BY <1>2, <1>3 DEF Usable, PreparedState
<1>6. /\ r \in Running /\ r.input = input /\ r.stage = "synthesize" /\ r.k = calls + 1
      /\ r.challenges = Challenges(Values(pk, input.circuit), p.comm_W_shared,
                                   p.comm_W_precommitted)
      /\ r.before.of = p.of /\ r.before.sound = p.sound
      /\ r.before.first <=> p.cached_rest_msm = None
  BY <1>1, <1>4, Keyed, StartedType
<1> HIDE DEF r
<1>7. BeforeCommit(p, r)
  BY <1>1, <1>2, <1>3, <1>5, <1>6 DEF BeforeCommit, Resting, CacheIsWhole
<1>8. Proving(p, r)
  BY <1>2, <1>3, <1>5, <1>6, <1>7 DEF Proving, Resting
<1>9. SlotInv(p, r)
  BY <1>3, <1>4, <1>6, <1>8, NoneAssumption DEF SlotInv
<1>10. calls' \in 0 .. MaxCalls /\ r.k \in 1 .. calls'
  BY <1>1, <1>6, Keyed
<1>11. p \in Option(PreparedState) /\ r \in Option(Running)
  BY <1>4, <1>6 DEF Option
<1>12. QED
  BY <1>1, <1>9, <1>10, <1>11, Keyed, SlotStep

LEMMA ProvePlainInv ==
  ASSUME SessionInv, NEW s \in Slots, NEW input \in Inputs, ProvePlain(s, input)
  PROVE  SessionInv'
<1> DEFINE p == prep[s]
           r == Started(input, "build", p)
<1>1. /\ pk # None /\ ~pk.zk /\ p # None /\ run[s] = None /\ calls < MaxCalls
      /\ prep' = prep /\ run' = [run EXCEPT ![s] = r]
      /\ calls' = calls + 1 /\ pk' = pk /\ proofs' = proofs
  BY DEF ProvePlain
<1>2. Usable(p) /\ Resting(p)
  BY <1>1, Keyed DEF SlotInv
<1>3. p \in PreparedState
  BY <1>2 DEF Usable
<1>4. prep' = [prep EXCEPT ![s] = p]
  BY <1>1, Keyed
<1> HIDE DEF p
<1>6. /\ r \in Running /\ r.input = input /\ r.stage = "build" /\ r.k = calls + 1
      /\ r.challenges = Challenges(Values(pk, input.circuit), p.comm_W_shared,
                                   p.comm_W_precommitted)
      /\ r.before.of = p.of /\ r.before.sound = p.sound
      /\ r.before.first <=> p.cached_rest_msm = None
  BY <1>1, <1>3, Keyed, StartedType
<1> HIDE DEF r
<1>7. BeforeCommit(p, r)
  BY <1>1, <1>2, <1>6 DEF BeforeCommit, Resting
<1>8. Proving(p, r)
  BY <1>1, <1>2, <1>6, <1>7 DEF Proving, Resting
<1>9. SlotInv(p, r)
  BY <1>1, <1>2, <1>6, <1>8, NoneAssumption DEF SlotInv
<1>10. calls' \in 0 .. MaxCalls /\ r.k \in 1 .. calls'
  BY <1>1, <1>6, Keyed
<1>11. p \in Option(PreparedState) /\ r \in Option(Running)
  BY <1>3, <1>6 DEF Option
<1>12. QED
  BY <1>1, <1>4, <1>9, <1>10, <1>11, Keyed, SlotStep

(* Facts about a slot on which a prove runs. *)
LEMMA ProveRuns ==
  ASSUME SessionInv, NEW s \in Slots, run[s] # None
  PROVE  /\ pk \in Keys /\ prep[s] # None
         /\ prep[s] \in PreparedState /\ Usable(prep[s])
         /\ run[s] \in Running /\ Proving(prep[s], run[s])
         /\ run[s].k \in 1 .. calls /\ run[s].k \in Nat
         /\ run[s].input \in Inputs
         /\ run[s].input.circuit \in Circuits /\ run[s].input.is_small \in BOOLEAN
         /\ run[s].challenges \in Seq(Transcript)
         /\ run[s].before \in Before
         /\ RestOf(run[s]) \in RestSegment
<1>1. pk # None
  BY DEF SessionInv
<1>2. /\ pk \in Keys /\ prep[s] # None /\ Usable(prep[s]) /\ Proving(prep[s], run[s])
      /\ run[s] \in Running /\ run[s].k \in 1 .. calls /\ calls \in Nat
  BY <1>1, Keyed DEF SlotInv, Option
<1>3. /\ run[s].input \in Inputs /\ run[s].challenges \in Seq(Transcript)
      /\ run[s].before \in Before
  BY <1>2 DEF Running
<1>4. run[s].input.circuit \in Circuits /\ run[s].input.is_small \in BOOLEAN
  BY <1>3, InputType
<1>5. RestOf(run[s]) \in RestSegment
  <2>1. RestValue(run[s].input.circuit, run[s].challenges) \in RestContent
    BY <1>3, <1>4, InputType DEF RestValue, RestContent
  <2>2. QED
    BY <2>1 DEF RestOf, RestSegment
<1>6. QED
  BY <1>2, <1>3, <1>4, <1>5 DEF Usable

(* A step of a prove before its last keeps its request and what it is told  *)
(* of the calls before it.                                                  *)
Continues(s) ==
  /\ run[s] # None
  /\ \E p \in PreparedState : prep' = [prep EXCEPT ![s] = p]
  /\ \E r \in Running : /\ run' = [run EXCEPT ![s] = r]
                        /\ r.before = run[s].before /\ r.input = run[s].input
                        /\ r.k = run[s].k

LEMMA SynthesizeInv ==
  ASSUME SessionInv, NEW s \in Slots, Synthesize(s)
  PROVE  SessionInv' /\ Continues(s)
<1> DEFINE p == prep[s]
           r == run[s]
           aux == SynthesizedAux(p.aux, r.input.circuit, r.challenges)
           W == WithRest(p.W, aux)
           q == [p EXCEPT !.aux = aux, !.W = W]
           u == [r EXCEPT !.stage = "commit"]
<1>1. /\ r # None /\ r.stage = "synthesize"
      /\ prep' = [prep EXCEPT ![s].aux = aux, ![s].W = WithRest(@, aux)]
      /\ run' = [run EXCEPT ![s].stage = "commit"]
      /\ pk' = pk /\ proofs' = proofs /\ calls' = calls
  BY DEF Synthesize
<1>2. /\ pk \in Keys /\ p # None /\ p \in PreparedState /\ Usable(p)
      /\ r \in Running /\ Proving(p, r) /\ r.k \in 1 .. calls
      /\ r.input.circuit \in Circuits /\ r.challenges \in Seq(Transcript)
      /\ RestOf(r) \in RestSegment
  BY <1>1, ProveRuns
<1>3. prep' = [prep EXCEPT ![s] = q] /\ run' = [run EXCEPT ![s] = u]
  BY <1>1, <1>2, Keyed DEF SessionInv
<1>4. /\ aux \in Seq(Value \cup RestContent)
      /\ Len(aux) = PrepAuxLen + (IF pk.rest THEN 1 ELSE 0)
      /\ \A j \in 1 .. PrepAuxLen : aux[j] = p.aux[j]
      /\ pk.rest => aux[PrepAuxLen + 1] = RestValue(r.input.circuit, r.challenges)
  BY <1>2, SynthesizedAuxFacts
<1> HIDE DEF p, r, aux
<1>5. W = [p.W EXCEPT !.rest = RestOf(r)]
  BY <1>4 DEF WithRest, RestOf
<1>6. p.W \in Witness
  BY <1>2 DEF PreparedState
<1>7. /\ W \in Witness /\ W.shared = p.W.shared
      /\ W.precommitted = p.W.precommitted /\ W.rest = RestOf(r)
  BY <1>2, <1>5, <1>6 DEF Witness
<1> HIDE DEF W
<1>8. /\ q \in PreparedState /\ q.aux = aux /\ q.W = W
      /\ q.comm_W_shared = p.comm_W_shared /\ q.r_W_shared = p.r_W_shared
      /\ q.comm_W_precommitted = p.comm_W_precommitted
      /\ q.r_W_precommitted = p.r_W_precommitted
      /\ q.cached_product = p.cached_product /\ q.of = p.of /\ q.sound = p.sound
      /\ q.cached_rest_msm = p.cached_rest_msm
      /\ q.cached_rest_witness = p.cached_rest_witness
      /\ q.scratch = p.scratch /\ q.z_buffer = p.z_buffer
  BY <1>2, <1>4, <1>7 DEF PreparedState
<1>9. /\ u \in Running /\ u.stage = "commit" /\ u.k = r.k /\ u.input = r.input
      /\ u.challenges = r.challenges /\ u.before = r.before
  BY <1>2 DEF Running
<1> HIDE DEF q, u
<1>10. Usable(q) /\ (StoredAreWhole(q) <=> StoredAreWhole(p))
  <2>1. Len(q.aux) \in PrepAuxLen .. PrepAuxLen + (IF pk.rest THEN 1 ELSE 0)
    BY <1>4, <1>8, PrepAuxLenBound
  <2>2. CacheIsPair(q)
    BY <1>2, <1>8 DEF Usable, CacheIsPair
  <2>3. QED
    BY <1>2, <1>4, <1>7, <1>8, <2>1, <2>2, ReplacedUsable
<1>11. pk.zk /\ BeforeCommit(p, r)
  BY <1>1, <1>2 DEF Proving, BeforeCommit, AfterCommit, r
<1>12. RestOf(u) = RestOf(r)
  BY <1>9 DEF RestOf
<1>13. BeforeCommit(q, u)
  BY <1>7, <1>8, <1>9, <1>10, <1>11, <1>12 DEF BeforeCommit, CacheIsWhole
<1>14. Proving(q, u)
  <2>1. r.stage = "synthesize"
    BY <1>1 DEF r
  <2>2. QED
    BY <1>2, <1>8, <1>9, <1>13, <2>1 DEF Proving
<1>15. SlotInv(q, u)
  BY <1>8, <1>9, <1>10, <1>14, NoneAssumption DEF SlotInv
<1>16. q \in Option(PreparedState) /\ u \in Option(Running) /\ u.k \in 1 .. calls
  BY <1>2, <1>8, <1>9 DEF Option
<1>17. pk # None
  BY <1>2, NoneAssumption
<1>18. SessionInv'
  BY <1>1, <1>2, <1>3, <1>15, <1>16, <1>17, Keyed, SlotStep
<1>19. Continues(s)
  <2>1. /\ r # None /\ q \in PreparedState /\ prep' = [prep EXCEPT ![s] = q]
        /\ u \in Running /\ run' = [run EXCEPT ![s] = u]
        /\ u.before = r.before /\ u.input = r.input /\ u.k = r.k
    BY <1>1, <1>3, <1>8, <1>9
  <2>2. QED
    BY <2>1 DEF Continues, r
<1>20. QED
  BY <1>18, <1>19

(* A claim about the rest of a prove is true unless a circuit with rest     *)
(* variables has a large input or a challenge, which is never small.        *)
LEMMA RestFits ==
  ASSUME SessionInv, NEW s \in Slots, run[s] # None
  PROVE  FitsWord(RestOf(run[s]))
           <=> (pk.rest => run[s].input.circuit.w \notin Large /\ ~pk.challenge)
<1> DEFINE r == run[s]
           p == prep[s]
           rest == RestValue(r.input.circuit, r.challenges)
<1>1. /\ pk \in Keys /\ p \in PreparedState /\ Proving(p, r)
      /\ r.input.circuit \in Circuits /\ r.input.circuit.w \in Private
      /\ r.challenges \in Seq(Transcript)
  BY ProveRuns, InputType
<1> HIDE DEF r, p
<1>2. pk.challenge <=> r.challenges # <<>>
  <2>1. Values(pk, r.input.circuit) \in Seq(PublicValue)
    BY <1>1, ValuesType
  <2>2. r.challenges = Challenges(Values(pk, r.input.circuit), p.comm_W_shared,
                                  p.comm_W_precommitted)
    BY <1>1 DEF Proving
  <2>3. /\ p.comm_W_shared \in Option(CommitmentTo(Point(SharedValue)))
        /\ p.comm_W_precommitted \in Option(CommitmentTo(Point(PrecommittedValue)))
    BY <1>1 DEF PreparedState
  <2>4. QED
    BY <1>1, <2>1, <2>2, <2>3, ChallengesType
<1>3. CASE pk.rest
  <2>1. /\ rest \in RestContent /\ rest.w = r.input.circuit.w
        /\ rest.challenges = r.challenges
    BY <1>1 DEF RestValue, RestContent
  <2>2. RestOf(r) = rest
    BY <1>3 DEF RestOf
  <2> HIDE DEF rest
  <2>3. FitsWord(rest) <=> rest.w \notin Large /\ rest.challenges = <<>>
    BY <2>1, Fits
  <2>4. QED
    BY <1>2, <1>3, <2>1, <2>2, <2>3 DEF r
<1>4. CASE ~pk.rest
  BY <1>4, Fits DEF RestOf
<1>5. QED
  BY <1>3, <1>4

(* The instance and witness u of a prove r, once it has its rest commitment *)
(* to a point under the blind b.                                            *)
HandsOver(u, r, p, W, point, b) ==
  /\ u \in Running /\ u.stage = "multiply" /\ u.W = W
  /\ u.r_W = <<p.r_W_shared, p.r_W_precommitted, b>>
  /\ u.U = [comm_W_shared |-> p.comm_W_shared,
            comm_W_precommitted |-> p.comm_W_precommitted,
            comm_W_rest |-> Commit(point, b),
            public_values |-> Values(pk, r.input.circuit),
            challenges |-> r.challenges]
  /\ u.U.comm_W_rest.v = point
  /\ u.input = r.input /\ u.k = r.k
  /\ u.challenges = r.challenges /\ u.before = r.before

LEMMA WithInstanceFacts ==
  ASSUME pk \in Keys, NEW r \in Running, NEW p \in PreparedState, NEW W \in Witness,
         NEW point \in BlindedPoint, NEW b \in Atom,
         NEW u, u = WithInstance(r, p, W, Commit(point, b), b)
  PROVE  HandsOver(u, r, p, W, point, b)
<1> DEFINE C == Commit(point, b)
           r_W == <<p.r_W_shared, p.r_W_precommitted, b>>
           U == [comm_W_shared |-> p.comm_W_shared,
                 comm_W_precommitted |-> p.comm_W_precommitted,
                 comm_W_rest |-> C,
                 public_values |-> Values(pk, r.input.circuit),
                 challenges |-> r.challenges]
<1>1. C \in CommitmentTo(BlindedPoint)
  BY CommitType
<1>2. C.v = point
  BY DEF Commit
<1>3. u = [r EXCEPT !.stage = "multiply", !.W = W, !.r_W = r_W, !.U = U]
  BY Zenon DEF WithInstance, C
<1>4. r_W \in Option(Atom) \X Option(Atom) \X Atom
  BY DEF PreparedState
<1>5. Values(pk, r.input.circuit) \in Seq(PublicValue) /\ r.challenges \in Seq(Transcript)
  <2>1. r.input \in Inputs /\ r.challenges \in Seq(Transcript)
    BY DEF Running
  <2>2. QED
    BY <2>1, InputType, ValuesType
<1> HIDE DEF C
<1>6. U \in [comm_W_shared : Option(CommitmentTo(Point(SharedValue))),
              comm_W_precommitted : Option(CommitmentTo(Point(PrecommittedValue))),
              comm_W_rest : CommitmentTo(BlindedPoint),
              public_values : Seq(PublicValue),
              challenges : Seq(Transcript)]
  BY <1>1, <1>5 DEF PreparedState
<1>7. U.comm_W_rest = C
  OBVIOUS
<1> HIDE DEF r_W, U
<1>8. /\ u \in Running /\ u.stage = "multiply" /\ u.W = W /\ u.r_W = r_W /\ u.U = U
      /\ u.input = r.input /\ u.k = r.k /\ u.challenges = r.challenges
      /\ u.before = r.before
  <2>1. u \in Running
    <3>1. r_W \in Option(Option(Atom) \X Option(Atom) \X Atom) /\ W \in Option(Witness)
      BY <1>4 DEF Option
    <3>2. U \in Option([comm_W_shared : Option(CommitmentTo(Point(SharedValue))),
                        comm_W_precommitted : Option(CommitmentTo(Point(PrecommittedValue))),
                        comm_W_rest : CommitmentTo(BlindedPoint),
                        public_values : Seq(PublicValue),
                        challenges : Seq(Transcript)])
      BY <1>6 DEF Option
    <3>3. QED
      BY <1>3, <3>1, <3>2 DEF Running
  <2>2. QED
    BY <1>3, <2>1 DEF Running
<1>9. u.U.comm_W_rest.v = point
  BY <1>2, <1>7, <1>8
<1>10. QED
  BY <1>8, <1>9, Zenon DEF HandsOver, C, r_W, U

(* The rest commitment of the zero-knowledge prover: the cached pair stays  *)
(* a pair, and both it and the instance's commitment are whole exactly when *)
(* no claim was false so far.                                               *)
LEMMA CommitRestPoint ==
  ASSUME SessionInv, NEW s \in Slots, run[s] # None, run[s].stage = "commit",
         NEW cached, cached = CacheRest(prep[s], run[s].input.is_small)
  PROVE  /\ cached \in PreparedState
         /\ CacheIsPair(cached) /\ cached.cached_rest_msm # None
         /\ cached = [prep[s] EXCEPT !.cached_rest_witness = cached.cached_rest_witness,
                                     !.cached_rest_msm = cached.cached_rest_msm]
         /\ RestPoint(prep[s], cached) \in BlindedPoint
         /\ StillSound(run[s].before, pk, run[s].input)
              <=> /\ StoredAreWhole(prep[s])
                  /\ RestPoint(prep[s], cached) = <<"whole", RestOf(run[s])>>
         /\ StillSound(run[s].before, pk, run[s].input)
              <=> StoredAreWhole(prep[s]) /\ CacheIsWhole(cached)
<1> DEFINE p == prep[s]
           r == run[s]
           rest == RestOf(r)
           small == r.input.is_small
           raw == CommitWithoutBlind(rest, small)
<1>1. /\ pk \in Keys /\ p \in PreparedState /\ Usable(p)
      /\ r \in Running /\ Proving(p, r) /\ small \in BOOLEAN
      /\ rest \in RestSegment
  BY ProveRuns
<1>2. FitsWord(rest) <=> (pk.rest => r.input.circuit.w \notin Large /\ ~pk.challenge)
  BY RestFits
<1>3. r.stage = "commit" /\ cached = CacheRest(p, small)
  OBVIOUS
<1> HIDE DEF p, r, small
<1>4. /\ pk.zk /\ p.W.rest = rest
      /\ r.before.sound <=> StoredAreWhole(p) /\ CacheIsWhole(p)
      /\ r.before.first <=> p.cached_rest_msm = None
  <2>1. BeforeCommit(p, r)
    BY <1>1, <1>3 DEF Proving, AfterCommit
  <2>2. QED
    BY <1>3, <2>1 DEF BeforeCommit
<1>5. CacheIsPair(p)
  BY <1>1 DEF Usable
<1>6. /\ raw \in Point(RestSegment)
      /\ raw = <<"whole", rest>> <=> (small => FitsWord(rest))
  BY <1>1, ClaimedPoint
<1> HIDE DEF rest
<1>7. StillSound(r.before, pk, r.input)
        <=> /\ r.before.sound
            /\ r.before.first /\ pk.rest /\ small
                 => r.input.circuit.w \notin Large /\ ~pk.challenge
  BY <1>4 DEF StillSound, small
<1>8. CASE p.cached_rest_msm = None
  <2>1. cached = [p EXCEPT !.cached_rest_witness = rest, !.cached_rest_msm = raw]
    BY <1>3, <1>4, <1>8, Zenon DEF CacheRest, FirstRest
  <2>2. raw # None
    BY <1>6, NoneAssumption
  <2>3. \E claim \in BOOLEAN : raw = CommitWithoutBlind(rest, claim)
    BY <1>1
  <2>4. raw \in BlindedPoint
    BY <1>6 DEF BlindedPoint
  <2> HIDE DEF raw
  <2>5. /\ cached \in PreparedState /\ cached.cached_rest_witness = rest
        /\ cached.cached_rest_msm = raw
    BY <1>1, <1>6, <2>1 DEF PreparedState, Option
  <2>6. rest # None
    BY <1>1, NoneAssumption
  <2>7. CacheIsPair(cached) /\ cached.cached_rest_msm # None
    BY <1>4, <2>2, <2>3, <2>5, <2>6 DEF CacheIsPair
  <2>8. RestPoint(p, cached) = raw
    BY <1>4, <1>8, <2>5 DEF RestPoint, AddDelta
  <2>9. CacheIsWhole(p) /\ (CacheIsWhole(cached) <=> raw = <<"whole", rest>>)
    BY <1>8, <2>2, <2>5 DEF CacheIsWhole
  <2>10. StillSound(r.before, pk, r.input) <=> StoredAreWhole(p) /\ (small => FitsWord(rest))
    BY <1>2, <1>4, <1>7, <1>8, <2>9
  <2>11. QED
    BY <1>6, <2>1, <2>4, <2>5, <2>7, <2>8, <2>9, <2>10 DEF p, r, rest
<1>9. CASE p.cached_rest_msm # None
  <2> DEFINE old == p.cached_rest_witness
             msm == p.cached_rest_msm
  <2>1. old # None
    BY <1>5, <1>9 DEF CacheIsPair
  <2>2. cached = p
    BY <1>3, <1>9, <2>1 DEF CacheRest
  <2>3. old \in RestSegment
    BY <1>1, <2>1 DEF PreparedState, Option
  <2>4. PICK claim \in BOOLEAN : msm = CommitWithoutBlind(old, claim)
    BY <1>5, <1>9 DEF CacheIsPair
  <2>5. RestPoint(p, cached) = AddDelta(msm, rest, old)
    BY <1>4, <1>9, <2>2 DEF RestPoint
  <2>6. CacheIsWhole(p) <=> msm = <<"whole", old>>
    BY <1>9 DEF CacheIsWhole
  <2> HIDE DEF old, msm
  <2>7. /\ AddDelta(msm, rest, old) \in BlindedPoint
        /\ AddDelta(msm, rest, old) = <<"whole", rest>> <=> msm = <<"whole", old>>
    BY <1>1, <2>3, <2>4, AddDeltaPoint
  <2>8. StillSound(r.before, pk, r.input) <=> StoredAreWhole(p) /\ msm = <<"whole", old>>
    BY <1>4, <1>7, <1>9, <2>6
  <2>9. cached = [p EXCEPT !.cached_rest_witness = cached.cached_rest_witness,
                           !.cached_rest_msm = cached.cached_rest_msm]
    BY <1>1, <2>2 DEF PreparedState
  <2>10. QED
    BY <1>1, <1>5, <1>9, <2>2, <2>5, <2>6, <2>7, <2>8, <2>9 DEF p, r, rest
<1>10. QED
  BY <1>8, <1>9

LEMMA CommitRestInv ==
  ASSUME SessionInv, NEW s \in Slots, CommitRest(s)
  PROVE  SessionInv' /\ Continues(s)
<1> DEFINE p == prep[s]
           r == run[s]
           b == Blind(r.k, "rest")
           q == CacheRest(p, r.input.is_small)
           point == RestPoint(p, q)
           u == WithInstance(r, p, p.W, Commit(point, b), b)
<1>1. /\ r # None /\ r.stage = "commit"
      /\ prep' = [prep EXCEPT ![s] = q]
      /\ run' = [run EXCEPT ![s] = WithInstance(@, p, p.W, Commit(point, b), b)]
      /\ pk' = pk /\ proofs' = proofs /\ calls' = calls
  BY DEF CommitRest
<1>2. /\ pk \in Keys /\ p # None /\ p \in PreparedState /\ Usable(p)
      /\ r \in Running /\ Proving(p, r) /\ r.k \in 1 .. calls /\ r.k \in Nat
  BY <1>1, ProveRuns
<1>3. run' = [run EXCEPT ![s] = u]
  BY <1>1, Zenon
<1>4. /\ q \in PreparedState /\ CacheIsPair(q) /\ q.cached_rest_msm # None
      /\ q = [p EXCEPT !.cached_rest_witness = q.cached_rest_witness,
                       !.cached_rest_msm = q.cached_rest_msm]
      /\ point \in BlindedPoint
      /\ StillSound(r.before, pk, r.input)
           <=> StoredAreWhole(p) /\ point = <<"whole", RestOf(r)>>
      /\ StillSound(r.before, pk, r.input) <=> StoredAreWhole(p) /\ CacheIsWhole(q)
  BY <1>1, CommitRestPoint, Zenon
<1>5. b \in Atom
  BY <1>2, BlindIsAtom
<1>6. p.W \in Witness
  BY <1>2 DEF PreparedState
<1>7. BeforeCommit(p, r)
  BY <1>1, <1>2 DEF Proving, AfterCommit
<1>8. pk.zk /\ p.W.rest = RestOf(r)
  BY <1>1, <1>7 DEF BeforeCommit
<1> HIDE DEF p, r, q, point
<1>9. /\ u \in Running /\ u.stage = "multiply" /\ u.W = p.W
      /\ u.r_W = <<p.r_W_shared, p.r_W_precommitted, b>>
      /\ u.U = [comm_W_shared |-> p.comm_W_shared,
                comm_W_precommitted |-> p.comm_W_precommitted,
                comm_W_rest |-> Commit(point, b),
                public_values |-> Values(pk, r.input.circuit),
                challenges |-> r.challenges]
      /\ u.U.comm_W_rest.v = point
      /\ u.input = r.input /\ u.k = r.k
      /\ u.challenges = r.challenges /\ u.before = r.before
  <2>1. u = WithInstance(r, p, p.W, Commit(point, b), b)
    OBVIOUS
  <2> HIDE DEF u, b
  <2>2. /\ pk \in Keys /\ r \in Running /\ p \in PreparedState /\ p.W \in Witness
        /\ point \in BlindedPoint /\ b \in Atom
    BY <1>2, <1>4, <1>5, <1>6
  <2>3. HandsOver(u, r, p, p.W, point, b)
    BY <2>1, <2>2, WithInstanceFacts
  <2>4. QED
    BY <2>3 DEF HandsOver
<1> HIDE DEF u
<1>10. /\ q.aux = p.aux /\ q.W = p.W
       /\ q.comm_W_shared = p.comm_W_shared /\ q.r_W_shared = p.r_W_shared
       /\ q.comm_W_precommitted = p.comm_W_precommitted
       /\ q.r_W_precommitted = p.r_W_precommitted
       /\ q.cached_product = p.cached_product /\ q.of = p.of /\ q.sound = p.sound
       /\ q.scratch = p.scratch /\ q.z_buffer = p.z_buffer
  BY <1>2, <1>4 DEF PreparedState
<1>11. Usable(q) /\ (StoredAreWhole(q) <=> StoredAreWhole(p))
  <2>1. Len(q.aux) \in PrepAuxLen .. PrepAuxLen + (IF pk.rest THEN 1 ELSE 0)
    BY <1>2, <1>10 DEF Usable, HoldsPrep
  <2>2. QED
    BY <1>2, <1>4, <1>10, <2>1, ReplacedUsable
<1>12. RestOf(u) = RestOf(r)
  BY <1>9 DEF RestOf
<1>13. AfterCommit(q, u)
  <2>1. u.W = [shared |-> q.W.shared, precommitted |-> q.W.precommitted, rest |-> RestOf(u)]
    BY <1>6, <1>8, <1>9, <1>10, <1>12 DEF Witness
  <2>2. /\ u.r_W = <<q.r_W_shared, q.r_W_precommitted, Blind(u.k, "rest")>>
        /\ u.U = [comm_W_shared |-> q.comm_W_shared,
                  comm_W_precommitted |-> q.comm_W_precommitted,
                  comm_W_rest |-> Commit(u.U.comm_W_rest.v, Blind(u.k, "rest")),
                  public_values |-> Values(pk, u.input.circuit),
                  challenges |-> u.challenges]
    BY <1>9, <1>10 DEF b
  <2>3. /\ StillSound(u.before, pk, u.input)
             <=> StoredAreWhole(q) /\ u.U.comm_W_rest.v = <<"whole", RestOf(u)>>
        /\ StillSound(u.before, pk, u.input) <=> StoredAreWhole(q) /\ CacheIsWhole(q)
    BY <1>4, <1>9, <1>11, <1>12
  <2>4. u.before.sound => StoredAreWhole(q)
    BY <1>7, <1>9, <1>11 DEF BeforeCommit
  <2>5. QED
    BY <1>4, <1>8, <1>9, <2>1, <2>2, <2>3, <2>4 DEF AfterCommit
<1>14. Proving(q, u)
  <2>1. r.stage = "commit"
    BY <1>1 DEF r
  <2>2. QED
    BY <1>2, <1>9, <1>10, <1>13, <2>1 DEF Proving
<1>15. SlotInv(q, u)
  BY <1>4, <1>9, <1>11, <1>14, NoneAssumption DEF SlotInv
<1>16. q \in Option(PreparedState) /\ u \in Option(Running) /\ u.k \in 1 .. calls
  BY <1>2, <1>4, <1>9 DEF Option
<1>17. pk # None
  BY <1>2, NoneAssumption
<1>18. SessionInv'
  BY <1>1, <1>2, <1>3, <1>15, <1>16, <1>17, Keyed, SlotStep
<1>19. Continues(s)
  <2>1. /\ r # None /\ q \in PreparedState /\ prep' = [prep EXCEPT ![s] = q]
        /\ u \in Running /\ run' = [run EXCEPT ![s] = u]
        /\ u.before = r.before /\ u.input = r.input /\ u.k = r.k
    BY <1>1, <1>3, <1>4, <1>9
  <2>2. QED
    BY <2>1 DEF Continues, r
<1>20. QED
  BY <1>18, <1>19

(* vega_sc.rs: W is moved out with the rest, and filled again without it.   *)
LEMMA BuildPlainInv ==
  ASSUME SessionInv, NEW s \in Slots, BuildPlain(s)
  PROVE  SessionInv' /\ Continues(s)
<1> DEFINE p == prep[s]
           r == run[s]
           skip == ~pk.rest /\ r.challenges = <<>>
           aux == IF skip THEN p.aux
                  ELSE SynthesizedAux(p.aux, r.input.circuit, r.challenges)
           W == IF skip THEN p.W ELSE WithRest(p.W, aux)
           b == Blind(r.k, "rest")
           point == CommitWithoutBlind(W.rest, r.input.is_small)
           again == [shared |-> IF pk.shared THEN aux[1] ELSE Zero,
                     precommitted |-> IF pk.precommitted THEN aux[PrepAuxLen] ELSE Zero,
                     rest |-> Zero]
           q == [p EXCEPT !.aux = aux, !.W = again]
           u == WithInstance(r, p, W, Commit(point, b), b)
<1>1. /\ r # None /\ r.stage = "build"
      /\ prep' = [prep EXCEPT ![s].aux = aux, ![s].W = again]
      /\ run' = [run EXCEPT ![s] = WithInstance(@, p, W, Commit(point, b), b)]
      /\ pk' = pk /\ proofs' = proofs /\ calls' = calls
  BY Zenon DEF BuildPlain
<1>2. /\ pk \in Keys /\ p # None /\ p \in PreparedState /\ Usable(p)
      /\ r \in Running /\ Proving(p, r) /\ r.k \in 1 .. calls /\ r.k \in Nat
      /\ r.input.circuit \in Circuits /\ r.challenges \in Seq(Transcript)
      /\ r.input.is_small \in BOOLEAN /\ RestOf(r) \in RestSegment
  BY <1>1, ProveRuns
<1>3. FitsWord(RestOf(r)) <=> (pk.rest => r.input.circuit.w \notin Large /\ ~pk.challenge)
  BY <1>1, RestFits
<1>4. prep' = [prep EXCEPT ![s] = q] /\ run' = [run EXCEPT ![s] = u]
  <2>1. prep \in [Slots -> Option(PreparedState)] /\ run \in [Slots -> Option(Running)]
    BY DEF SessionInv, TypeOK
  <2> HIDE DEF aux, again, W
  <2>2. prep' = [prep EXCEPT ![s] = q]
    BY <1>1, <2>1
  <2>3. run' = [run EXCEPT ![s] = u]
    BY <1>1, Zenon
  <2>4. QED
    BY <2>2, <2>3
<1>5. /\ SynthesizedAux(p.aux, r.input.circuit, r.challenges) \in Seq(Value \cup RestContent)
      /\ Len(SynthesizedAux(p.aux, r.input.circuit, r.challenges))
           = PrepAuxLen + (IF pk.rest THEN 1 ELSE 0)
      /\ \A j \in 1 .. PrepAuxLen :
           SynthesizedAux(p.aux, r.input.circuit, r.challenges)[j] = p.aux[j]
      /\ pk.rest => SynthesizedAux(p.aux, r.input.circuit, r.challenges)[PrepAuxLen + 1]
                      = RestValue(r.input.circuit, r.challenges)
  BY <1>2, SynthesizedAuxFacts
<1>6. r.stage = "build"
  BY <1>1
<1> HIDE DEF p, r
<1>7. BeforeCommit(p, r)
  BY <1>2, <1>6 DEF Proving, AfterCommit
<1>8. /\ ~pk.zk /\ p.W.rest = Zero /\ p.cached_rest_msm = None
      /\ p.sound <=> StoredAreWhole(p)
      /\ r.before.sound <=> StoredAreWhole(p)
      /\ r.before.first
  <2>1. ~pk.zk /\ p.W.rest = Zero
    BY <1>6, <1>7 DEF BeforeCommit
  <2>2. p.cached_rest_msm = None
    BY <1>2, <2>1 DEF Usable, CacheIsPair
  <2>3. QED
    BY <1>2, <1>7, <2>1, <2>2 DEF BeforeCommit, CacheIsWhole, Proving
<1>9. /\ aux \in Seq(Value \cup RestContent)
      /\ Len(aux) \in PrepAuxLen .. PrepAuxLen + (IF pk.rest THEN 1 ELSE 0)
      /\ \A j \in 1 .. PrepAuxLen : aux[j] = p.aux[j]
  <2>1. p.aux \in Seq(Value \cup RestContent)
        /\ Len(p.aux) \in PrepAuxLen .. PrepAuxLen + (IF pk.rest THEN 1 ELSE 0)
    BY <1>2 DEF Usable, PreparedState, HoldsPrep
  <2>2. QED
    BY <1>5, <2>1, PrepAuxLenBound
<1>10. W = [p.W EXCEPT !.rest = RestOf(r)]
  <2>1. CASE skip
    <3>1. RestOf(r) = Zero /\ W = p.W
      BY <2>1 DEF RestOf
    <3>2. p.W \in Witness
      BY <1>2 DEF PreparedState
    <3>3. QED
      BY <1>8, <3>1, <3>2 DEF Witness
  <2>2. CASE ~skip
    BY <1>5, <2>2 DEF WithRest, RestOf
  <2>3. QED
    BY <2>1, <2>2
<1>11. p.W \in Witness
  BY <1>2 DEF PreparedState
<1>12. again = p.W
  <2>1. /\ pk.shared => 1 \in 1 .. PrepAuxLen
        /\ pk.precommitted => PrepAuxLen \in 1 .. PrepAuxLen
    BY PrepAuxLenBound
  <2>2. /\ (IF pk.shared THEN aux[1] ELSE Zero) = p.W.shared
        /\ (IF pk.precommitted THEN aux[PrepAuxLen] ELSE Zero) = p.W.precommitted
    BY <1>2, <1>9, <2>1 DEF Usable, HoldsPrep
  <2> HIDE DEF aux
  <2>3. p.W = [shared |-> p.W.shared, precommitted |-> p.W.precommitted, rest |-> Zero]
    BY <1>8, <1>11 DEF Witness
  <2>4. QED
    BY <2>2, <2>3
<1> HIDE DEF aux, again, W
<1>13. /\ W \in Witness /\ W.rest = RestOf(r)
       /\ W = [shared |-> p.W.shared, precommitted |-> p.W.precommitted, rest |-> RestOf(r)]
  BY <1>2, <1>10, <1>11 DEF Witness
<1>14. /\ point \in Point(RestSegment)
       /\ point = <<"whole", RestOf(r)>> <=> (r.input.is_small => FitsWord(RestOf(r)))
  BY <1>2, <1>13, ClaimedPoint
<1>15. b \in Atom
  BY <1>2, BlindIsAtom
<1> HIDE DEF point
<1>16. point \in BlindedPoint
  BY <1>14 DEF BlindedPoint
<1>17. /\ u \in Running /\ u.stage = "multiply" /\ u.W = W
       /\ u.r_W = <<p.r_W_shared, p.r_W_precommitted, b>>
       /\ u.U = [comm_W_shared |-> p.comm_W_shared,
                 comm_W_precommitted |-> p.comm_W_precommitted,
                 comm_W_rest |-> Commit(point, b),
                 public_values |-> Values(pk, r.input.circuit),
                 challenges |-> r.challenges]
       /\ u.U.comm_W_rest.v = point
       /\ u.input = r.input /\ u.k = r.k
       /\ u.challenges = r.challenges /\ u.before = r.before
  <2>1. u = WithInstance(r, p, W, Commit(point, b), b)
    OBVIOUS
  <2> HIDE DEF u, b
  <2>2. /\ pk \in Keys /\ r \in Running /\ p \in PreparedState /\ W \in Witness
        /\ point \in BlindedPoint /\ b \in Atom
    BY <1>2, <1>13, <1>15, <1>16
  <2>3. HandsOver(u, r, p, W, point, b)
    BY <2>1, <2>2, WithInstanceFacts
  <2>4. QED
    BY <2>3 DEF HandsOver
<1> HIDE DEF u
<1>18. /\ q \in PreparedState /\ q.aux = aux /\ q.W = p.W
       /\ q.comm_W_shared = p.comm_W_shared /\ q.r_W_shared = p.r_W_shared
       /\ q.comm_W_precommitted = p.comm_W_precommitted
       /\ q.r_W_precommitted = p.r_W_precommitted
       /\ q.cached_product = p.cached_product /\ q.of = p.of /\ q.sound = p.sound
       /\ q.cached_rest_msm = p.cached_rest_msm
       /\ q.cached_rest_witness = p.cached_rest_witness
       /\ q.scratch = p.scratch /\ q.z_buffer = p.z_buffer
  BY <1>2, <1>9, <1>11, <1>12 DEF PreparedState
<1> HIDE DEF q
<1>19. Usable(q) /\ (StoredAreWhole(q) <=> StoredAreWhole(p))
  <2>1. CacheIsPair(q)
    BY <1>2, <1>18 DEF Usable, CacheIsPair
  <2>2. QED
    BY <1>2, <1>9, <1>18, <2>1, ReplacedUsable
<1>20. RestOf(u) = RestOf(r)
  BY <1>17 DEF RestOf
<1>21. StillSound(r.before, pk, r.input)
         <=> StoredAreWhole(p) /\ point = <<"whole", RestOf(r)>>
  BY <1>3, <1>8, <1>14 DEF StillSound, r
<1>22. AfterCommit(q, u)
  <2>1. /\ u.W = [shared |-> q.W.shared, precommitted |-> q.W.precommitted, rest |-> RestOf(u)]
        /\ u.r_W = <<q.r_W_shared, q.r_W_precommitted, Blind(u.k, "rest")>>
        /\ u.U = [comm_W_shared |-> q.comm_W_shared,
                  comm_W_precommitted |-> q.comm_W_precommitted,
                  comm_W_rest |-> Commit(u.U.comm_W_rest.v, Blind(u.k, "rest")),
                  public_values |-> Values(pk, u.input.circuit),
                  challenges |-> u.challenges]
    BY <1>13, <1>17, <1>18, <1>20 DEF b
  <2>2. StillSound(u.before, pk, u.input)
          <=> StoredAreWhole(q) /\ u.U.comm_W_rest.v = <<"whole", RestOf(u)>>
    BY <1>17, <1>19, <1>20, <1>21
  <2>3. QED
    BY <1>8, <1>17, <1>18, <1>19, <2>1, <2>2 DEF AfterCommit
<1>23. Proving(q, u)
  BY <1>2, <1>6, <1>8, <1>17, <1>18, <1>22 DEF Proving
<1>24. SlotInv(q, u)
  BY <1>17, <1>18, <1>19, <1>23, NoneAssumption DEF SlotInv
<1>25. q \in Option(PreparedState) /\ u \in Option(Running) /\ u.k \in 1 .. calls
  BY <1>2, <1>17, <1>18 DEF Option
<1>26. pk # None
  BY <1>2, NoneAssumption
<1>27. SessionInv'
  BY <1>1, <1>2, <1>4, <1>24, <1>25, <1>26, Keyed, SlotStep
<1>28. Continues(s)
  <2>1. /\ r # None /\ q \in PreparedState /\ prep' = [prep EXCEPT ![s] = q]
        /\ u \in Running /\ run' = [run EXCEPT ![s] = u]
        /\ u.before = r.before /\ u.input = r.input /\ u.k = r.k
    BY <1>1, <1>4, <1>18, <1>17
  <2>2. QED
    BY <2>1 DEF Continues, r
<1>29. QED
  BY <1>27, <1>28

LEMMA MultiplyInv ==
  ASSUME SessionInv, NEW s \in Slots, Multiply(s)
  PROVE  SessionInv' /\ Continues(s)
<1> DEFINE p == prep[s]
           r == run[s]
           z == [W |-> r.W, X |-> r.U.public_values \o r.U.challenges]
           product == [pre |-> p.cached_product, tail |-> <<z.W.rest, z.X>>]
           q == [p EXCEPT !.z_buffer = "taken", !.scratch = "taken"]
           u == [r EXCEPT !.stage = "argue", !.z = z, !.product = product]
<1>1. /\ r # None /\ r.stage = "multiply"
      /\ prep' = [prep EXCEPT ![s].z_buffer = "taken", ![s].scratch = "taken"]
      /\ run' = [run EXCEPT ![s].stage = "argue", ![s].z = z, ![s].product = product]
      /\ pk' = pk /\ proofs' = proofs /\ calls' = calls
  BY Zenon DEF Multiply, BuildZ, MultiplyIncrementalInto
<1>2. /\ pk \in Keys /\ p # None /\ p \in PreparedState /\ Usable(p)
      /\ r \in Running /\ Proving(p, r) /\ r.k \in 1 .. calls
      /\ r.input.circuit \in Circuits /\ r.challenges \in Seq(Transcript)
      /\ RestOf(r) \in RestSegment
  BY <1>1, ProveRuns
<1>3. prep' = [prep EXCEPT ![s] = q] /\ run' = [run EXCEPT ![s] = u]
  <2>1. prep \in [Slots -> Option(PreparedState)] /\ run \in [Slots -> Option(Running)]
    BY DEF SessionInv, TypeOK
  <2> HIDE DEF z, product
  <2>2. QED
    BY <1>1, <2>1
<1>4. AfterCommit(p, r) /\ r.stage = "multiply"
  BY <1>1, <1>2 DEF Proving, BeforeCommit
<1> HIDE DEF p, r
<1>5. /\ r.W = [shared |-> p.W.shared, precommitted |-> p.W.precommitted, rest |-> RestOf(r)]
      /\ r.U.public_values = Values(pk, r.input.circuit)
      /\ r.U.challenges = r.challenges
  BY <1>4 DEF AfterCommit
<1>6. p.W \in Witness /\ p.cached_product = <<p.W.shared, p.W.precommitted>>
  BY <1>2 DEF PreparedState, Usable, HoldsPrep, PrecommittedProduct
<1>7. r.W \in Witness
  BY <1>2, <1>5, <1>6 DEF Witness
<1>8. z.X \in Seq(PublicValue \cup Transcript)
  <2>1. Values(pk, r.input.circuit) \in Seq(PublicValue)
    BY <1>2, ValuesType
  <2>2. /\ r.U.public_values \in Seq(PublicValue \cup Transcript)
        /\ r.U.challenges \in Seq(PublicValue \cup Transcript)
    BY <1>2, <1>5, <2>1, Widen
  <2>3. r.U.public_values \o r.U.challenges \in Seq(PublicValue \cup Transcript)
    BY <2>2, Concat
  <2>4. QED
    BY <2>3
<1>9. z.W = r.W
  OBVIOUS
<1>10. z \in [W : Witness, X : Seq(PublicValue \cup Transcript)]
  BY <1>7, <1>8
<1> HIDE DEF z
<1>11. product = Product(z)
  BY <1>5, <1>6, <1>9 DEF Product
<1>12. product \in [pre : SharedValue \X PrecommittedValue,
                    tail : RestSegment \X Seq(PublicValue \cup Transcript)]
  <2>1. p.cached_product \in SharedValue \X PrecommittedValue
    BY <1>2 DEF PreparedState
  <2>2. <<z.W.rest, z.X>> \in RestSegment \X Seq(PublicValue \cup Transcript)
    BY <1>10 DEF Witness
  <2>3. QED
    BY <2>1, <2>2
<1> HIDE DEF product
<1>13. /\ u \in Running /\ u.stage = "argue" /\ u.z = z /\ u.product = product
       /\ u.W = r.W /\ u.r_W = r.r_W /\ u.U = r.U
       /\ u.input = r.input /\ u.k = r.k /\ u.challenges = r.challenges
       /\ u.before = r.before
  <2>1. /\ z \in Option([W : Witness, X : Seq(PublicValue \cup Transcript)])
        /\ product \in Option([pre : SharedValue \X PrecommittedValue,
                              tail : RestSegment \X Seq(PublicValue \cup Transcript)])
    BY <1>10, <1>12 DEF Option
  <2>2. u \in Running
    BY <1>2, <2>1 DEF Running
  <2>3. QED
    BY <1>2, <2>2 DEF Running
<1>14. /\ q \in PreparedState /\ q.aux = p.aux /\ q.W = p.W
       /\ q.comm_W_shared = p.comm_W_shared /\ q.r_W_shared = p.r_W_shared
       /\ q.comm_W_precommitted = p.comm_W_precommitted
       /\ q.r_W_precommitted = p.r_W_precommitted
       /\ q.cached_product = p.cached_product /\ q.of = p.of /\ q.sound = p.sound
       /\ q.cached_rest_msm = p.cached_rest_msm
       /\ q.cached_rest_witness = p.cached_rest_witness
       /\ q.scratch = "taken" /\ q.z_buffer = "taken"
  BY <1>2 DEF PreparedState, Buffer
<1> HIDE DEF q, u
<1>15. Usable(q) /\ (StoredAreWhole(q) <=> StoredAreWhole(p))
  <2>1. CacheIsPair(q)
    BY <1>2, <1>14 DEF Usable, CacheIsPair
  <2>2. Len(q.aux) \in PrepAuxLen .. PrepAuxLen + (IF pk.rest THEN 1 ELSE 0)
    BY <1>2, <1>14 DEF Usable, HoldsPrep
  <2>3. QED
    BY <1>2, <1>14, <2>1, <2>2, ReplacedUsable
<1>16. RestOf(u) = RestOf(r)
  BY <1>13 DEF RestOf
<1>17. CacheIsWhole(q) <=> CacheIsWhole(p)
  BY <1>14 DEF CacheIsWhole
<1>18. AfterCommit(q, u)
  <2>1. u.z = [W |-> u.W, X |-> u.U.public_values \o u.U.challenges] /\ u.product = Product(u.z)
    BY <1>11, <1>13 DEF z
  <2>2. QED
    BY <1>4, <1>13, <1>14, <1>15, <1>16, <1>17, <2>1 DEF AfterCommit
<1>19. Proving(q, u)
  BY <1>2, <1>13, <1>14, <1>18 DEF Proving
<1>20. SlotInv(q, u)
  BY <1>13, <1>14, <1>15, <1>19, NoneAssumption DEF SlotInv
<1>21. q \in Option(PreparedState) /\ u \in Option(Running) /\ u.k \in 1 .. calls
  BY <1>2, <1>13, <1>14 DEF Option
<1>22. pk # None
  BY <1>2, NoneAssumption
<1>23. SessionInv'
  BY <1>1, <1>2, <1>3, <1>20, <1>21, <1>22, Keyed, SlotStep
<1>24. Continues(s)
  <2>1. /\ r # None /\ q \in PreparedState /\ prep' = [prep EXCEPT ![s] = q]
        /\ u \in Running /\ run' = [run EXCEPT ![s] = u]
        /\ u.before = r.before /\ u.input = r.input /\ u.k = r.k
    BY <1>1, <1>3, <1>14, <1>13
  <2>2. QED
    BY <2>1 DEF Continues, r
<1>25. QED
  BY <1>23, <1>24

LEMMA HeadTail ==
  ASSUME NEW S, NEW f \in Seq(S), NEW g \in Seq(S)
  PROVE  Len(f) = 1 => (f \o g)[1] = f[1] /\ Tail(f \o g) = g
<1> DEFINE h == f \o g
<1>1. /\ h \in Seq(S) /\ Len(h) = Len(f) + Len(g)
      /\ \A i \in 1 .. Len(f) : h[i] = f[i]
      /\ \A i \in 1 .. Len(g) : h[Len(f) + i] = g[i]
  BY Concat
<1> HIDE DEF h
<1> SUFFICES ASSUME Len(f) = 1 PROVE h[1] = f[1] /\ Tail(h) = g
  BY DEF h
<1>2. /\ Len(h) = 1 + Len(g) /\ Len(g) \in Nat
      /\ \A i \in 1 .. Len(g) : h[1 + i] = g[i]
  BY <1>1
<1>3. h[1] = f[1]
  BY <1>1
<1>4. Tail(h) \in Seq(S) /\ Len(Tail(h)) = Len(g)
  BY <1>1, <1>2
<1>5. \A i \in 1 .. Len(g) : Tail(h)[i] = g[i]
  BY <1>1, <1>2
<1>6. Tail(h) = g
  BY <1>4, <1>5
<1>7. QED
  BY <1>3, <1>6

(* A finished prove, with what its argument is about.  *)
Finished(p, r) ==
  /\ p \in PreparedState /\ Usable(p)
  /\ r \in Running /\ Proving(p, r) /\ AfterCommit(p, r) /\ r.stage = "argue"

(* The commitments of a finished prove open to its witness exactly when no  *)
(* claim behind them was false.                                             *)
LEMMA FinishedOpens ==
  ASSUME pk \in Keys, NEW p, NEW r, Finished(p, r)
  PROVE  OpensTo(r.U, r.W, r.r_W) <=> StillSound(r.before, pk, r.input)
<1>1. /\ r.W.shared = p.W.shared /\ r.W.precommitted = p.W.precommitted
      /\ r.W.rest = RestOf(r)
      /\ r.r_W[1] = p.r_W_shared /\ r.r_W[2] = p.r_W_precommitted
      /\ r.r_W[3] = Blind(r.k, "rest")
      /\ r.U.comm_W_shared = p.comm_W_shared
      /\ r.U.comm_W_precommitted = p.comm_W_precommitted
      /\ r.U.comm_W_rest = Commit(r.U.comm_W_rest.v, Blind(r.k, "rest"))
      /\ StillSound(r.before, pk, r.input)
           <=> StoredAreWhole(p) /\ r.U.comm_W_rest.v = <<"whole", RestOf(r)>>
  BY DEF Finished, AfterCommit
<1>2. OpensWhole(r.U.comm_W_rest, r.W.rest, r.r_W[3])
        <=> r.U.comm_W_rest.v = <<"whole", RestOf(r)>>
  BY <1>1, CommitInjective DEF OpensWhole, Opens
<1>3. /\ r.U.comm_W_shared # None <=> pk.shared
      /\ r.U.comm_W_precommitted # None <=> pk.precommitted
  BY <1>1 DEF Finished, Usable, SharedOpens, PrecommittedOpens
<1>4. QED
  BY <1>1, <1>2, <1>3 DEF OpensTo, StoredAreWhole

(* Its assignment satisfies the relation exactly when the private inputs of *)
(* prep_prove and prove agree where they meet.                              *)
LEMMA FinishedSat ==
  ASSUME pk \in Keys, NEW p, NEW r, Finished(p, r)
  PROVE  IsSat(r.z) <=>
           /\ pk.precommitted /\ pk.rest => r.before.of.w = r.input.circuit.w
           /\ Values(pk, r.input.circuit)
                = <<Out[<<IF pk.shared THEN r.before.of.sh ELSE Zero,
                          IF pk.precommitted THEN r.before.of.w ELSE r.input.circuit.w>>]>>
<1> DEFINE c == r.input.circuit
           V == Values(pk, c)
           sh == IF pk.shared THEN r.before.of.sh ELSE Zero
           w == IF pk.precommitted THEN r.before.of.w ELSE c.w
           sat == IF pk.precommitted THEN r.z.W.precommitted ELSE r.z.W.rest.w
<1>1. /\ c \in Circuits /\ r.challenges \in Seq(Transcript)
      /\ pk.precommitted \/ pk.rest
  BY InputType, KeyType DEF Finished, Running
<1>2. /\ r.z = [W |-> r.W, X |-> r.U.public_values \o r.U.challenges]
      /\ r.U.public_values = V /\ r.U.challenges = r.challenges
      /\ r.W.shared = p.W.shared /\ r.W.precommitted = p.W.precommitted
      /\ r.W.rest = RestOf(r)
  BY DEF Finished, AfterCommit
<1>3. r.before.of = p.of
  BY DEF Finished, Proving
<1>4. /\ r.z.W.shared = sh
      /\ pk.precommitted => r.z.W.precommitted = r.before.of.w
  BY <1>2, <1>3 DEF Finished, Usable, HoldsPrep
<1>5. V \in Seq(PublicValue) /\ Len(V) = 1
  BY <1>1, ValuesType
<1> HIDE DEF V
<1>6. r.z.X[1] = V[1] /\ Tail(r.z.X) = r.challenges
  <2>1. /\ V \in Seq(PublicValue \cup Transcript)
        /\ r.challenges \in Seq(PublicValue \cup Transcript)
    BY <1>1, <1>5, Widen
  <2>2. r.z.X = V \o r.challenges
    BY <1>2
  <2>3. QED
    BY <1>5, <2>1, <2>2, HeadTail
<1>7. pk.rest => RestOf(r) = [w |-> c.w, challenges |-> r.challenges]
  BY DEF RestOf, RestValue
<1>8. sat = w
  BY <1>1, <1>2, <1>4, <1>7
<1>9. r.z.W.rest = (IF pk.rest THEN [w |-> sat, challenges |-> Tail(r.z.X)] ELSE Zero)
        <=> (pk.precommitted /\ pk.rest => r.before.of.w = c.w)
  <2>1. CASE pk.rest
    <3>1. r.z.W.rest = [w |-> c.w, challenges |-> r.challenges]
      BY <1>2, <1>7, <2>1
    <3>2. [w |-> c.w, challenges |-> r.challenges] = [w |-> w, challenges |-> r.challenges]
            <=> c.w = w
      <4>1. /\ [w |-> c.w, challenges |-> r.challenges].w = c.w
            /\ [w |-> w, challenges |-> r.challenges].w = w
        OBVIOUS
      <4>2. QED
        BY <4>1
    <3>3. QED
      BY <1>6, <1>8, <2>1, <3>1, <3>2
  <2>2. CASE ~pk.rest
    BY <1>2, <2>2 DEF RestOf
  <2>3. QED
    BY <2>1, <2>2
<1>10. r.z.X[1] = Out[<<r.z.W.shared, sat>>] <=> V = <<Out[<<sh, w>>]>>
  BY <1>4, <1>5, <1>6, <1>8
<1>11. QED
  BY <1>9, <1>10 DEF IsSat, V

(* What Argue adds to the proofs. *)
Outcome(r) ==
  [proof |-> MakeProof(r.U, r.W, r.r_W, r.z, r.product),
   before |-> r.before, input |-> r.input]

(* Its proof verifies exactly when the summary of the calls accepts it. *)
LEMMA FinishedVerifies ==
  ASSUME pk \in Keys, NEW p, NEW r, Finished(p, r)
  PROVE  Verify(Outcome(r).proof) <=> Accepted(pk, r.before, r.input)
<1> DEFINE proof == Outcome(r).proof
           convincing == /\ OpensTo(r.U, r.W, r.r_W)
                         /\ r.z = [W |-> r.W, X |-> r.U.public_values \o r.U.challenges]
                         /\ r.product = Product(r.z)
                         /\ IsSat(r.z)
<1>1. /\ proof.U = r.U /\ proof.argument.statement = r.U
      /\ proof.argument.convincing = convincing
  BY Zenon DEF Outcome, MakeProof
<1> HIDE DEF proof
<1>2. /\ r.U.comm_W_shared = p.comm_W_shared
      /\ r.U.comm_W_precommitted = p.comm_W_precommitted
      /\ r.U.public_values = Values(pk, r.input.circuit)
      /\ r.U.challenges = r.challenges
      /\ r.z = [W |-> r.W, X |-> r.U.public_values \o r.U.challenges]
      /\ r.product = Product(r.z)
  BY DEF Finished, AfterCommit
<1>3. Len(r.U.public_values) = 1
  <2>1. r.input.circuit \in Circuits
    BY InputType DEF Finished, Running
  <2>2. QED
    BY ZenonT(60), <1>2, <2>1, ValuesType
<1>4. /\ pk.shared <=> r.U.comm_W_shared # None
      /\ pk.precommitted <=> r.U.comm_W_precommitted # None
  BY <1>2 DEF Finished, Usable, SharedOpens, PrecommittedOpens
<1>5. r.U.challenges = Challenges(r.U.public_values, r.U.comm_W_shared,
                                  r.U.comm_W_precommitted)
  BY <1>2 DEF Finished, Proving
<1>6. Verify(proof) <=> convincing
  BY <1>1, <1>3, <1>4, <1>5 DEF Verify
<1>7. convincing <=> OpensTo(r.U, r.W, r.r_W) /\ IsSat(r.z)
  BY <1>2
<1>8. QED
  BY <1>6, <1>7, FinishedOpens, FinishedSat DEF Accepted, proof

(* A commitment stored under its blind is to a whole value exactly when it  *)
(* opens to it.                                                             *)
LEMMA OpensWholePoint ==
  ASSUME NEW comm, NEW v, NEW r, OpensUnderAClaim(comm, v, r)
  PROVE  OpensWhole(comm, v, r) <=> comm.v = <<"whole", v>>
<1>1. PICK claim \in BOOLEAN : comm = Commit(CommitWithoutBlind(v, claim), r)
  BY DEF OpensUnderAClaim
<1>2. comm.v = CommitWithoutBlind(v, claim)
  BY <1>1 DEF Commit
<1>3. comm = Commit(<<"whole", v>>, r) => comm.v = <<"whole", v>>
  BY DEF Commit
<1>4. QED
  BY <1>1, <1>2, <1>3 DEF OpensWhole, Opens

LEMMA FinishedDelivers ==
  ASSUME pk \in Keys, NEW p, NEW r, Finished(p, r)
  PROVE  Delivered(Outcome(r))
<1> DEFINE U == r.U
<1>1. /\ Outcome(r).proof.U = U /\ Outcome(r).before = r.before
      /\ Outcome(r).input = r.input
  BY Zenon DEF Outcome, MakeProof
<1>2. /\ U.public_values = Values(pk, r.input.circuit) /\ U.challenges = r.challenges
      /\ U.comm_W_shared = p.comm_W_shared
      /\ U.comm_W_precommitted = p.comm_W_precommitted
      /\ StillSound(r.before, pk, r.input)
           <=> StoredAreWhole(p) /\ U.comm_W_rest.v = <<"whole", RestOf(r)>>
  BY DEF Finished, AfterCommit
<1>3. Verify(Outcome(r).proof) <=> Accepted(pk, r.before, r.input)
  BY FinishedVerifies
<1>4. CommitsToCurrent(Outcome(r))
  <2>1. /\ pk.shared => p.W.shared = r.before.of.sh
        /\ pk.precommitted => p.W.precommitted = r.before.of.w
    BY DEF Finished, Proving, Usable, HoldsPrep
  <2>2. pk.shared => (OpensWhole(p.comm_W_shared, p.W.shared, p.r_W_shared)
                        <=> U.comm_W_shared.v = <<"whole", r.before.of.sh>>)
    BY <1>2, <2>1, OpensWholePoint DEF Finished, Usable, SharedOpens
  <2>3. pk.precommitted =>
          (OpensWhole(p.comm_W_precommitted, p.W.precommitted, p.r_W_precommitted)
             <=> U.comm_W_precommitted.v = <<"whole", r.before.of.w>>)
    BY <1>2, <2>1, OpensWholePoint DEF Finished, Usable, PrecommittedOpens
  <2>4. RestOf(r) = IF pk.rest THEN RestValue(r.input.circuit, U.challenges) ELSE Zero
    BY <1>2 DEF RestOf
  <2> HIDE DEF U
  <2>5. QED
    BY <1>1, <1>2, <2>2, <2>3, <2>4 DEF CommitsToCurrent, StoredAreWhole
<1>5. QED
  BY <1>1, <1>2, <1>3, <1>4 DEF Delivered

LEMMA ArgueInv ==
  ASSUME SessionInv, NEW s \in Slots, Argue(s)
  PROVE  SessionInv'
<1> DEFINE p == prep[s]
           r == run[s]
           sound == IF pk.zk THEN StillSound(r.before, pk, r.input) ELSE p.sound
           q == [p EXCEPT !.z_buffer = "bound", !.scratch = "bound", !.sound = sound]
<1>1. /\ r # None /\ r.stage = "argue"
      /\ proofs' = proofs \cup {Outcome(r)}
      /\ prep' = [prep EXCEPT ![s].z_buffer = "bound", ![s].scratch = "bound",
                              ![s].sound = IF pk.zk THEN StillSound(r.before, pk, r.input)
                                           ELSE @]
      /\ run' = [run EXCEPT ![s] = None] /\ pk' = pk /\ calls' = calls
  BY Zenon DEF Argue, Outcome
<1>2. /\ pk \in Keys /\ p # None /\ p \in PreparedState /\ Usable(p)
      /\ r \in Running /\ Proving(p, r) /\ r.k \in 1 .. calls
      /\ r.input.circuit \in Circuits /\ r.challenges \in Seq(Transcript)
      /\ r.before \in Before
  BY <1>1, ProveRuns
<1>3. prep' = [prep EXCEPT ![s] = q]
  <2>1. prep \in [Slots -> Option(PreparedState)]
    BY DEF SessionInv, TypeOK
  <2>2. QED
    BY <1>1, <1>2, <2>1 DEF PreparedState
<1>4. AfterCommit(p, r)
  BY <1>1, <1>2 DEF Proving, BeforeCommit
<1>5. Finished(p, r)
  BY <1>1, <1>2, <1>4 DEF Finished
<1> HIDE DEF p, r
<1>6. \A o \in proofs' : Delivered(o)
  BY <1>1, <1>2, <1>5, FinishedDelivers DEF SessionInv
<1>7. sound \in BOOLEAN
  BY <1>2 DEF StillSound, PreparedState
<1>8. sound <=> StoredAreWhole(p) /\ CacheIsWhole(p)
  BY <1>4 DEF AfterCommit, CacheIsWhole
<1> HIDE DEF sound
<1>9. /\ q \in PreparedState /\ q.aux = p.aux /\ q.W = p.W
      /\ q.comm_W_shared = p.comm_W_shared /\ q.r_W_shared = p.r_W_shared
      /\ q.comm_W_precommitted = p.comm_W_precommitted
      /\ q.r_W_precommitted = p.r_W_precommitted
      /\ q.cached_product = p.cached_product /\ q.of = p.of /\ q.sound = sound
      /\ q.cached_rest_msm = p.cached_rest_msm
      /\ q.cached_rest_witness = p.cached_rest_witness
      /\ q.scratch = "bound" /\ q.z_buffer = "bound"
  BY <1>2, <1>7 DEF PreparedState, Buffer
<1> HIDE DEF q
<1>10. Usable(q) /\ (StoredAreWhole(q) <=> StoredAreWhole(p))
  <2>1. CacheIsPair(q)
    BY <1>2, <1>9 DEF Usable, CacheIsPair
  <2>2. Len(q.aux) \in PrepAuxLen .. PrepAuxLen + (IF pk.rest THEN 1 ELSE 0)
    BY <1>2, <1>9 DEF Usable, HoldsPrep
  <2>3. p.W \in Witness
    BY <1>2 DEF PreparedState
  <2>4. QED
    BY <1>2, <1>9, <2>1, <2>2, <2>3, ReplacedUsable
<1>11. Resting(q)
  BY <1>4, <1>8, <1>9, <1>10 DEF Resting, CacheIsWhole, AfterCommit
<1>12. SlotInv(q, None)
  BY <1>10, <1>11 DEF SlotInv
<1>13. q \in Option(PreparedState) /\ None \in Option(Running) /\ calls \in 0 .. MaxCalls
  BY <1>9 DEF Option, SessionInv, TypeOK
<1>14. QED
  BY <1>1, <1>2, <1>3, <1>6, <1>12, <1>13, SlotStep

LEMMA StepInv == SessionInv /\ [Next]_vars => SessionInv'
<1> SUFFICES ASSUME SessionInv, [Next]_vars PROVE SessionInv'
  OBVIOUS
<1>1. CASE \E key \in Keys : Setup(key)
  BY <1>1, SetupInv
<1>2. CASE \E s \in Slots : \E input \in Inputs :
             PrepProve(s, input) \/ ProveZk(s, input) \/ ProvePlain(s, input)
  BY <1>2, PrepProveInv, ProveZkInv, ProvePlainInv
<1>3. CASE \E s \in Slots : \E t \in Slots : Clone(s, t)
  BY <1>3, CloneInv
<1>4. CASE \E s \in Slots : Step(s)
  BY <1>4, SynthesizeInv, CommitRestInv, BuildPlainInv, MultiplyInv, ArgueInv DEF Step
<1>5. CASE \E s \in Slots : Fail(s)
  BY <1>5, FailInv
<1>6. CASE UNCHANGED vars
  <2>1. /\ pk' = pk /\ prep' = prep /\ run' = run /\ proofs' = proofs /\ calls' = calls
    BY <1>6 DEF vars
  <2>2. CASE pk = None
    BY <2>1, <2>2 DEF SessionInv, TypeOK, SlotInv
  <2>3. CASE pk # None
    <3>1. CASE Slots = {}
      <4>1. (\A q \in proofs : Delivered(q))'
        BY <2>1, DeliveredNext DEF SessionInv
      <4>2. QED
        BY <2>1, <2>3, <3>1, <4>1 DEF SessionInv, TypeOK
    <3>2. CASE \E s \in Slots : TRUE
      <4>1. PICK s \in Slots : TRUE
        BY <3>2
      <4>2. /\ pk \in Keys /\ SlotInv(prep[s], run[s])
            /\ prep[s] \in Option(PreparedState) /\ run[s] \in Option(Running)
            /\ calls' \in 0 .. MaxCalls
            /\ run[s] # None => run[s].k \in 1 .. calls'
        BY <2>1, <2>3, Keyed
      <4>3. /\ prep' = [prep EXCEPT ![s] = prep[s]] /\ run' = [run EXCEPT ![s] = run[s]]
            /\ \A q \in proofs' : Delivered(q)
        BY <2>1, <2>3, Keyed
      <4>4. QED
        BY <2>1, <4>2, <4>3, SlotStep
    <3>3. QED
      BY <3>1, <3>2
  <2>4. QED
    BY <2>2, <2>3
<1>7. QED
  BY <1>1, <1>2, <1>3, <1>4, <1>5, <1>6 DEF Next

-----------------------------------------------------------------------------
(* Theorems *)

(* The inductive invariant holds in every reachable state. *)
LEMMA InvariantHolds == Spec => []SessionInv
<1>1. QED
  BY InitInv, StepInv, PTL DEF Spec

(* Whatever clones exist and proves overlap, the state keeps its type: a    *)
(* running prove always has its prepared state, no buffer is missing        *)
(* outside the last step of a prove, and the cached product stays the one   *)
(* of the stored segments (vega_sc_zkp.rs, vega_sc.rs).                     *)
THEOREM TypeCorrect == Spec => []TypeOK
<1>1. SessionInv => TypeOK
  BY DEF SessionInv
<1>2. QED
  BY <1>1, InvariantHolds, PTL

(* At every stage of every prove the stored commitments open to the stored  *)
(* segments under the stored blinds, up to a false claim of the caller.     *)
THEOREM CommitmentsOpen == Spec => []StoredCommitmentsOpen
<1>1. SessionInv => StoredCommitmentsOpen
  <2> SUFFICES ASSUME SessionInv, NEW s \in Slots, prep[s] # None
               PROVE  /\ prep[s].comm_W_shared # None =>
                            \E claim \in BOOLEAN :
                              /\ claim => ~prep[s].sound \/ FitsWord(prep[s].W.shared)
                              /\ Opens(prep[s].comm_W_shared,
                                       CommitWithoutBlind(prep[s].W.shared, claim),
                                       prep[s].r_W_shared)
                      /\ prep[s].comm_W_precommitted # None =>
                            \E claim \in BOOLEAN :
                              /\ claim => ~prep[s].sound \/ FitsWord(prep[s].W.precommitted)
                              /\ Opens(prep[s].comm_W_precommitted,
                                       CommitWithoutBlind(prep[s].W.precommitted, claim),
                                       prep[s].r_W_precommitted)
    BY DEF StoredCommitmentsOpen
  <2> DEFINE p == prep[s]
  <2>1. pk \in Keys /\ Usable(p) /\ p.W \in Witness
    BY Keyed DEF SessionInv, SlotInv, Usable, PreparedState
  <2>2. p.sound => StoredAreWhole(p)
    <3>1. SlotInv(p, run[s])
      BY DEF SessionInv
    <3>2. CASE run[s] = None
      BY <3>1, <3>2 DEF SlotInv, Resting
    <3>3. CASE run[s] # None
      BY <3>1, <3>3 DEF SlotInv, Proving, BeforeCommit, AfterCommit
    <3>4. QED
      BY <3>2, <3>3
  <2> HIDE DEF p
  <2>3. ASSUME p.comm_W_shared # None
        PROVE  \E claim \in BOOLEAN :
                 /\ claim => ~p.sound \/ FitsWord(p.W.shared)
                 /\ Opens(p.comm_W_shared, CommitWithoutBlind(p.W.shared, claim),
                          p.r_W_shared)
    <3>1. PICK claim \in BOOLEAN :
            p.comm_W_shared = Commit(CommitWithoutBlind(p.W.shared, claim), p.r_W_shared)
      BY <2>1, <2>3 DEF Usable, SharedOpens, OpensUnderAClaim
    <3>2. p.sound => CommitWithoutBlind(p.W.shared, claim) = <<"whole", p.W.shared>>
      BY <2>1, <2>2, <2>3, <3>1, CommitInjective
        DEF StoredAreWhole, OpensWhole, Opens, Usable, SharedOpens
    <3>3. QED
      BY <3>1, <3>2, ClaimedPoint DEF Opens
  <2>4. ASSUME p.comm_W_precommitted # None
        PROVE  \E claim \in BOOLEAN :
                 /\ claim => ~p.sound \/ FitsWord(p.W.precommitted)
                 /\ Opens(p.comm_W_precommitted,
                          CommitWithoutBlind(p.W.precommitted, claim), p.r_W_precommitted)
    <3>1. PICK claim \in BOOLEAN :
            p.comm_W_precommitted
              = Commit(CommitWithoutBlind(p.W.precommitted, claim), p.r_W_precommitted)
      BY <2>1, <2>4 DEF Usable, PrecommittedOpens, OpensUnderAClaim
    <3>2. p.sound
            => CommitWithoutBlind(p.W.precommitted, claim) = <<"whole", p.W.precommitted>>
      BY <2>1, <2>2, <2>4, <3>1, CommitInjective
        DEF StoredAreWhole, OpensWhole, Opens, Usable, PrecommittedOpens
    <3>3. QED
      BY <3>1, <3>2, ClaimedPoint DEF Opens
  <2>5. QED
    BY <2>3, <2>4 DEF p
<1>2. QED
  BY <1>1, InvariantHolds, PTL

(* The cached rest commitment is the one to the cached rest witness, so the *)
(* difference a later prove adds leads to its own rest witness.             *)
THEOREM CacheStaysOnePair == Spec => []CachedRestIsOnePair
<1>1. SessionInv => CachedRestIsOnePair
  <2> SUFFICES ASSUME SessionInv, NEW s \in Slots, prep[s] # None
      PROVE  /\ prep[s].cached_rest_msm = None <=> prep[s].cached_rest_witness = None
             /\ prep[s].cached_rest_msm # None =>
                  /\ pk.zk
                  /\ \E claim \in BOOLEAN :
                       prep[s].cached_rest_msm
                         = CommitWithoutBlind(prep[s].cached_rest_witness, claim)
                  /\ prep[s].sound /\ run[s] = None
                       => prep[s].cached_rest_msm = <<"whole", prep[s].cached_rest_witness>>
    BY DEF CachedRestIsOnePair
  <2>1. Usable(prep[s]) /\ (run[s] = None => Resting(prep[s]))
    BY DEF SessionInv, SlotInv
  <2>2. QED
    BY <2>1 DEF Usable, CacheIsPair, Resting, CacheIsWhole
<1>2. QED
  BY <1>1, InvariantHolds, PTL

(* Every proof ever returned commits to what was prepared and to the rest   *)
(* of its own request and challenges, exactly when no claim behind it was   *)
(* false, however many updates, failures and clones lie between the cached  *)
(* commitment and this one.                                                 *)
THEOREM CommitmentsCurrent == Spec => []PublishedCommitmentsAreCurrent
<1>1. SessionInv => PublishedCommitmentsAreCurrent
  BY DEF SessionInv, Delivered, CommitsToCurrent, PublishedCommitmentsAreCurrent
<1>2. QED
  BY <1>1, InvariantHolds, PTL

-----------------------------------------------------------------------------
(* Which blinds the proofs of ScSession carry, for any number of slots,    *)
(* clones and calls: each proof those of one call of prove, and no two     *)
(* proofs those of the same call.                                          *)

BlindedIn(comm, k, segment) ==
  comm.minus = {} /\ comm.plus = {Blind(k, segment)}

(* The rest commitment of a proof carries the blind of the call k, and so   *)
(* do the others when the prover is zero-knowledge; otherwise they carry    *)
(* the blinds that some call drew for their segment.                        *)
MadeIn(proof, k) ==
  LET U == proof.U
  IN  /\ BlindedIn(U.comm_W_rest, k, "rest")
      /\ pk.zk =>
           /\ U.comm_W_shared # None => BlindedIn(U.comm_W_shared, k, "shared")
           /\ U.comm_W_precommitted # None
                => BlindedIn(U.comm_W_precommitted, k, "precommitted")
OwnSegments(proof) ==
  LET U == proof.U
  IN  /\ U.comm_W_shared # None => \A a \in U.comm_W_shared.plus : a.segment = "shared"
      /\ U.comm_W_precommitted # None
           => \A a \in U.comm_W_precommitted.plus : a.segment = "precommitted"

BlindInv ==
  /\ \A p \in proofs : /\ OwnSegments(p.proof)
                       /\ \E k \in 1 .. calls : MadeIn(p.proof, k)
  /\ \A p, q \in proofs : \A k \in 1 .. calls :
       MadeIn(p.proof, k) /\ MadeIn(q.proof, k) => p = q
  /\ \A s \in Slots : run[s] # None =>
       /\ \A p \in proofs : ~MadeIn(p.proof, run[s].k)
       /\ \A t \in Slots : run[t] # None /\ run[t].k = run[s].k => s = t
-----------------------------------------------------------------------------
LEMMA MadeInOne ==
  ASSUME NEW proof, NEW k, NEW l, MadeIn(proof, k), MadeIn(proof, l)
  PROVE  k = l
<1>1. Blind(k, "rest") = Blind(l, "rest")
  BY DEF MadeIn, BlindedIn
<1>2. QED
  BY <1>1, BlindInjective

(* Which call made a proof depends on the key alone. *)
LEMMA MadeInNext ==
  ASSUME pk' = pk, NEW proof, NEW k
  PROVE  MadeIn(proof, k)' <=> MadeIn(proof, k)
BY DEF MadeIn

(* A step that returns no proof, by which a slot goes on with its call,     *)
(* starts one that draws fresh blinds, or is done.                          *)
LEMMA BlindStep ==
  ASSUME SessionInv, BlindInv, pk' = pk, proofs' = proofs, pk # None,
         calls' \in {calls, calls + 1},
         NEW s \in Slots, NEW r, run' = [run EXCEPT ![s] = r],
         \/ r = None
         \/ r.k = calls + 1 /\ calls' = calls + 1
         \/ run[s] # None /\ r.k = run[s].k
  PROVE  BlindInv'
<1>1. /\ calls \in Nat /\ run \in [Slots -> Option(Running)]
      /\ \A t \in Slots : run[t] # None => run[t].k \in 1 .. calls
  BY Keyed
<1>2. \A p \in proofs : \A k : MadeIn(p.proof, k) => k \in 1 .. calls
  BY MadeInOne DEF BlindInv
<1>3. \A p \in proofs' : OwnSegments(p.proof) /\ \E k \in 1 .. calls' : MadeIn(p.proof, k)
  BY <1>1 DEF BlindInv
<1>4. \A p, q \in proofs' : \A k \in 1 .. calls' :
        MadeIn(p.proof, k) /\ MadeIn(q.proof, k) => p = q
  BY <1>2 DEF BlindInv
<1>5. \A t \in Slots : t # s => run'[t] = run[t]
  BY <1>1
<1>6. run'[s] = r
  BY <1>1
<1>7. \A t \in Slots : run'[t] # None =>
        /\ \A p \in proofs' : ~MadeIn(p.proof, run'[t].k)
        /\ \A v \in Slots : run'[v] # None /\ run'[v].k = run'[t].k => t = v
  <2>1. CASE r = None
    BY <1>5, <1>6, <2>1 DEF BlindInv
  <2>2. CASE r.k = calls + 1
    <3>1. \A t \in Slots : t # s /\ run[t] # None => run[t].k # calls + 1
      BY <1>1
    <3>2. \A p \in proofs : ~MadeIn(p.proof, calls + 1)
      BY <1>1, <1>2
    <3>3. QED
      BY <1>5, <1>6, <2>2, <3>1, <3>2 DEF BlindInv
  <2>3. CASE run[s] # None /\ r.k = run[s].k
    BY <1>5, <1>6, <2>3 DEF BlindInv
  <2>4. QED
    BY <2>1, <2>2, <2>3
<1>8. QED
  BY <1>3, <1>4, <1>7, MadeInNext DEF BlindInv, OwnSegments

LEMMA ClaimedBlind ==
  ASSUME NEW comm, NEW v, NEW r, OpensUnderAClaim(comm, v, r)
  PROVE  comm.minus = {} /\ comm.plus = {r}
<1>1. PICK claim \in BOOLEAN : comm = Commit(CommitWithoutBlind(v, claim), r)
  BY DEF OpensUnderAClaim
<1> DEFINE point == CommitWithoutBlind(v, claim)
<1>2. comm = Commit(point, r)
  BY <1>1
<1> HIDE DEF point
<1>3. QED
  BY <1>2 DEF Commit

(* The proof that a prove returns carries the blinds of its call. *)
LEMMA FinishedMadeIn ==
  ASSUME pk \in Keys, NEW p, NEW r, Finished(p, r)
  PROVE  MadeIn(Outcome(r).proof, r.k) /\ OwnSegments(Outcome(r).proof)
<1>1. Outcome(r).proof.U = r.U
  BY Zenon DEF Outcome, MakeProof
<1>2. /\ r.U.comm_W_shared = p.comm_W_shared
      /\ r.U.comm_W_precommitted = p.comm_W_precommitted
      /\ r.U.comm_W_rest = Commit(r.U.comm_W_rest.v, Blind(r.k, "rest"))
  BY DEF Finished, AfterCommit
<1>3. /\ p.comm_W_shared # None <=> pk.shared
      /\ p.comm_W_precommitted # None <=> pk.precommitted
      /\ pk.shared => /\ p.r_W_shared.segment = "shared"
                      /\ OpensUnderAClaim(p.comm_W_shared, p.W.shared, p.r_W_shared)
      /\ pk.precommitted =>
           /\ p.r_W_precommitted.segment = "precommitted"
           /\ OpensUnderAClaim(p.comm_W_precommitted, p.W.precommitted, p.r_W_precommitted)
  BY DEF Finished, Usable, SharedOpens, PrecommittedOpens
<1>4. /\ pk.shared => p.comm_W_shared.minus = {} /\ p.comm_W_shared.plus = {p.r_W_shared}
      /\ pk.precommitted => /\ p.comm_W_precommitted.minus = {}
                            /\ p.comm_W_precommitted.plus = {p.r_W_precommitted}
  BY <1>3, ClaimedBlind
<1>5. pk.zk => /\ pk.shared => p.r_W_shared = Blind(r.k, "shared")
               /\ pk.precommitted => p.r_W_precommitted = Blind(r.k, "precommitted")
  BY DEF Finished, Proving
<1>6. BlindedIn(r.U.comm_W_rest, r.k, "rest")
  BY <1>2 DEF BlindedIn, Commit
<1>7. MadeIn(Outcome(r).proof, r.k)
  BY <1>1, <1>2, <1>3, <1>4, <1>5, <1>6 DEF MadeIn, BlindedIn
<1>8. OwnSegments(Outcome(r).proof)
  BY <1>1, <1>2, <1>3, <1>4 DEF OwnSegments
<1>9. QED
  BY <1>7, <1>8

LEMMA ArgueBlinds ==
  ASSUME SessionInv, BlindInv, NEW s \in Slots, Argue(s)
  PROVE  BlindInv'
<1> DEFINE r == run[s]
           o == Outcome(r)
<1>1. /\ r # None /\ r.stage = "argue" /\ proofs' = proofs \cup {o}
      /\ run' = [run EXCEPT ![s] = None] /\ pk' = pk /\ calls' = calls
  BY Zenon DEF Argue, Outcome
<1>2. /\ pk \in Keys /\ prep[s] \in PreparedState /\ Usable(prep[s])
      /\ r \in Running /\ Proving(prep[s], r) /\ r.k \in 1 .. calls
  BY <1>1, ProveRuns
<1>3. AfterCommit(prep[s], r) /\ Finished(prep[s], r)
  BY <1>1, <1>2 DEF Proving, BeforeCommit, Finished
<1>4. MadeIn(o.proof, r.k) /\ OwnSegments(o.proof)
  BY <1>2, <1>3, FinishedMadeIn
<1>5. \A k : MadeIn(o.proof, k) => k = r.k
  BY <1>4, MadeInOne
<1>6. run \in [Slots -> Option(Running)]
  BY DEF SessionInv, TypeOK
<1> HIDE DEF o
<1>7. \A p \in proofs' : OwnSegments(p.proof) /\ \E k \in 1 .. calls' : MadeIn(p.proof, k)
  BY <1>1, <1>2, <1>4 DEF BlindInv
<1>8. \A p, q \in proofs' : \A k \in 1 .. calls' :
        MadeIn(p.proof, k) /\ MadeIn(q.proof, k) => p = q
  BY <1>1, <1>5 DEF BlindInv
<1>9. \A t \in Slots : run'[t] # None =>
        /\ \A p \in proofs' : ~MadeIn(p.proof, run'[t].k)
        /\ \A v \in Slots : run'[v] # None /\ run'[v].k = run'[t].k => t = v
  <2>1. \A t \in Slots : run'[t] # None => t # s /\ run'[t] = run[t]
    BY <1>1, <1>6
  <2>2. QED
    BY <1>1, <1>5, <2>1 DEF BlindInv
<1>10. QED
  BY <1>1, <1>7, <1>8, <1>9, MadeInNext DEF BlindInv, OwnSegments

LEMMA InitBlinds == Init => BlindInv
BY DEF Init, BlindInv

LEMMA SetupBlinds ==
  ASSUME SessionInv, NEW key \in Keys, Setup(key)
  PROVE  BlindInv'
BY DEF Setup, SessionInv, BlindInv

LEMMA StepBlinds == SessionInv /\ BlindInv /\ [Next]_vars => BlindInv'
<1> SUFFICES ASSUME SessionInv, BlindInv, [Next]_vars PROVE BlindInv'
  OBVIOUS
<1>1. CASE \E key \in Keys : Setup(key)
  BY <1>1, SetupBlinds
<1>2. ASSUME NEW s \in Slots, NEW input \in Inputs, PrepProve(s, input) PROVE BlindInv'
  <2>1. /\ pk # None /\ run[s] = None /\ calls' = calls + 1
        /\ pk' = pk /\ run' = run /\ proofs' = proofs
    BY <1>2 DEF PrepProve
  <2>2. run' = [run EXCEPT ![s] = None]
    BY <2>1, Keyed
  <2>3. QED
    BY <2>1, <2>2, BlindStep
<1>3. ASSUME NEW s \in Slots, NEW input \in Inputs, NEW stage, NEW p,
             run' = [run EXCEPT ![s] = Started(input, stage, p)],
             pk # None, calls' = calls + 1, pk' = pk, proofs' = proofs
      PROVE  BlindInv'
  <2>1. Started(input, stage, p).k = calls + 1
    BY DEF Started
  <2>2. QED
    BY <1>3, <2>1, BlindStep
<1>4. ASSUME NEW s \in Slots, NEW input \in Inputs,
             ProveZk(s, input) \/ ProvePlain(s, input)
      PROVE  BlindInv'
  BY <1>3, <1>4 DEF ProveZk, ProvePlain
<1>5. ASSUME NEW s \in Slots,
             Synthesize(s) \/ CommitRest(s) \/ BuildPlain(s) \/ Multiply(s)
      PROVE  BlindInv'
  <2>1. Continues(s)
    BY <1>5, SynthesizeInv, CommitRestInv, BuildPlainInv, MultiplyInv
  <2>2. pk' = pk /\ proofs' = proofs /\ calls' = calls
    BY <1>5 DEF Synthesize, CommitRest, BuildPlain, Multiply
  <2>3. PICK r \in Running : run' = [run EXCEPT ![s] = r] /\ r.k = run[s].k
    BY <2>1 DEF Continues
  <2>4. run[s] # None /\ pk # None
    BY <2>1 DEF Continues, SessionInv
  <2>5. QED
    BY <2>2, <2>3, <2>4, BlindStep
<1>6. CASE \E s \in Slots : Argue(s)
  BY <1>6, ArgueBlinds
<1>7. ASSUME NEW s \in Slots, Fail(s) PROVE BlindInv'
  <2>1. /\ run[s] # None /\ run' = [run EXCEPT ![s] = None]
        /\ pk' = pk /\ proofs' = proofs /\ calls' = calls
    BY <1>7 DEF Fail
  <2>2. pk # None
    BY <2>1 DEF SessionInv
  <2>3. QED
    BY <2>1, <2>2, BlindStep
<1>8. CASE UNCHANGED <<pk, run, proofs, calls>>
  BY <1>8, MadeInNext DEF BlindInv, OwnSegments
<1>9. CASE \E s \in Slots : \E t \in Slots : Clone(s, t)
  BY <1>8, <1>9 DEF Clone
<1>10. CASE UNCHANGED vars
  BY <1>8, <1>10 DEF vars
<1>11. QED
  BY <1>1, <1>2, <1>4, <1>5, <1>6, <1>7, <1>9, <1>10 DEF Next, Step

(* The blinds of the three commitments of a proof that some call made.      *)
LEMMA PublishedBlinds ==
  ASSUME NEW proof, NEW k, MadeIn(proof, k), OwnSegments(proof), NEW x \in Published(proof)
  PROVE  /\ pk.zk \/ x[1] = "rest" => BlindedIn(x[2], k, x[1])
         /\ \A a \in x[2].plus : a.segment = x[1]
         /\ x[1] = "rest" => x[2] = proof.U.comm_W_rest
         /\ x[1] = "shared" => x[2] = proof.U.comm_W_shared
         /\ x[1] = "precommitted" => x[2] = proof.U.comm_W_precommitted
         /\ x = <<x[1], x[2]>> /\ x[1] \in {"shared", "precommitted", "rest"}
<1>1. \A a \in {Blind(k, "rest")} : a.segment = "rest"
  BY DEF Blind
<1>2. CASE x = <<"shared", proof.U.comm_W_shared>> /\ proof.U.comm_W_shared # None
  BY <1>2 DEF MadeIn, OwnSegments
<1>3. CASE x = <<"precommitted", proof.U.comm_W_precommitted>>
           /\ proof.U.comm_W_precommitted # None
  BY <1>3 DEF MadeIn, OwnSegments
<1>4. CASE x = <<"rest", proof.U.comm_W_rest>>
  BY <1>1, <1>4 DEF MadeIn, BlindedIn
<1>5. QED
  BY <1>2, <1>3, <1>4 DEF Published

(* Zero knowledge of repeated proving from one prepared state and from its  *)
(* clones: no blind appears in two proofs or in two places of one; without  *)
(* zero knowledge (vega_sc.rs) the rest is still blinded afresh.            *)
THEOREM Unlinkable == Spec => []BlindsNeverReused
<1>1. BlindInv => BlindsNeverReused
  <2> SUFFICES ASSUME BlindInv, NEW p \in proofs, NEW q \in proofs,
                      NEW x \in Published(p.proof), NEW y \in Published(q.proof),
                      pk.zk \/ x[1] = "rest"
               PROVE  x[2].minus = {} /\ (x[2].plus \cap y[2].plus # {} => p = q /\ x = y)
    BY DEF BlindsNeverReused
  <2>1. PICK k \in 1 .. calls : MadeIn(p.proof, k)
    BY DEF BlindInv
  <2>2. PICK l \in 1 .. calls : MadeIn(q.proof, l)
    BY DEF BlindInv
  <2>3. OwnSegments(p.proof) /\ OwnSegments(q.proof)
    BY DEF BlindInv
  <2>4. BlindedIn(x[2], k, x[1])
    BY <2>1, <2>3, PublishedBlinds
  <2>5. SUFFICES ASSUME x[2].plus \cap y[2].plus # {} PROVE p = q /\ x = y
    BY <2>4 DEF BlindedIn
  <2>6. Blind(k, x[1]) \in y[2].plus
    BY <2>4, <2>5 DEF BlindedIn
  <2>7. y[1] = x[1]
    <3>1. \A a \in y[2].plus : a.segment = y[1]
      BY <2>2, <2>3, PublishedBlinds
    <3>2. Blind(k, x[1]).segment = x[1]
      BY DEF Blind
    <3>3. QED
      BY <2>6, <3>1, <3>2
  <2>8. BlindedIn(y[2], l, y[1])
    BY <2>2, <2>3, <2>7, PublishedBlinds
  <2>9. Blind(k, x[1]) = Blind(l, y[1])
    BY <2>6, <2>8 DEF BlindedIn
  <2>10. k = l
    BY <2>9, BlindInjective
  <2>11. p = q
    BY <2>1, <2>2, <2>10 DEF BlindInv
  <2>12. x = y
    BY <2>1, <2>3, <2>7, <2>11, PublishedBlinds
  <2>13. QED
    BY <2>11, <2>12
<1>2. QED
  BY <1>1, InitBlinds, StepBlinds, InvariantHolds, PTL DEF Spec

-----------------------------------------------------------------------------
(* ScSession implements the safety part of ProvingService: every step of   *)
(* the provers is a step of the service or changes nothing that a client   *)
(* can tell.  That every request is answered is left to the model checker. *)

(* What the client knows of a slot: the calls that made its prepared state, *)
(* and what it has asked for.                                               *)
View(p, r) ==
  IF p = None THEN None
  ELSE IF r # None THEN r.before
  ELSE [of |-> p.of, sound |-> p.sound, first |-> p.cached_rest_msm = None]
Asked(r) == IF r = None THEN None ELSE r.input
Delivery(p) ==
  [prepared |-> p.before, input |-> p.input,
   values |-> IF Verify(p.proof) THEN p.proof.U.public_values ELSE None,
   accepted |-> Verify(p.proof)]

Views == [s \in Slots |-> View(prep[s], run[s])]
Requests == [s \in Slots |-> Asked(run[s])]
Deliveries == {Delivery(p) : p \in proofs}
-----------------------------------------------------------------------------
(* The actions of the service, in terms of these. *)

LEMMA ServiceInit ==
  Service!Init <=> /\ pk = None
                   /\ Views = [s \in Slots |-> None]
                   /\ Requests = [s \in Slots |-> None]
                   /\ Deliveries = {}
BY Zenon DEF Service!Init, Views, Requests, Deliveries, View, Asked, Delivery

LEMMA ServiceStutter ==
  ASSUME UNCHANGED <<pk, Views, Requests, Deliveries>>
  PROVE  UNCHANGED Service!vars
BY Zenon DEF Service!vars, Views, Requests, Deliveries, View, Asked, Delivery

LEMMA ServiceSetup ==
  ASSUME NEW k, pk = None, pk' = k, UNCHANGED <<Views, Requests, Deliveries>>
  PROVE  Service!Setup(k)
BY Zenon DEF Service!Setup, Views, Requests, Deliveries, View, Asked, Delivery

LEMMA ServicePrepare ==
  ASSUME NEW s, NEW input, pk # None, Requests[s] = None,
         Views' = [Views EXCEPT ![s] = Summary(pk, input)],
         UNCHANGED <<pk, Requests, Deliveries>>
  PROVE  Service!Prepare(s, input)
BY Zenon DEF Service!Prepare, Views, Requests, Deliveries, View, Asked, Delivery

LEMMA ServiceDuplicate ==
  ASSUME NEW s, NEW t, Views[s] # None, Requests[s] = None, Views[t] = None,
         Views' = [Views EXCEPT ![t] = Views[s]],
         UNCHANGED <<pk, Requests, Deliveries>>
  PROVE  Service!Duplicate(s, t)
BY Zenon DEF Service!Duplicate, Views, Requests, Deliveries, View, Asked, Delivery

LEMMA ServiceRequest ==
  ASSUME NEW s, NEW input, Views[s] # None, Requests[s] = None,
         Requests' = [Requests EXCEPT ![s] = input],
         UNCHANGED <<pk, Views, Deliveries>>
  PROVE  Service!Request(s, input)
BY Zenon DEF Service!Request, Views, Requests, Deliveries, View, Asked, Delivery

LEMMA ServiceDeliver ==
  ASSUME NEW s, Requests[s] # None,
         Deliveries' = Deliveries \cup
           {[prepared |-> Views[s], input |-> Requests[s],
             values   |-> IF Accepted(pk, Views[s], Requests[s])
                            THEN ReportedValues(pk, Requests[s]) ELSE None,
             accepted |-> Accepted(pk, Views[s], Requests[s])]},
         Views' = [Views EXCEPT ![s] = After(pk, Views[s], Requests[s])],
         Requests' = [Requests EXCEPT ![s] = None],
         UNCHANGED pk
  PROVE  Service!Deliver(s)
BY Zenon DEF Service!Deliver, Views, Requests, Deliveries, View, Asked, Delivery

LEMMA ServiceFail ==
  ASSUME NEW s, Requests[s] # None,
         Views' = [Views EXCEPT ![s] = None], Requests' = [Requests EXCEPT ![s] = None],
         UNCHANGED <<pk, Deliveries>>
  PROVE  Service!Fail(s)
BY Zenon DEF Service!Fail, Views, Requests, Deliveries, View, Asked, Delivery

-----------------------------------------------------------------------------
(* How a step of one slot changes them. *)

(* One slot now holds p and r, and the client's view of the others is as it was. *)
Moves(s, p, r) ==
  /\ Views' = [Views EXCEPT ![s] = View(p, r)]
  /\ Requests' = [Requests EXCEPT ![s] = Asked(r)]

LEMMA ViewType ==
  ASSUME NEW p \in PreparedState, NEW r \in Option(Running)
  PROVE  View(p, r) \in Before /\ View(p, r) # None
<1>1. p # None
  BY NoneAssumption
<1>2. r # None => r.before \in Before
  BY DEF Option, Running
<1>3. [of |-> p.of, sound |-> p.sound, first |-> p.cached_rest_msm = None] \in Before
  BY DEF Before, PreparedState
<1>4. View(p, r) \in Before
  BY <1>1, <1>2, <1>3 DEF View
<1>5. QED
  BY <1>4, NoneAssumption

LEMMA ViewOf ==
  ASSUME NEW s \in Slots
  PROVE  Views[s] = View(prep[s], run[s]) /\ Requests[s] = Asked(run[s])
BY DEF Views, Requests

LEMMA ViewStep ==
  ASSUME prep \in [Slots -> Option(PreparedState)], run \in [Slots -> Option(Running)],
         NEW s \in Slots, NEW p, NEW r,
         prep' = [prep EXCEPT ![s] = p], run' = [run EXCEPT ![s] = r]
  PROVE  Moves(s, p, r)
<1>1. /\ Views' = [t \in Slots |-> View(prep'[t], run'[t])]
      /\ Requests' = [t \in Slots |-> Asked(run'[t])]
  BY Zenon DEF Views, Requests, View, Asked
<1>2. Views' = [Views EXCEPT ![s] = View(p, r)]
  BY <1>1 DEF Views
<1>3. Requests' = [Requests EXCEPT ![s] = Asked(r)]
  BY <1>1 DEF Requests
<1>4. QED
  BY <1>2, <1>3 DEF Moves

(* Verifying a proof depends on the key alone. *)
LEMMA DeliveriesStep ==
  ASSUME pk' = pk, NEW new, proofs' = proofs \cup new
  PROVE  Deliveries' = Deliveries \cup {Delivery(p) : p \in new}
<1>1. ASSUME NEW p PROVE Delivery(p)' = Delivery(p)
  BY DEF Delivery, Verify, Challenges
<1>2. Deliveries' = {Delivery(p)' : p \in proofs'}
  BY Zenon DEF Deliveries
<1>3. QED
  BY <1>1, <1>2 DEF Deliveries

LEMMA SameDeliveries ==
  ASSUME pk' = pk, proofs' = proofs
  PROVE  Deliveries' = Deliveries
<1>1. proofs' = proofs \cup {}
  OBVIOUS
<1>2. Deliveries' = Deliveries \cup {Delivery(p) : p \in {}}
  BY <1>1, DeliveriesStep
<1>3. QED
  BY <1>2

(* A step that keeps the summary and the request of its slot is a stutter. *)
LEMMA HiddenStep ==
  ASSUME prep \in [Slots -> Option(PreparedState)], run \in [Slots -> Option(Running)],
         NEW s \in Slots, NEW p, NEW r,
         prep' = [prep EXCEPT ![s] = p], run' = [run EXCEPT ![s] = r],
         prep[s] # None, run[s] # None, p # None, r # None,
         r.before = run[s].before, r.input = run[s].input,
         pk' = pk, proofs' = proofs
  PROVE  UNCHANGED Service!vars
<1>1. /\ View(p, r) = View(prep[s], run[s]) /\ Asked(r) = Asked(run[s])
  BY DEF View, Asked
<1>2. Moves(s, p, r)
  BY ViewStep
<1>3. Views' = Views /\ Requests' = Requests
  BY <1>1, <1>2 DEF Moves, Views, Requests
<1>4. QED
  BY <1>3, SameDeliveries, ServiceStutter

-----------------------------------------------------------------------------
(* Every action of the provers is an action of the service, or hidden. *)

LEMMA InitMaps == Init => Service!Init
<1> SUFFICES ASSUME Init PROVE Service!Init
  OBVIOUS
<1>1. pk = None /\ proofs = {} /\ \A s \in Slots : prep[s] = None /\ run[s] = None
  BY DEF Init
<1>2. /\ Views = [s \in Slots |-> None] /\ Requests = [s \in Slots |-> None]
      /\ Deliveries = {}
  BY <1>1 DEF Views, Requests, Deliveries, View, Asked
<1>3. QED
  BY <1>1, <1>2, ServiceInit

LEMMA SetupMaps ==
  ASSUME SessionInv, NEW key \in Keys, Setup(key)
  PROVE  Service!Setup(key)
<1>1. /\ pk' = key /\ pk = None /\ prep' = prep /\ run' = run /\ proofs' = proofs
      /\ proofs = {}
  BY DEF Setup, SessionInv
<1>2. Views' = Views /\ Requests' = Requests
  BY <1>1, Zenon DEF Views, Requests, View, Asked
<1>3. Deliveries = {} /\ Deliveries' = {}
  <2>1. Deliveries' = {Delivery(p)' : p \in proofs'}
    BY Zenon DEF Deliveries
  <2>2. QED
    BY <1>1, <2>1 DEF Deliveries
<1>4. QED
  BY <1>1, <1>2, <1>3, ServiceSetup

LEMMA PrepProveMaps ==
  ASSUME SessionInv, NEW s \in Slots, NEW input \in Inputs, PrepProve(s, input)
  PROVE  Service!Prepare(s, input)
<1> DEFINE p == Prepared(input, calls + 1)
<1>1. /\ pk # None /\ run[s] = None /\ prep' = [prep EXCEPT ![s] = p]
      /\ pk' = pk /\ run' = run /\ proofs' = proofs
  BY DEF PrepProve
<1>2. /\ pk \in Keys /\ calls \in Nat
      /\ prep \in [Slots -> Option(PreparedState)] /\ run \in [Slots -> Option(Running)]
  BY <1>1, Keyed
<1>3. /\ p \in PreparedState /\ p.of = input.circuit
      /\ p.sound = Summary(pk, input).sound /\ p.cached_rest_msm = None
  BY <1>2, PreparedUsable DEF Usable
<1> HIDE DEF p
<1>4. View(p, None) = Summary(pk, input)
  <2>1. p # None
    BY <1>3, NoneAssumption
  <2>2. View(p, None) = [of |-> input.circuit, sound |-> Summary(pk, input).sound,
                         first |-> TRUE]
    BY <1>3, <2>1 DEF View
  <2>3. QED
    BY <2>2 DEF Summary
<1>5. run' = [run EXCEPT ![s] = None]
  BY <1>1, <1>2
<1>6. Moves(s, p, None)
  BY <1>1, <1>2, <1>5, ViewStep
<1>7. Requests[s] = None /\ Requests' = Requests
  BY <1>1, <1>6, ViewOf DEF Moves, Asked, Requests
<1>8. Views' = [Views EXCEPT ![s] = Summary(pk, input)]
  BY <1>4, <1>6 DEF Moves
<1>9. QED
  BY <1>1, <1>7, <1>8, SameDeliveries, ServicePrepare

LEMMA CloneMaps ==
  ASSUME SessionInv, NEW s \in Slots, NEW t \in Slots, Clone(s, t)
  PROVE  Service!Duplicate(s, t)
<1>1. /\ prep[s] # None /\ run[s] = None /\ prep[t] = None
      /\ prep' = [prep EXCEPT ![t] = prep[s]]
      /\ pk' = pk /\ run' = run /\ proofs' = proofs
  BY DEF Clone
<1>2. pk # None
  BY <1>1 DEF SessionInv
<1>3. /\ prep \in [Slots -> Option(PreparedState)] /\ run \in [Slots -> Option(Running)]
      /\ SlotInv(prep[t], run[t])
  BY <1>2, Keyed
<1>4. run[t] = None /\ run' = [run EXCEPT ![t] = None]
  BY <1>1, <1>3 DEF SlotInv
<1>5. prep[s] \in PreparedState /\ None \in Option(Running)
  BY <1>1, <1>3 DEF Option
<1>6. Views[s] = View(prep[s], None) /\ Requests[s] = None /\ Views[s] # None
  BY <1>1, <1>5, ViewOf, ViewType DEF Asked
<1>7. Views[t] = None /\ Requests[t] = None
  BY <1>1, <1>4, ViewOf DEF View, Asked
<1>8. Moves(t, prep[s], None)
  BY <1>1, <1>3, <1>4, ViewStep
<1>9. Views' = [Views EXCEPT ![t] = Views[s]] /\ Requests' = Requests
  BY <1>6, <1>7, <1>8 DEF Moves, Asked, Requests
<1>10. QED
  BY <1>1, <1>6, <1>7, <1>9, SameDeliveries, ServiceDuplicate


LEMMA ProveZkMaps ==
  ASSUME SessionInv, NEW s \in Slots, NEW input \in Inputs, ProveZk(s, input)
  PROVE  Service!Request(s, input)
<1> DEFINE p == RerandomizeInPlace(prep[s], calls + 1)
           r == Started(input, "synthesize", p)
<1>1. /\ pk # None /\ prep[s] # None /\ run[s] = None
      /\ prep' = [prep EXCEPT ![s] = p] /\ run' = [run EXCEPT ![s] = r]
      /\ pk' = pk /\ proofs' = proofs
  BY DEF ProveZk
<1>2. /\ pk \in Keys /\ calls \in Nat
      /\ prep \in [Slots -> Option(PreparedState)] /\ run \in [Slots -> Option(Running)]
      /\ Usable(prep[s])
  BY <1>1, Keyed DEF SlotInv
<1>3. /\ Usable(p)
      /\ p = [prep[s] EXCEPT !.comm_W_shared = p.comm_W_shared, !.r_W_shared = p.r_W_shared,
                             !.comm_W_precommitted = p.comm_W_precommitted,
                             !.r_W_precommitted = p.r_W_precommitted]
  <2>1. calls + 1 \in Nat
    BY <1>2
  <2>2. QED
    BY <1>2, <2>1, RerandomizeUsable, Zenon
<1> HIDE DEF p
<1>4. /\ prep[s] \in PreparedState /\ p.of = prep[s].of /\ p.sound = prep[s].sound
      /\ p.cached_rest_msm = prep[s].cached_rest_msm
  BY <1>2, <1>3 DEF Usable, PreparedState
<1>5. /\ r \in Running /\ r.input = input
      /\ r.before.of = p.of /\ r.before.sound = p.sound
      /\ r.before.first <=> p.cached_rest_msm = None
  BY <1>2, <1>3, StartedType DEF Usable
<1> HIDE DEF r
<1>6. r # None /\ p # None /\ r \in Option(Running) /\ run[s] \in Option(Running)
  BY <1>1, <1>3, <1>5, NoneAssumption DEF Option, Usable
<1>7. View(p, r) = View(prep[s], run[s])
  <2>1. View(p, r) = r.before
    BY <1>6 DEF View
  <2>2. View(prep[s], run[s]) = [of |-> prep[s].of, sound |-> prep[s].sound,
                                 first |-> prep[s].cached_rest_msm = None]
    BY <1>1 DEF View
  <2>3. r.before \in Before
    BY <1>5 DEF Running
  <2>4. QED
    BY <1>4, <1>5, <2>1, <2>2, <2>3 DEF Before
<1>8. Moves(s, p, r)
  BY <1>1, <1>2, ViewStep
<1>9. Views[s] # None /\ Requests[s] = None
  BY <1>1, <1>4, <1>6, ViewOf, ViewType DEF Asked
<1>10. Views' = Views /\ Requests' = [Requests EXCEPT ![s] = input]
  BY <1>5, <1>6, <1>7, <1>8 DEF Moves, Asked, Views
<1>11. QED
  BY <1>1, <1>9, <1>10, SameDeliveries, ServiceRequest

LEMMA ProvePlainMaps ==
  ASSUME SessionInv, NEW s \in Slots, NEW input \in Inputs, ProvePlain(s, input)
  PROVE  Service!Request(s, input)
<1> DEFINE p == prep[s]
           r == Started(input, "build", p)
<1>1. /\ pk # None /\ p # None /\ run[s] = None
      /\ prep' = prep /\ run' = [run EXCEPT ![s] = r]
      /\ pk' = pk /\ proofs' = proofs
  BY DEF ProvePlain
<1>2. /\ pk \in Keys /\ calls \in Nat
      /\ prep \in [Slots -> Option(PreparedState)] /\ run \in [Slots -> Option(Running)]
      /\ Usable(p) /\ p \in PreparedState
  BY <1>1, Keyed DEF SlotInv, Usable
<1>3. prep' = [prep EXCEPT ![s] = p]
  BY <1>1, <1>2
<1>4. p = prep[s]
  OBVIOUS
<1> HIDE DEF p
<1>5. /\ r \in Running /\ r.input = input
      /\ r.before.of = p.of /\ r.before.sound = p.sound
      /\ r.before.first <=> p.cached_rest_msm = None
  BY <1>2, StartedType
<1> HIDE DEF r
<1>6. r # None /\ p # None /\ r \in Option(Running) /\ run[s] \in Option(Running)
  BY <1>1, <1>5, NoneAssumption DEF Option
<1>7. View(p, r) = View(prep[s], run[s])
  <2>1. View(p, r) = r.before
    BY <1>6 DEF View
  <2>2. View(prep[s], run[s]) = [of |-> p.of, sound |-> p.sound,
                                 first |-> p.cached_rest_msm = None]
    BY <1>1, <1>4 DEF View
  <2>3. r.before \in Before
    BY <1>5 DEF Running
  <2>4. QED
    BY <1>5, <2>1, <2>2, <2>3 DEF Before
<1>8. Moves(s, p, r)
  BY <1>1, <1>2, <1>3, ViewStep
<1>9. Views[s] # None /\ Requests[s] = None
  BY <1>1, <1>2, <1>4, <1>6, ViewOf, ViewType DEF Asked
<1>10. Views' = Views /\ Requests' = [Requests EXCEPT ![s] = input]
  BY <1>5, <1>6, <1>7, <1>8 DEF Moves, Asked, Views
<1>11. QED
  BY <1>1, <1>9, <1>10, SameDeliveries, ServiceRequest

(* The steps of a prove before its last one are hidden. *)
LEMMA ContinuesMaps ==
  ASSUME SessionInv, NEW s \in Slots, Continues(s), pk' = pk, proofs' = proofs
  PROVE  UNCHANGED Service!vars
<1>1. PICK p \in PreparedState : prep' = [prep EXCEPT ![s] = p]
  BY DEF Continues
<1>2. PICK r \in Running : /\ run' = [run EXCEPT ![s] = r]
                          /\ r.before = run[s].before /\ r.input = run[s].input
  BY DEF Continues
<1>3. /\ run[s] # None /\ prep[s] # None
      /\ prep \in [Slots -> Option(PreparedState)] /\ run \in [Slots -> Option(Running)]
  BY ProveRuns DEF Continues, SessionInv, TypeOK
<1>4. p # None /\ r # None
  BY NoneAssumption
<1>5. QED
  BY <1>1, <1>2, <1>3, <1>4, HiddenStep

LEMMA ArgueMaps ==
  ASSUME SessionInv, NEW s \in Slots, Argue(s)
  PROVE  Service!Deliver(s)
<1> DEFINE p == prep[s]
           r == run[s]
           sound == IF pk.zk THEN StillSound(r.before, pk, r.input) ELSE p.sound
           q == [p EXCEPT !.z_buffer = "bound", !.scratch = "bound", !.sound = sound]
<1>1. /\ r # None /\ r.stage = "argue" /\ pk' = pk
      /\ proofs' = proofs \cup {Outcome(r)}
      /\ prep' = [prep EXCEPT ![s].z_buffer = "bound", ![s].scratch = "bound",
                              ![s].sound = IF pk.zk THEN StillSound(r.before, pk, r.input)
                                           ELSE @]
      /\ run' = [run EXCEPT ![s] = None]
  BY Zenon DEF Argue, Outcome
<1>2. /\ pk \in Keys /\ p # None /\ p \in PreparedState /\ Usable(p)
      /\ r \in Running /\ Proving(p, r) /\ r.before \in Before /\ r.input \in Inputs
  BY <1>1, ProveRuns
<1>3. prep \in [Slots -> Option(PreparedState)] /\ run \in [Slots -> Option(Running)]
  BY DEF SessionInv, TypeOK
<1>4. prep' = [prep EXCEPT ![s] = q]
  BY <1>1, <1>2, <1>3 DEF PreparedState
<1>5. Views[s] = r.before /\ Requests[s] = r.input /\ r.input # None
  BY <1>1, <1>2, ViewOf, NoneAssumption DEF View, Asked
<1>6. AfterCommit(p, r) /\ Finished(p, r)
  BY <1>1, <1>2 DEF Proving, BeforeCommit, Finished
<1> HIDE DEF p, r
<1>7. sound \in BOOLEAN
  BY <1>2 DEF StillSound, PreparedState
<1>8. sound = IF pk.zk THEN StillSound(r.before, pk, r.input) ELSE p.sound
  OBVIOUS
<1> HIDE DEF sound
<1>9. /\ q \in PreparedState /\ q.of = p.of /\ q.sound = sound
      /\ q.cached_rest_msm = p.cached_rest_msm
  BY <1>2, <1>7 DEF PreparedState, Buffer
<1> HIDE DEF q
<1>10. View(q, None) = After(pk, r.before, r.input)
  <2>1. q # None
    BY <1>9, NoneAssumption
  <2>2. View(q, None) = [of |-> p.of, sound |-> sound, first |-> p.cached_rest_msm = None]
    BY <1>9, <2>1 DEF View
  <2>3. r.before.of = p.of /\ r.before.sound = p.sound
    BY <1>2 DEF Proving
  <2>4. CASE pk.zk
    <3>1. p.cached_rest_msm # None
      BY <1>6, <2>4 DEF AfterCommit
    <3>2. After(pk, r.before, r.input)
            = [r.before EXCEPT !.first = FALSE,
                               !.sound = StillSound(r.before, pk, r.input)]
      BY <2>4 DEF After
    <3>3. QED
      BY <1>2, <1>8, <2>2, <2>3, <2>4, <3>1, <3>2 DEF Before
  <2>5. CASE ~pk.zk
    <3>1. p.cached_rest_msm = None /\ r.before.first
      BY <1>6, <2>5 DEF AfterCommit
    <3>2. After(pk, r.before, r.input) = r.before
      BY <2>5 DEF After
    <3>3. QED
      BY <1>2, <1>8, <2>2, <2>3, <2>5, <3>1, <3>2 DEF Before
  <2>6. QED
    BY <2>4, <2>5
<1>11. Delivery(Outcome(r)) = [prepared |-> r.before, input |-> r.input,
                               values   |-> IF Accepted(pk, r.before, r.input)
                                              THEN ReportedValues(pk, r.input) ELSE None,
                               accepted |-> Accepted(pk, r.before, r.input)]
  <2>1. /\ Outcome(r).before = r.before /\ Outcome(r).input = r.input
        /\ Outcome(r).proof.U = r.U
    BY Zenon DEF Outcome, MakeProof
  <2>2. r.U.public_values = ReportedValues(pk, r.input)
    BY <1>6 DEF AfterCommit, ReportedValues
  <2>3. Verify(Outcome(r).proof) = Accepted(pk, r.before, r.input)
    <3>1. Verify(Outcome(r).proof) <=> Accepted(pk, r.before, r.input)
      BY <1>2, <1>6, FinishedVerifies
    <3>2. Verify(Outcome(r).proof) \in BOOLEAN /\ Accepted(pk, r.before, r.input) \in BOOLEAN
      BY DEF Verify, Accepted
    <3>3. QED
      BY <3>1, <3>2
  <2>4. QED
    BY <2>1, <2>2, <2>3, Zenon DEF Delivery
<1>12. Moves(s, q, None)
  BY <1>1, <1>3, <1>4, ViewStep
<1>13. /\ Views' = [Views EXCEPT ![s] = After(pk, Views[s], Requests[s])]
       /\ Requests' = [Requests EXCEPT ![s] = None]
  BY <1>5, <1>10, <1>12 DEF Moves, Asked
<1>14. Deliveries' = Deliveries \cup
         {[prepared |-> Views[s], input |-> Requests[s],
           values   |-> IF Accepted(pk, Views[s], Requests[s])
                          THEN ReportedValues(pk, Requests[s]) ELSE None,
           accepted |-> Accepted(pk, Views[s], Requests[s])]}
  <2>1. Deliveries' = Deliveries \cup {Delivery(o) : o \in {Outcome(r)}}
    BY <1>1, DeliveriesStep
  <2>2. QED
    BY <1>5, <1>11, <2>1
<1>15. QED
  BY <1>1, <1>5, <1>13, <1>14, ServiceDeliver

LEMMA FailMaps ==
  ASSUME SessionInv, NEW s \in Slots, Fail(s)
  PROVE  Service!Fail(s)
<1>1. /\ run[s] # None /\ pk' = pk /\ proofs' = proofs
      /\ run' = [run EXCEPT ![s] = None] /\ prep' = [prep EXCEPT ![s] = None]
  BY DEF Fail
<1>2. /\ prep \in [Slots -> Option(PreparedState)] /\ run \in [Slots -> Option(Running)]
      /\ run[s].input \in Inputs
  BY <1>1, ProveRuns DEF SessionInv, TypeOK
<1>3. Requests[s] # None
  BY <1>1, <1>2, ViewOf, NoneAssumption DEF Asked
<1>4. Moves(s, None, None)
  BY <1>1, <1>2, ViewStep
<1>5. /\ Views' = [Views EXCEPT ![s] = None] /\ Requests' = [Requests EXCEPT ![s] = None]
  BY <1>4 DEF Moves, View, Asked
<1>6. QED
  BY <1>1, <1>3, <1>5, SameDeliveries, ServiceFail

LEMMA StepMaps == SessionInv /\ [Next]_vars => [Service!Next]_(Service!vars)
<1> SUFFICES ASSUME SessionInv, [Next]_vars PROVE [Service!Next]_(Service!vars)
  OBVIOUS
<1>1. CASE \E key \in Keys : Setup(key)
  BY <1>1, SetupMaps DEF Service!Next
<1>2. CASE \E s \in Slots : \E input \in Inputs : PrepProve(s, input)
  BY <1>2, PrepProveMaps DEF Service!Next
<1>3. CASE \E s \in Slots : \E input \in Inputs : ProveZk(s, input) \/ ProvePlain(s, input)
  BY <1>3, ProveZkMaps, ProvePlainMaps DEF Service!Next
<1>4. CASE \E s \in Slots : \E t \in Slots : Clone(s, t)
  BY <1>4, CloneMaps DEF Service!Next
<1>5. CASE \E s \in Slots : Synthesize(s) \/ CommitRest(s) \/ BuildPlain(s) \/ Multiply(s)
  <2>1. PICK s \in Slots : Synthesize(s) \/ CommitRest(s) \/ BuildPlain(s) \/ Multiply(s)
    BY <1>5
  <2>2. Continues(s)
    BY <2>1, SynthesizeInv, CommitRestInv, BuildPlainInv, MultiplyInv
  <2>3. pk' = pk /\ proofs' = proofs
    BY <2>1 DEF Synthesize, CommitRest, BuildPlain, Multiply
  <2>4. QED
    BY <2>2, <2>3, ContinuesMaps
<1>6. CASE \E s \in Slots : Argue(s)
  BY <1>6, ArgueMaps DEF Service!Next, Service!Answer
<1>7. CASE \E s \in Slots : Fail(s)
  BY <1>7, FailMaps DEF Service!Next, Service!Answer
<1>8. CASE UNCHANGED vars
  <2>1. pk' = pk /\ prep' = prep /\ run' = run /\ proofs' = proofs
    BY <1>8 DEF vars
  <2>2. Views' = Views /\ Requests' = Requests
    BY <2>1, Zenon DEF Views, Requests, View, Asked
  <2>3. QED
    BY <2>1, <2>2, SameDeliveries, ServiceStutter
<1>9. QED
  BY <1>1, <1>2, <1>3, <1>4, <1>5, <1>6, <1>7, <1>8 DEF Next, Step

(* Whatever blinds, caches, buffers and clones a prepared state carries, a  *)
(* client of vega_sc_zkp.rs or vega_sc.rs sees what the service promises:   *)
(* each prove fails and takes its state with it, or delivers a proof that   *)
(* verifies exactly when the calls that made the state and the request say. *)
THEOREM RefinesService == Spec => Service!SafeSpec
<1>1. QED
  BY InitMaps, StepMaps, InvariantHolds, PTL DEF Spec, Service!SafeSpec

=============================================================================
