------------------------- MODULE FoldAndOpenProofs -------------------------
(***************************************************************************)
(* Proofs about FoldAndOpen and PlainArgument, for every field, width, set *)
(* of jobs and answers of the oracle.  First come what each step of the    *)
(* provers and the verifiers does, with the fields of proof and claim by   *)
(* name, and an inductive invariant of what the challenges depend on.      *)
(* Then the commitments: folds of them and of vectors, joined segments,    *)
(* the row a point combines, and that what is folded is satisfied and its  *)
(* instance that of the folded witness.  Then the two sum-checks and both  *)
(* openings, each as one exchange whose checks hold when the prover is     *)
(* honest.  Last, the steps of both sides in their order: an inductive     *)
(* invariant notes of every step of the prover what it sent and drew, and  *)
(* plays the notes again on the channel of the verifier, which asks the    *)
(* same questions, folds the same instance and rejects nothing.            *)
(***************************************************************************)
EXTENDS PlainArgument, OperatorFacts

-----------------------------------------------------------------------------
(* What the provers and the verifiers exchange                              *)

(* Outer and OuterCheck are exchanges of this form. *)
LEMMA OuterIs ==
  ASSUME NEW ch, NEW Az, NEW Bz, NEW Cz, NEW tau, NEW x, NEW fresh
  PROVE  /\ Outer(ch, Az, Bz, Cz, tau, x, fresh).channel
              = OuterEnd(ch, Outer(ch, Az, Bz, Cz, tau, x, fresh).claims, tau, x, fresh)
         /\ OuterCheck(ch, tau, x, fresh).channel = OuterEnd(ch, proof.claims, tau, x, fresh)
  BY DEF Outer, OuterCheck, OuterEnd, OuterRounds, OuterStart

LEMMA IpaChallengeFacts ==
  ASSUME NEW c, ChannelOK(c), NEW comm_a, NEW comm_c, NEW messages, NEW fresh \in Field
  PROVE  /\ AsksFor(c, IpaChallenge(c, comm_a, comm_c, messages, fresh), OpeningEntries(messages))
         /\ \A e, other : Extends(IpaChallenge(c, comm_a, comm_c, messages, fresh), e) =>
              IpaChallenge(On(c, e), comm_a, comm_c, messages, other)
                = On(IpaChallenge(c, comm_a, comm_c, messages, fresh), e)
  <1> DEFINE sep == "inner product argument (linear)"
             a == Put(Put(c, "dom_sep", sep), "U", <<comm_a, comm_c>>)
             b == Put(Put(a, "delta", messages.delta), "beta", messages.beta)
             d == Ask(b, "r", fresh)
  <1>1. /\ Follows(c, a) /\ ChannelOK(a)
        /\ \A e : Put(Put(On(c, e), "dom_sep", sep), "U", <<comm_a, comm_c>>) = On(a, e)
    <2>1. PutsTwo(c, a, "dom_sep", sep, "U", <<comm_a, comm_c>>)
      BY PutTwoFacts
    <2> HIDE DEF a
    <2> QED
      BY <2>1 DEF PutsTwo
  <1> HIDE DEF a
  <1>2. /\ Follows(a, b) /\ ChannelOK(b) /\ OpeningEntries(messages) \subseteq SeenBy(b)
        /\ \A e : Put(Put(On(a, e), "delta", messages.delta), "beta", messages.beta) = On(b, e)
    <2>1. PutsTwo(a, b, "delta", messages.delta, "beta", messages.beta)
      BY <1>1, PutTwoFacts
    <2> HIDE DEF b
    <2> QED
      BY <2>1 DEF OpeningEntries, PutsTwo
  <1> HIDE DEF b
  <1>3. /\ Asked(b, d)
        /\ \A e, other : Extends(d, e) => Ask(On(b, e), "r", other) = On(d, e)
    BY <1>2, AskFacts
  <1>4. Follows(c, b)
    BY <1>1, <1>2, FollowsTransitive
  <1> HIDE DEF d
  <1>5. AsksFor(c, d, OpeningEntries(messages))
    BY <1>2, <1>3, <1>4, AsksAfter
  <1>6. d = IpaChallenge(c, comm_a, comm_c, messages, fresh)
    BY DEF IpaChallenge, d, b, a
  <1>7. ASSUME NEW e, NEW other, Extends(d, e)
        PROVE  IpaChallenge(On(c, e), comm_a, comm_c, messages, other) = On(d, e)
    <2>1. IpaChallenge(On(c, e), comm_a, comm_c, messages, other)
            = Ask(Put(Put(Put(Put(On(c, e), "dom_sep", sep), "U", <<comm_a, comm_c>>),
                          "delta", messages.delta), "beta", messages.beta), "r", other)
      BY Zenon DEF IpaChallenge
    <2> QED
      BY <1>1, <1>2, <1>3, <1>7, <2>1
  <1> QED
    BY <1>5, <1>6, <1>7

(* The transcript up to the commitments. *)
LEMMA BegunFacts ==
  ASSUME ChannelOK(channel), NEW public
  PROVE  PutsTwo(channel, Begun(public), "vk", "digest", "public_values", public)
  BY PutTwoFacts DEF Begun

-----------------------------------------------------------------------------
(* The channel in every state *)

ZkStages == {"fold", "outer", "inner", "combine",
             "verify_fold", "verify_outer", "verify_inner", "verify_combine"}
PlainStages == {"instance", "plain_outer", "plain_inner", "failed",
                "verify_instance", "verify_plain_outer", "verify_plain_inner"}

(* What is drawn has the right length. *)
LEMMA Sizes ==
  ASSUME job \in Jobs
  PROVE  /\ num_rounds_x \in Nat /\ Points(num_rounds_x) \subseteq [1 .. num_rounds_x -> Field]
         /\ num_rounds_y \in Nat /\ num_rounds_y > 0
         /\ Points(num_rounds_y) \subseteq [1 .. num_rounds_y -> Field]
         /\ Challenges \subseteq Field
         /\ ~job.zk => /\ job.num_challenges \in Nat
                       /\ Points(job.num_challenges) \subseteq [1 .. job.num_challenges -> Field]
  <1>1. S.num_cons \in Nat /\ S.num_vars \in Nat
    BY JobsAssumption DEF IsShape, S
  <1>2. num_rounds_x \in Nat
    BY <1>1, Logarithm DEF num_rounds_x
  <1>3. num_vars_padded \in Nat
    <2>1. Log2(S.num_vars) \in Nat
      BY <1>1, Logarithm
    <2> QED
      BY <2>1, PowerFacts DEF num_vars_padded, NextPowerOfTwo
  <1>4. Log2(num_vars_padded) \in Nat
    BY <1>3, Logarithm
  <1>5. num_rounds_y \in Nat /\ num_rounds_y > 0
    BY <1>4 DEF num_rounds_y
  <1>6. \A n \in {Log2(S.num_cons), Log2(NextPowerOfTwo(S.num_vars)) + 1} :
          Points(n) \subseteq [1 .. n -> Field]
    BY AnswersAssumption DEF S
  <1>7. /\ Points(num_rounds_x) \subseteq [1 .. num_rounds_x -> Field]
        /\ Points(num_rounds_y) \subseteq [1 .. num_rounds_y -> Field]
    BY <1>6 DEF num_rounds_x, num_rounds_y, num_vars_padded
  <1>8. Challenges \subseteq Field
    BY AnswersAssumption
  <1>9. ~job.zk => /\ job.num_challenges \in Nat
                   /\ Points(job.num_challenges) \subseteq [1 .. job.num_challenges -> Field]
    BY SegmentsAssumption
  <1> QED
    BY <1>2, <1>5, <1>7, <1>8, <1>9

(* The challenge that combines the steps and the core. *)
ClaimKept(c, d) ==
  /\ Follows(c, d)
  /\ HasCore => LastAnswer(d) \in Field
  /\ \A e : Extends(d, e) =>
       /\ PartWeights(On(d, e)) = PartWeights(d)
       /\ \A other : ClaimChallenge(On(c, e), other) = On(d, e)

LEMMA ClaimFacts ==
  ASSUME NEW c, ChannelOK(c), NEW fresh \in Field
  PROVE  ClaimKept(c, ClaimChallenge(c, fresh))
  <1>1. CASE HasCore
    <2> DEFINE d == Ask(c, "c_eval", fresh)
    <2>1. /\ Asked(c, d)
          /\ \A e, other : Extends(d, e) => Ask(On(c, e), "c_eval", other) = On(d, e)
      BY AskFacts
    <2>2. \A ch, f : ClaimChallenge(ch, f) = Ask(ch, "c_eval", f)
      BY <1>1, Zenon DEF ClaimChallenge
    <2>3. \A ch : PartWeights(ch) = <<1, LastAnswer(ch)>>
      BY <1>1, Zenon DEF PartWeights
    <2> HIDE DEF d
    <2>4. LastAnswer(d) \in Field /\ \A e : Extends(d, e) => LastAnswer(On(d, e)) = LastAnswer(d)
      BY <2>1, LastFacts
    <2>5. Follows(c, d)
      BY <2>1 DEF Asked
    <2>6. \A e : Extends(d, e) => /\ PartWeights(On(d, e)) = PartWeights(d)
                                  /\ \A other : ClaimChallenge(On(c, e), other) = On(d, e)
      BY <2>1, <2>2, <2>3, <2>4
    <2>7. ClaimKept(c, d)
      BY <2>4, <2>5, <2>6, Zenon DEF ClaimKept
    <2> QED
      BY <2>2, <2>7 DEF d
  <1>2. CASE ~HasCore
    <2>1. \A ch, f : ClaimChallenge(ch, f) = ch
      BY <1>2, Zenon DEF ClaimChallenge
    <2>2. \A ch : PartWeights(ch) = <<1>>
      BY <1>2, Zenon DEF PartWeights
    <2>3. Follows(c, c)
      BY ExtendsReflexive
    <2>4. ClaimKept(c, c)
      BY <1>2, <2>1, <2>2, <2>3, Zenon DEF ClaimKept
    <2> QED
      BY <2>1, <2>4
  <1> QED
    BY <1>1, <1>2

LEMMA OpenFacts ==
  ASSUME NEW c, ChannelOK(c), NEW comm, NEW comm_a, NEW comm_c, NEW messages, NEW fresh \in Field
  PROVE  OpenKept(c, OpenedAt(c, comm, comm_a, comm_c, messages, fresh), comm, comm_a, comm_c, messages)
  <1> DEFINE b == Put(c, "poly_com", comm)
             d == OpenedAt(c, comm, comm_a, comm_c, messages, fresh)
  <1>1. /\ Absorbs(c, b, <<"poly_com", comm>>)
        /\ \A e : Put(On(c, e), "poly_com", comm) = On(b, e)
    BY PutFacts
  <1>2. d = IpaChallenge(b, comm_a, comm_c, messages, fresh)
    BY Zenon DEF OpenedAt
  <1> HIDE DEF b, d
  <1>3. ChannelOK(b) /\ Follows(c, b) /\ SeenBy(b) = SeenBy(c) \cup {<<"poly_com", comm>>}
    BY <1>1 DEF Absorbs, Follows, Extends
  <1>4. /\ AsksFor(b, d, OpeningEntries(messages))
        /\ \A e, other : Extends(d, e) => IpaChallenge(On(b, e), comm_a, comm_c, messages, other) = On(d, e)
    BY <1>2, <1>3, IpaChallengeFacts
  <1>5. Follows(c, d)
    BY <1>3, <1>4, FollowsTransitive DEF AsksFor
  <1>6. AsksFor(c, d, {<<"poly_com", comm>>} \cup OpeningEntries(messages))
    BY <1>3, <1>4, <1>5 DEF AsksFor
  <1>7. \A e, other : Extends(d, e) => OpenedAt(On(c, e), comm, comm_a, comm_c, messages, other) = On(d, e)
    BY <1>1, <1>4 DEF OpenedAt
  <1> QED
    BY <1>6, <1>7, Zenon DEF OpenKept, d

-----------------------------------------------------------------------------
(* The proof and the claim, which grow field by field                       *)

(* The fields of f take precedence over those of g. *)
LEMMA Merged ==
  ASSUME NEW f, NEW g
  PROVE  /\ DOMAIN With(f, g) = DOMAIN f \cup DOMAIN g
         /\ \A x \in DOMAIN f : With(f, g)[x] = f[x]
         /\ \A x \in DOMAIN g : x \notin DOMAIN f => With(f, g)[x] = g[x]
  <1> DEFINE h == With(f, g)
  <1>1. h = [x \in DOMAIN f \cup DOMAIN g |-> IF x \in DOMAIN f THEN f[x] ELSE g[x]]
    BY Zenon DEF With
  <1> HIDE DEF h
  <1>2. /\ DOMAIN h = DOMAIN f \cup DOMAIN g
        /\ \A x \in DOMAIN f : h[x] = f[x]
        /\ \A x \in DOMAIN g : x \notin DOMAIN f => h[x] = g[x]
    BY <1>1
  <1> QED
    BY <1>2 DEF h

FoldFields == {"random_U", "U2", "comm_T"}
InstanceFields == {"public_values", "challenges", "comms"}
OuterFields == {"outer", "claims"}
InnerFields == {"inner", "open_W", "open_E"}
PlainInnerFields == {"inner", "eval_W", "blind_eval_W"}

(* No message of a proof is overwritten.                                    *)
FieldsInv ==
  /\ stage = "outer" => DOMAIN proof = FoldFields
  /\ stage = "inner" => DOMAIN proof = FoldFields \cup OuterFields
  /\ stage = "combine" => DOMAIN proof = FoldFields \cup OuterFields \cup InnerFields
  /\ stage = "open" /\ job.zk =>
       DOMAIN proof = FoldFields \cup OuterFields \cup InnerFields \cup {"evals"}
  /\ stage = "plain_outer" => DOMAIN proof = InstanceFields
  /\ stage = "plain_inner" => DOMAIN proof = InstanceFields \cup OuterFields
  /\ stage \in {"plain_outer", "plain_inner"} => DOMAIN claim = {"comm", "W", "r_W"}
  /\ stage = "open" /\ ~job.zk =>
       DOMAIN proof = InstanceFields \cup OuterFields \cup PlainInnerFields

(* Which steps are those of which provers. *)
StageInv ==
  /\ job \in Jobs
  /\ stage \in ZkStages => job.zk
  /\ stage \in PlainStages => ~job.zk

LEMMA StageStep ==
  ASSUME StageInv, [Next \/ PlainNext]_vars
  PROVE  StageInv'
  <1>1. CASE UNCHANGED vars
    BY <1>1 DEF StageInv, vars
  <1>2. CASE FoldProve
    BY <1>2 DEF FoldProve, StageInv, ZkStages, PlainStages
  <1>3. CASE OuterProve
    BY <1>3 DEF OuterProve, StageInv, ZkStages, PlainStages
  <1>4. CASE InnerProve
    BY <1>4 DEF InnerProve, StageInv, ZkStages, PlainStages
  <1>5. CASE Combine
    BY <1>5 DEF Combine, StageInv, ZkStages, PlainStages
  <1>6. CASE Open
    BY <1>6, JobsAssumption DEF Open, StageInv, ZkStages, PlainStages
  <1>7. CASE FoldVerify
    BY <1>7 DEF FoldVerify, StageInv, ZkStages, PlainStages, Continue
  <1>8. CASE OuterVerify
    BY <1>8 DEF OuterVerify, StageInv, ZkStages, PlainStages, Continue
  <1>9. CASE InnerVerify
    BY <1>9 DEF InnerVerify, StageInv, ZkStages, PlainStages, Continue
  <1>10. CASE CombineVerify
    BY <1>10 DEF CombineVerify, StageInv, ZkStages, PlainStages
  <1>11. CASE OpenVerify
    BY <1>11 DEF OpenVerify, StageInv, ZkStages, PlainStages, Continue
  <1>12. CASE InstanceProve
    BY <1>12 DEF InstanceProve, StageInv, ZkStages, PlainStages
  <1>13. CASE PlainOuterProve
    BY <1>13 DEF PlainOuterProve, StageInv, ZkStages, PlainStages
  <1>14. CASE PlainInnerProve
    BY <1>14 DEF PlainInnerProve, StageInv, ZkStages, PlainStages
  <1>15. CASE InstanceVerify
    BY <1>15 DEF InstanceVerify, StageInv, ZkStages, PlainStages, Continue
  <1>16. CASE PlainOuterVerify
    BY <1>16 DEF PlainOuterVerify, StageInv, ZkStages, PlainStages, Continue
  <1>17. CASE PlainInnerVerify
    BY <1>17 DEF PlainInnerVerify, StageInv, ZkStages, PlainStages, Continue
  <1> QED
    BY <1>1, <1>2, <1>3, <1>4, <1>5, <1>6, <1>7, <1>8, <1>9, <1>10, <1>11, <1>12, <1>13,
       <1>14, <1>15, <1>16, <1>17 DEF Next, PlainNext

-----------------------------------------------------------------------------
(* What the steps of the provers do, with the fields of the proof by name   *)

(* q is p with the fields of g, none of which p has. *)
Grows(p, q, g) ==
  /\ DOMAIN q = DOMAIN p \cup DOMAIN g
  /\ \A x \in DOMAIN p : q[x] = p[x]
  /\ \A x \in DOMAIN g : q[x] = g[x]

LEMMA WithGrows ==
  ASSUME NEW f, NEW g, DOMAIN f \cap DOMAIN g = {}
  PROVE  Grows(f, With(f, g), g)
  <1>1. /\ DOMAIN With(f, g) = DOMAIN f \cup DOMAIN g
        /\ \A x \in DOMAIN f : With(f, g)[x] = f[x]
        /\ \A x \in DOMAIN g : x \notin DOMAIN f => With(f, g)[x] = g[x]
    BY Merged
  <1>2. \A x \in DOMAIN g : x \notin DOMAIN f
    OBVIOUS
  <1> QED
    BY <1>1, <1>2, Zenon DEF Grows

(* What the prover does in its outer sum-check, from b with the products    *)
(* Az, Bz and Cz.                                                           *)
OuterWith(b, Az, Bz, Cz, tau, x, fresh) ==
  LET outer == Outer(b, Az, Bz, Cz, tau, x, fresh)
  IN  /\ channel' = OuterEnd(b, outer.claims, tau, x, fresh)
      /\ Grows(proof, proof', [outer |-> outer.sum, claims |-> outer.claims])
      /\ proof'.outer = outer.sum /\ proof'.claims = outer.claims
OuterDone(b, Az, Bz, Cz) ==
  \E tau, x \in [1 .. num_rounds_x -> Field], fresh \in Field :
    OuterWith(b, Az, Bz, Cz, tau, x, fresh)

(* u * Cz + E. *)
RelaxedCz(z) ==
  LET Cz == Multiply(S.C, z)
  IN  [i \in DOMAIN Cz |-> Plus(Times(folded.u, Cz[i]), folded.E[i])]

LEMMA OuterProveIs ==
  ASSUME StageInv, FieldsInv, OuterProve
  PROVE  LET z == Join(folded.W, folded.u, folded.X)
         IN  OuterDone(Opened(channel, folded.u, folded.X), Multiply(S.A, z), Multiply(S.B, z),
                       RelaxedCz(z))
  <1> DEFINE z == Join(folded.W, folded.u, folded.X)
             b == Opened(channel, folded.u, folded.X)
             Az == Multiply(S.A, z)
             Bz == Multiply(S.B, z)
             Cz == RelaxedCz(z)
             outer(tau, x, fresh) == Outer(b, Az, Bz, Cz, tau, x, fresh)
  <1>1. DOMAIN proof = FoldFields
    BY DEF OuterProve, FieldsInv
  <1>2. PICK tau \in Points(num_rounds_x), x \in Points(num_rounds_x), fresh \in Challenges :
          /\ channel' = outer(tau, x, fresh).channel
          /\ proof' = With(proof, [outer |-> outer(tau, x, fresh).sum,
                                   claims |-> outer(tau, x, fresh).claims])
    BY Zenon DEF OuterProve, RelaxedCz
  <1>3. tau \in [1 .. num_rounds_x -> Field] /\ x \in [1 .. num_rounds_x -> Field] /\ fresh \in Field
    BY Sizes DEF StageInv
  <1>4. channel' = OuterEnd(b, outer(tau, x, fresh).claims, tau, x, fresh)
    <2> HIDE DEF b, Az, Bz, Cz
    <2>1. outer(tau, x, fresh).channel = OuterEnd(b, outer(tau, x, fresh).claims, tau, x, fresh)
      BY OuterIs DEF outer
    <2> QED
      BY <1>2, <2>1, Zenon
  <1> HIDE DEF outer, z, b, Az, Bz, Cz
  <1> DEFINE g == [outer |-> outer(tau, x, fresh).sum, claims |-> outer(tau, x, fresh).claims]
  <1>5. DOMAIN proof \cap DOMAIN g = {}
    BY <1>1 DEF FoldFields
  <1>6. Grows(proof, proof', g)
    BY <1>2, <1>5, WithGrows
  <1>7. proof'.outer = outer(tau, x, fresh).sum /\ proof'.claims = outer(tau, x, fresh).claims
    BY <1>6 DEF Grows
  <1>8. OuterDone(b, Az, Bz, Cz)
    <2>1. OuterWith(b, Az, Bz, Cz, tau, x, fresh)
      BY <1>4, <1>6, <1>7, Zenon DEF OuterWith, outer
    <2> QED
      BY <1>3, <2>1 DEF OuterDone
  <1> QED
    BY <1>8 DEF z, b, Az, Bz, Cz

LEMMA PlainOuterProveIs ==
  ASSUME StageInv, FieldsInv, PlainOuterProve
  PROVE  OuterDone(channel, Multiply(S.A, Z), Multiply(S.B, Z), Multiply(S.C, Z))
  <1> DEFINE b == channel
             Az == Multiply(S.A, Z)
             Bz == Multiply(S.B, Z)
             Cz == Multiply(S.C, Z)
             outer(tau, x, fresh) == Outer(b, Az, Bz, Cz, tau, x, fresh)
  <1>1. DOMAIN proof = InstanceFields
    BY DEF PlainOuterProve, FieldsInv
  <1>2. PICK tau \in Points(num_rounds_x), x \in Points(num_rounds_x), fresh \in Challenges :
          /\ channel' = outer(tau, x, fresh).channel
          /\ proof' = With(proof, [outer |-> outer(tau, x, fresh).sum,
                                   claims |-> outer(tau, x, fresh).claims])
    BY Zenon DEF PlainOuterProve
  <1>3. tau \in [1 .. num_rounds_x -> Field] /\ x \in [1 .. num_rounds_x -> Field] /\ fresh \in Field
    BY Sizes DEF StageInv
  <1>4. channel' = OuterEnd(b, outer(tau, x, fresh).claims, tau, x, fresh)
    <2> HIDE DEF b, Az, Bz, Cz
    <2>1. outer(tau, x, fresh).channel = OuterEnd(b, outer(tau, x, fresh).claims, tau, x, fresh)
      BY OuterIs DEF outer
    <2> QED
      BY <1>2, <2>1, Zenon
  <1> HIDE DEF outer, b, Az, Bz, Cz
  <1> DEFINE g == [outer |-> outer(tau, x, fresh).sum, claims |-> outer(tau, x, fresh).claims]
  <1>5. DOMAIN proof \cap DOMAIN g = {}
    BY <1>1 DEF InstanceFields
  <1>6. Grows(proof, proof', g)
    BY <1>2, <1>5, WithGrows
  <1>7. proof'.outer = outer(tau, x, fresh).sum /\ proof'.claims = outer(tau, x, fresh).claims
    BY <1>6 DEF Grows
  <1>8. OuterDone(b, Az, Bz, Cz)
    <2>1. OuterWith(b, Az, Bz, Cz, tau, x, fresh)
      BY <1>4, <1>6, <1>7, Zenon DEF OuterWith, outer
    <2> QED
      BY <1>3, <2>1 DEF OuterDone
  <1> QED
    BY <1>8 DEF b, Az, Bz, Cz

(* What the prover does in its inner sum-check. *)
LEMMA InnerProveIs ==
  ASSUME StageInv, FieldsInv, InnerProve
  PROVE  \E r_y \in [1 .. num_rounds_y -> Field] :
           LET rounds == InnerRounds(channel, r_y)
               y == Latest(rounds, num_rounds_y)
               r_x == proof.outer.point
               open_W == prove_direct(folded.W, folded.r_W, Tail(y))
               open_E == prove_direct(folded.E, folded.r_E, r_x)
               poly_ABC == Padded(BoundColumns(r_x, folded.u, LastAnswer(channel)), 2 * num_vars_padded)
               poly_z == Padded(Join(folded.W, folded.u, folded.X), 2 * num_vars_padded)
           IN  /\ channel' = InnerEnd(channel, r_y, open_W.v, open_E.v)
               /\ Grows(proof, proof', [inner |-> Inner(poly_ABC, poly_z, y),
                                        open_W |-> open_W, open_E |-> open_E])
               /\ proof'.inner = Inner(poly_ABC, poly_z, y)
               /\ proof'.open_W = open_W /\ proof'.open_E = open_E
  <1> DEFINE rounds(r_y) == InnerRounds(channel, r_y)
             y(r_y) == Latest(rounds(r_y), num_rounds_y)
             r_x == proof.outer.point
             open_W(r_y) == prove_direct(folded.W, folded.r_W, Tail(y(r_y)))
             open_E == prove_direct(folded.E, folded.r_E, r_x)
             poly_ABC == Padded(BoundColumns(r_x, folded.u, LastAnswer(channel)), 2 * num_vars_padded)
             poly_z == Padded(Join(folded.W, folded.u, folded.X), 2 * num_vars_padded)
             inner(r_y) == Inner(poly_ABC, poly_z, y(r_y))
  <1>1. DOMAIN proof = FoldFields \cup OuterFields
    BY DEF InnerProve, FieldsInv
  <1>2. PICK r_y \in Points(num_rounds_y) :
          /\ channel' = Put(Put(rounds(r_y), "v_W", open_W(r_y).v), "v_E", open_E.v)
          /\ proof' = With(proof, [inner |-> inner(r_y), open_W |-> open_W(r_y), open_E |-> open_E])
    BY Zenon DEF InnerProve, InnerRounds
  <1>3. r_y \in [1 .. num_rounds_y -> Field]
    BY Sizes DEF StageInv
  <1>4. channel' = InnerEnd(channel, r_y, open_W(r_y).v, open_E.v)
    BY <1>2, Zenon DEF InnerEnd
  <1> HIDE DEF rounds, y, r_x, open_W, open_E, poly_ABC, poly_z, inner
  <1> DEFINE g == [inner |-> inner(r_y), open_W |-> open_W(r_y), open_E |-> open_E]
  <1>5. DOMAIN proof \cap DOMAIN g = {}
    BY <1>1 DEF FoldFields, OuterFields
  <1>6. Grows(proof, proof', g)
    BY <1>2, <1>5, WithGrows
  <1>7. proof'.inner = inner(r_y) /\ proof'.open_W = open_W(r_y) /\ proof'.open_E = open_E
    BY <1>6 DEF Grows
  <1> WITNESS r_y \in [1 .. num_rounds_y -> Field]
  <1> QED
    BY <1>4, <1>6, <1>7, Zenon DEF rounds, y, r_x, open_W, open_E, poly_ABC, poly_z, inner

(* The claim of the steps and the core. *)
ZkClaim(weights) ==
  [comm |-> fold_commitments(Parts(FoldedSteps.comm, CoreComm), weights),
   W |-> fold_vectors(Parts(FoldedSteps.W, Core.W), weights),
   r_W |-> fold_blinds(Parts(FoldedSteps.r_W, Core.r_W), weights),
   point |-> job.main.point,
   comm_eval |-> fold_commitments(Parts(EvalRow(1, FoldedSteps.W), EvalRow(2, Core.W)), weights),
   r_eval |-> fold_blinds(job.main.eval_blinds, weights)]

LEMMA CombineIs ==
  ASSUME StageInv, FieldsInv, Combine
  PROVE  /\ \E fresh \in Field : channel' = ClaimChallenge(channel, fresh)
         /\ claim' = ZkClaim(PartWeights(channel'))
         /\ LET evals == Parts(EvalRow(1, FoldedSteps.W), EvalRow(2, Core.W))
            IN  Grows(proof, proof', [evals |-> evals]) /\ proof'.evals = evals
  <1> DEFINE evals == Parts(EvalRow(1, FoldedSteps.W), EvalRow(2, Core.W))
  <1>1. DOMAIN proof = FoldFields \cup OuterFields \cup InnerFields
    BY DEF Combine, FieldsInv
  <1>2. \E fresh \in Field : channel' = ClaimChallenge(channel, fresh)
    <2>1. Challenges \subseteq Field
      BY Sizes DEF StageInv
    <2>2. PICK fresh \in Challenges : channel' = ClaimChallenge(channel, fresh)
      BY Zenon DEF Combine
    <2> QED
      BY <2>1, <2>2
  <1>3. claim' = ZkClaim(PartWeights(channel'))
    BY Zenon DEF Combine, ZkClaim
  <1>4. proof' = With(proof, [evals |-> evals])
    BY Zenon DEF Combine
  <1> HIDE DEF evals
  <1>5. DOMAIN proof \cap DOMAIN [evals |-> evals] = {}
    BY <1>1 DEF FoldFields, OuterFields, InnerFields
  <1>6. Grows(proof, proof', [evals |-> evals])
    BY <1>4, <1>5, WithGrows
  <1>7. proof'.evals = evals
    BY <1>6 DEF Grows
  <1> QED
    BY <1>2, <1>3, <1>6, <1>7 DEF evals

(* The opening: where its challenge is drawn and what is sent. *)
OpenDone(mask, fresh) ==
  LET row == BoundRow(claim.W, claim.r_W, claim.point)
      b_vec == ColumnWeights(claim.point)
      messages == IpaMessages(mask, b_vec)
      ch == OpenedAt(channel, claim.comm, Row(row.v, row.blind), claim.comm_eval[0], messages, fresh)
      sent == [messages |-> messages, asked |-> Len(ch.oracle),
               answer |-> IpaAnswer(mask, row, claim.r_eval[0], LastAnswer(ch))]
  IN  /\ channel' = NewChannel(ch.oracle, ch.answers)
      /\ Grows(proof, proof', sent)
      /\ proof'.messages = messages /\ proof'.asked = Len(ch.oracle)
      /\ proof'.answer = sent.answer

LEMMA OpenIs ==
  ASSUME StageInv, FieldsInv, Open
  PROVE  \E mask \in Masks(Size(ColumnWeights(claim.point))), fresh \in Field : OpenDone(mask, fresh)
  <1> DEFINE row == BoundRow(claim.W, claim.r_W, claim.point)
             b_vec == ColumnWeights(claim.point)
             messages(mask) == IpaMessages(mask, b_vec)
             ch(mask, fresh) == OpenedAt(channel, claim.comm, Row(row.v, row.blind),
                                         claim.comm_eval[0], messages(mask), fresh)
             answer(mask, fresh) == IpaAnswer(mask, row, claim.r_eval[0], LastAnswer(ch(mask, fresh)))
  <1>1. DOMAIN proof \cap {"messages", "asked", "answer"} = {}
    <2>1. stage = "open" /\ (job.zk \/ ~job.zk)
      BY JobsAssumption DEF Open, StageInv
    <2> QED
      BY <2>1 DEF FieldsInv, FoldFields, OuterFields, InnerFields, InstanceFields, PlainInnerFields
  <1>2. PICK mask \in Masks(Size(b_vec)), fresh \in Challenges :
          /\ channel' = NewChannel(ch(mask, fresh).oracle, ch(mask, fresh).answers)
          /\ proof' = With(proof, [messages |-> messages(mask), asked |-> Len(ch(mask, fresh).oracle),
                                   answer |-> answer(mask, fresh)])
    BY Zenon DEF Open, OpenedAt
  <1>3. fresh \in Field
    BY Sizes DEF StageInv
  <1> HIDE DEF messages, ch, answer
  <1> DEFINE g == [messages |-> messages(mask), asked |-> Len(ch(mask, fresh).oracle),
                   answer |-> answer(mask, fresh)]
  <1>4. DOMAIN proof \cap DOMAIN g = {}
    BY <1>1
  <1>5. Grows(proof, proof', g)
    BY <1>2, <1>4, WithGrows
  <1>6. /\ proof'.messages = messages(mask) /\ proof'.asked = Len(ch(mask, fresh).oracle)
        /\ proof'.answer = answer(mask, fresh)
    BY <1>5 DEF Grows
  <1>7. g.answer = answer(mask, fresh)
    OBVIOUS
  <1>8. OpenDone(mask, fresh)
    BY <1>2, <1>5, <1>6, <1>7, Zenon DEF OpenDone, messages, ch, answer
  <1> QED
    BY <1>2, <1>3, <1>8

(* The instance of the plain prover. *)
InstanceDone(fresh) ==
  LET drawn == Challenged(Begun(job.public), EarlyComms, fresh)
      challenges == Latest(drawn, job.num_challenges)
      rest == job.rest[challenges]
      comm_rest == Commit(rest, job.r_rest)
      n == Len(job.early)
  IN  /\ channel' = Put(drawn, "comm_W_rest", comm_rest)
      /\ proof' = [public_values |-> job.public, challenges |-> challenges,
                   comms |-> Append(EarlyComms, [label |-> "comm_W_rest", comm |-> comm_rest])]
      /\ claim' = [comm |-> Joined([i \in DOMAIN proof'.comms |-> proof'.comms[i].comm]),
                   W |-> Joined([i \in 1 .. n + 1 |-> IF i > n THEN rest ELSE job.early[i].W]),
                   r_W |-> Joined([i \in 1 .. n + 1 |->
                                     IF i > n THEN job.r_rest ELSE job.early[i].r_W])]

LEMMA InstanceProveIs ==
  ASSUME StageInv, InstanceProve
  PROVE  ~job.zk /\ \E fresh \in [1 .. job.num_challenges -> Field] : InstanceDone(fresh)
  <1>1. ~job.zk
    BY DEF InstanceProve, StageInv, PlainStages
  <1> DEFINE drawn(fresh) == Challenged(Begun(job.public), EarlyComms, fresh)
             challenges(fresh) == Latest(drawn(fresh), job.num_challenges)
             rest(fresh) == job.rest[challenges(fresh)]
             comm_rest(fresh) == Commit(rest(fresh), job.r_rest)
             n == Len(job.early)
             comms(fresh) == Append(EarlyComms, [label |-> "comm_W_rest", comm |-> comm_rest(fresh)])
  <1>2. PICK fresh \in Points(job.num_challenges) :
          /\ channel' = Put(drawn(fresh), "comm_W_rest", comm_rest(fresh))
          /\ proof' = [public_values |-> job.public, challenges |-> challenges(fresh),
                       comms |-> comms(fresh)]
          /\ claim' = [comm |-> Joined([i \in DOMAIN comms(fresh) |-> comms(fresh)[i].comm]),
                       W |-> Joined([i \in 1 .. n + 1 |-> IF i > n THEN rest(fresh) ELSE job.early[i].W]),
                       r_W |-> Joined([i \in 1 .. n + 1 |->
                                         IF i > n THEN job.r_rest ELSE job.early[i].r_W])]
    BY Zenon DEF InstanceProve
  <1>3. fresh \in [1 .. job.num_challenges -> Field]
    BY <1>1, Sizes DEF StageInv
  <1> HIDE DEF comms
  <1>4. proof'.comms = comms(fresh)
    BY <1>2
  <1>5. InstanceDone(fresh)
    BY <1>2, <1>4, Zenon DEF InstanceDone, comms
  <1> QED
    BY <1>1, <1>3, <1>5

(* The inner sum-check of the plain prover, if it gets to its end.          *)
PlainInnerDone(r_y) ==
  LET poly_ABC == Padded(BoundColumns(proof.outer.point, 1, LastAnswer(channel)), 2 * S.num_vars)
      poly_z == Padded(Z, 2 * S.num_vars)
      rounds == InnerRounds(channel, r_y)
      y == Latest(rounds, num_rounds_y)
      eval_Z == Extension(poly_z, y)
      eval_W == Times(Minus(eval_Z, Times(y[1], EvalX(proof, y))), Invert(Minus(1, y[1])))
      sent == [inner |-> Inner(poly_ABC, poly_z, y), eval_W |-> eval_W,
               blind_eval_W |-> job.blind_eval]
      more == [point |-> Tail(y), r_eval |-> job.blind_eval,
               comm_eval |-> Commit(Scalar(eval_W), job.blind_eval)]
  IN  /\ channel' = rounds
      /\ \/ y[1] = 1 /\ stage' = "failed" /\ UNCHANGED <<claim, proof>>
         \/ /\ y[1] # 1 /\ stage' = "open"
            /\ Grows(proof, proof', sent) /\ proof'.inner = sent.inner
            /\ proof'.eval_W = eval_W /\ proof'.blind_eval_W = job.blind_eval
            /\ Grows(claim, claim', more) /\ claim'.point = Tail(y)
            /\ claim'.r_eval = job.blind_eval /\ claim'.comm_eval = more.comm_eval

LEMMA PlainInnerProveIs ==
  ASSUME StageInv, FieldsInv, PlainInnerProve
  PROVE  \E r_y \in [1 .. num_rounds_y -> Field] : PlainInnerDone(r_y)
  <1> DEFINE poly_ABC == Padded(BoundColumns(proof.outer.point, 1, LastAnswer(channel)), 2 * S.num_vars)
             poly_z == Padded(Z, 2 * S.num_vars)
             rounds(r_y) == InnerRounds(channel, r_y)
             y(r_y) == Latest(rounds(r_y), num_rounds_y)
             eval_Z(r_y) == Extension(poly_z, y(r_y))
             eval_W(r_y) == Times(Minus(eval_Z(r_y), Times(y(r_y)[1], EvalX(proof, y(r_y)))),
                                  Invert(Minus(1, y(r_y)[1])))
             inner(r_y) == Inner(poly_ABC, poly_z, y(r_y))
             comm(r_y) == Commit(Scalar(eval_W(r_y)), job.blind_eval)
  <1>1. DOMAIN proof = InstanceFields \cup OuterFields /\ DOMAIN claim = {"comm", "W", "r_W"}
    BY DEF PlainInnerProve, FieldsInv
  <1>2. PICK r_y \in Points(num_rounds_y) :
          /\ channel' = rounds(r_y)
          /\ IF y(r_y)[1] = 1 THEN stage' = "failed" /\ UNCHANGED <<claim, proof>>
             ELSE /\ stage' = "open"
                  /\ proof' = With(proof, [inner |-> inner(r_y), eval_W |-> eval_W(r_y),
                                           blind_eval_W |-> job.blind_eval])
                  /\ claim' = With(claim, [point |-> Tail(y(r_y)), r_eval |-> job.blind_eval,
                                           comm_eval |-> comm(r_y)])
    BY Zenon DEF PlainInnerProve, InnerRounds
  <1>3. r_y \in [1 .. num_rounds_y -> Field]
    BY Sizes DEF StageInv
  <1> HIDE DEF poly_ABC, poly_z, rounds, y, eval_Z, eval_W, inner, comm
  <1> DEFINE sent == [inner |-> inner(r_y), eval_W |-> eval_W(r_y), blind_eval_W |-> job.blind_eval]
             more == [point |-> Tail(y(r_y)), r_eval |-> job.blind_eval, comm_eval |-> comm(r_y)]
  <1>4. sent.inner = inner(r_y) /\ more.comm_eval = comm(r_y)
    OBVIOUS
  <1>5. CASE y(r_y)[1] = 1
    <2>1. stage' = "failed" /\ UNCHANGED <<claim, proof>>
      BY <1>2, <1>5
    <2>2. PlainInnerDone(r_y)
      BY <1>2, <1>5, <2>1, Zenon DEF PlainInnerDone, rounds, y
    <2> QED
      BY <1>3, <2>2
  <1>6. CASE y(r_y)[1] # 1
    <2>1. DOMAIN proof \cap DOMAIN sent = {} /\ DOMAIN claim \cap DOMAIN more = {}
      BY <1>1 DEF InstanceFields, OuterFields
    <2>2. stage' = "open" /\ proof' = With(proof, sent) /\ claim' = With(claim, more)
      BY <1>2, <1>6
    <2>3. Grows(proof, proof', sent) /\ Grows(claim, claim', more)
      BY <2>1, <2>2, WithGrows
    <2>4. /\ proof'.inner = inner(r_y) /\ proof'.eval_W = eval_W(r_y)
          /\ proof'.blind_eval_W = job.blind_eval
      BY <2>3 DEF Grows
    <2>5. /\ claim'.point = Tail(y(r_y)) /\ claim'.r_eval = job.blind_eval
          /\ claim'.comm_eval = comm(r_y)
      BY <2>3 DEF Grows
    <2>6. PlainInnerDone(r_y)
      BY <1>2, <1>4, <1>6, <2>2, <2>3, <2>4, <2>5, Zenon
         DEF PlainInnerDone, poly_ABC, poly_z, rounds, y, eval_Z, eval_W, inner, comm
    <2> QED
      BY <1>3, <2>6
  <1> QED
    BY <1>5, <1>6

-----------------------------------------------------------------------------
(* What the steps of the fold and of the verifiers do                       *)

FoldDone(r_T, fresh) ==
  LET T == CrossTerm(RandomWitness, job.regular)
      comm_T == Commit(T, r_T)
      ch == FoldChallenge(channel, Instance(RandomWitness), RegularInstance, comm_T, fresh)
  IN  /\ channel' = ch
      /\ folded' = FoldWitness(RandomWitness, job.regular, T, r_T, LastAnswer(ch))
      /\ DOMAIN proof' = FoldFields
      /\ proof'.random_U = Instance(RandomWitness) /\ proof'.U2 = RegularInstance
      /\ proof'.comm_T = comm_T

LEMMA FoldProveIs ==
  ASSUME StageInv, FoldProve
  PROVE  \E r_T \in Blinds(NumRows(S.num_cons)), fresh \in Field : FoldDone(r_T, fresh)
  <1> DEFINE T == CrossTerm(RandomWitness, job.regular)
             ch(r_T, fresh) == FoldChallenge(channel, Instance(RandomWitness), RegularInstance,
                                             Commit(T, r_T), fresh)
  <1>1. PICK r_T \in Blinds(NumRows(S.num_cons)), fresh \in Challenges :
          /\ channel' = ch(r_T, fresh)
          /\ folded' = FoldWitness(RandomWitness, job.regular, T, r_T, LastAnswer(ch(r_T, fresh)))
          /\ proof' = [random_U |-> Instance(RandomWitness), U2 |-> RegularInstance,
                       comm_T |-> Commit(T, r_T)]
    BY Zenon DEF FoldProve
  <1>2. fresh \in Field
    BY Sizes DEF StageInv
  <1> HIDE DEF T, ch
  <1>3. /\ DOMAIN proof' = FoldFields
        /\ proof'.random_U = Instance(RandomWitness) /\ proof'.U2 = RegularInstance
        /\ proof'.comm_T = Commit(T, r_T)
    BY <1>1 DEF FoldFields
  <1>4. FoldDone(r_T, fresh)
    BY <1>1, <1>3, Zenon DEF FoldDone, T, ch
  <1> QED
    BY <1>1, <1>2, <1>4

LEMMA FoldVerifyIs ==
  ASSUME StageInv, FoldVerify
  PROVE  \E fresh \in Field :
           channel' = FoldChallenge(channel, proof.random_U, proof.U2, proof.comm_T, fresh)
  BY Sizes DEF FoldVerify, StageInv

LEMMA OuterVerifyIs ==
  ASSUME StageInv, OuterVerify
  PROVE  \E tau, x \in [1 .. num_rounds_x -> Field], fresh \in Field :
           channel' = OuterEnd(Opened(channel, U.u, U.X), proof.claims, tau, x, fresh)
  <1>1. PICK tau \in Points(num_rounds_x), x \in Points(num_rounds_x), fresh \in Challenges :
          channel' = OuterCheck(Opened(channel, U.u, U.X), tau, x, fresh).channel
    BY Zenon DEF OuterVerify
  <1>2. tau \in [1 .. num_rounds_x -> Field] /\ x \in [1 .. num_rounds_x -> Field] /\ fresh \in Field
    BY Sizes DEF StageInv
  <1>3. channel' = OuterEnd(Opened(channel, U.u, U.X), proof.claims, tau, x, fresh)
    BY <1>1, OuterIs
  <1> QED
    BY <1>2, <1>3

LEMMA PlainOuterVerifyIs ==
  ASSUME StageInv, PlainOuterVerify
  PROVE  \E tau, x \in [1 .. num_rounds_x -> Field], fresh \in Field :
           channel' = OuterEnd(channel, proof.claims, tau, x, fresh)
  <1>1. PICK tau \in Points(num_rounds_x), x \in Points(num_rounds_x), fresh \in Challenges :
          channel' = OuterCheck(channel, tau, x, fresh).channel
    BY Zenon DEF PlainOuterVerify
  <1>2. tau \in [1 .. num_rounds_x -> Field] /\ x \in [1 .. num_rounds_x -> Field] /\ fresh \in Field
    BY Sizes DEF StageInv
  <1>3. channel' = OuterEnd(channel, proof.claims, tau, x, fresh)
    BY <1>1, OuterIs
  <1> QED
    BY <1>2, <1>3

LEMMA InnerVerifyIs ==
  ASSUME StageInv, InnerVerify
  PROVE  \E y \in [1 .. num_rounds_y -> Field] :
           channel' = InnerEnd(channel, y, proof.open_W.v, proof.open_E.v)
  <1>1. PICK y \in Points(num_rounds_y) :
          channel' = Put(Put(InnerRounds(channel, y), "v_W", proof.open_W.v), "v_E", proof.open_E.v)
    BY Zenon DEF InnerVerify, InnerRounds
  <1>2. y \in [1 .. num_rounds_y -> Field]
    BY Sizes DEF StageInv
  <1> QED
    BY <1>1, <1>2 DEF InnerEnd

LEMMA CombineVerifyIs ==
  ASSUME StageInv, CombineVerify
  PROVE  \E fresh \in Field : channel' = ClaimChallenge(channel, fresh)
  <1>1. Challenges \subseteq Field
    BY Sizes DEF StageInv
  <1>2. PICK fresh \in Challenges : channel' = ClaimChallenge(channel, fresh)
    BY Zenon DEF CombineVerify
  <1> QED
    BY <1>1, <1>2

(* The commitment to the combined row, and that to the evaluation. *)
LEMMA OpenVerifyIs ==
  ASSUME StageInv, OpenVerify
  PROVE  \E fresh \in Field :
           channel' = OpenedAt(channel, U.comm, BoundCommitment(U.comm, U.point), U.comm_eval[0],
                               proof.messages, fresh)
  <1>1. Challenges \subseteq Field
    BY Sizes DEF StageInv
  <1>2. PICK fresh \in Challenges :
          channel' = IpaChallenge(Put(channel, "poly_com", U.comm), BoundCommitment(U.comm, U.point),
                                  U.comm_eval[0], proof.messages, fresh)
    BY Zenon DEF OpenVerify
  <1>3. channel' = OpenedAt(channel, U.comm, BoundCommitment(U.comm, U.point), U.comm_eval[0],
                            proof.messages, fresh)
    BY <1>2, Zenon DEF OpenedAt
  <1> QED
    BY <1>1, <1>3

InstanceChecked(fresh) ==
  LET n == Len(job.early)
      drawn == Challenged(Begun(proof.public_values), SubSeq(proof.comms, 1, n), fresh)
  IN  channel' = Put(drawn, proof.comms[n + 1].label, proof.comms[n + 1].comm)

LEMMA InstanceVerifyIs ==
  ASSUME StageInv, InstanceVerify
  PROVE  ~job.zk /\ \E fresh \in [1 .. job.num_challenges -> Field] : InstanceChecked(fresh)
  <1>1. ~job.zk
    BY DEF InstanceVerify, StageInv, PlainStages
  <1>2. PICK fresh \in Points(job.num_challenges) : InstanceChecked(fresh)
    BY Zenon DEF InstanceVerify, InstanceChecked
  <1>3. fresh \in [1 .. job.num_challenges -> Field]
    BY <1>1, Sizes DEF StageInv
  <1> QED
    BY <1>1, <1>2, <1>3

LEMMA PlainInnerVerifyIs ==
  ASSUME StageInv, PlainInnerVerify
  PROVE  \E y \in [1 .. num_rounds_y -> Field] : channel' = InnerRounds(channel, y)
  <1>1. PICK y \in Points(num_rounds_y) : channel' = InnerRounds(channel, y)
    BY Zenon DEF PlainInnerVerify, InnerRounds
  <1>2. y \in [1 .. num_rounds_y -> Field]
    BY Sizes DEF StageInv
  <1> QED
    BY <1>1, <1>2

(* The outer sum-check adds two messages. *)
LEMMA OuterAdds ==
  ASSUME NEW b, NEW Az, NEW Bz, NEW Cz, OuterDone(b, Az, Bz, Cz)
  PROVE  DOMAIN proof' = DOMAIN proof \cup OuterFields
  <1>1. PICK tau, x, fresh : OuterWith(b, Az, Bz, Cz, tau, x, fresh)
    BY DEF OuterDone
  <1>2. \E v, w : Grows(proof, proof', [outer |-> v, claims |-> w])
    BY <1>1 DEF OuterWith
  <1> QED
    BY <1>2 DEF Grows, OuterFields

(* The fields of the proof. *)
LEMMA FieldsStep ==
  ASSUME StageInv, FieldsInv, [Next \/ PlainNext]_vars
  PROVE  FieldsInv'
  <1>1. CASE UNCHANGED vars
    BY <1>1 DEF FieldsInv, vars
  <1>2. CASE FoldProve
    <2>1. DOMAIN proof' = FoldFields
      BY <1>2, FoldProveIs DEF FoldDone
    <2> QED
      BY <1>2, <2>1 DEF FoldProve, FieldsInv
  <1>3. CASE OuterProve
    <2>1. DOMAIN proof' = DOMAIN proof \cup OuterFields
      <3> DEFINE z == Join(folded.W, folded.u, folded.X)
      <3>1. OuterDone(Opened(channel, folded.u, folded.X), Multiply(S.A, z), Multiply(S.B, z),
                      RelaxedCz(z))
        BY <1>3, OuterProveIs
      <3> QED
        BY <3>1, OuterAdds
    <2> QED
      BY <1>3, <2>1 DEF OuterProve, FieldsInv
  <1>4. CASE InnerProve
    <2>1. DOMAIN proof' = DOMAIN proof \cup InnerFields
      BY <1>4, InnerProveIs DEF Grows, InnerFields
    <2> QED
      BY <1>4, <2>1 DEF InnerProve, FieldsInv
  <1>5. CASE Combine
    <2>1. DOMAIN proof' = DOMAIN proof \cup {"evals"}
      BY <1>5, CombineIs DEF Grows
    <2>2. job.zk
      BY <1>5 DEF Combine, StageInv, ZkStages
    <2> QED
      BY <1>5, <2>1, <2>2 DEF Combine, FieldsInv
  <1>6. CASE Open
    <2>1. stage' \in {"verify_fold", "verify_instance"}
      BY <1>6 DEF Open
    <2> QED
      BY <2>1 DEF FieldsInv
  <1>7. CASE FoldVerify
    BY <1>7 DEF FoldVerify, FieldsInv, Continue
  <1>8. CASE OuterVerify
    BY <1>8 DEF OuterVerify, FieldsInv, Continue
  <1>9. CASE InnerVerify
    BY <1>9 DEF InnerVerify, FieldsInv, Continue
  <1>10. CASE CombineVerify
    BY <1>10 DEF CombineVerify, FieldsInv
  <1>11. CASE OpenVerify
    BY <1>11 DEF OpenVerify, FieldsInv, Continue
  <1>12. CASE InstanceProve
    <2>1. DOMAIN proof' = InstanceFields /\ DOMAIN claim' = {"comm", "W", "r_W"}
      <3>1. \E x, y, z : proof' = [public_values |-> x, challenges |-> y, comms |-> z]
        BY <1>12, InstanceProveIs DEF InstanceDone
      <3>2. \E x, y, z : claim' = [comm |-> x, W |-> y, r_W |-> z]
        BY <1>12, InstanceProveIs DEF InstanceDone
      <3> QED
        BY <3>1, <3>2 DEF InstanceFields
    <2> QED
      BY <1>12, <2>1 DEF InstanceProve, FieldsInv
  <1>13. CASE PlainOuterProve
    <2>1. DOMAIN proof' = DOMAIN proof \cup OuterFields
      BY <1>13, PlainOuterProveIs, OuterAdds
    <2> QED
      BY <1>13, <2>1 DEF PlainOuterProve, FieldsInv
  <1>14. CASE PlainInnerProve
    <2>1. stage' = "failed" \/ (stage' = "open" /\ DOMAIN proof' = DOMAIN proof \cup PlainInnerFields)
      BY <1>14, PlainInnerProveIs DEF PlainInnerDone, Grows, PlainInnerFields
    <2>2. ~job.zk /\ job' = job
      BY <1>14 DEF PlainInnerProve, StageInv, PlainStages
    <2> QED
      BY <1>14, <2>1, <2>2 DEF PlainInnerProve, FieldsInv
  <1>15. CASE InstanceVerify
    BY <1>15 DEF InstanceVerify, FieldsInv, Continue
  <1>16. CASE PlainOuterVerify
    BY <1>16 DEF PlainOuterVerify, FieldsInv, Continue
  <1>17. CASE PlainInnerVerify
    BY <1>17 DEF PlainInnerVerify, FieldsInv, Continue
  <1> QED
    BY <1>1, <1>2, <1>3, <1>4, <1>5, <1>6, <1>7, <1>8, <1>9, <1>10, <1>11, <1>12, <1>13,
       <1>14, <1>15, <1>16, <1>17 DEF Next, PlainNext

-----------------------------------------------------------------------------
(* What the challenges depend on, in every state                            *)

(* The commitments to what was fixed before the challenges of the circuit,  *)
(* and all the instance consists of.                                        *)
EarlyEntries == {<<proof.comms[i].label, proof.comms[i].comm>> : i \in 1 .. Len(job.early)}
InstanceEntries ==
  {<<"public_values", proof.public_values>>}
    \cup {<<proof.comms[i].label, proof.comms[i].comm>> : i \in 1 .. Len(job.early) + 1}

(* One commitment for every segment, early or rest. *)
CommsInv ==
  ~job.zk /\ stage \notin {"instance", "failed"} =>
    IsSequence(proof.comms) /\ Len(proof.comms) = Len(job.early) + 1

BoundInv ==
  /\ ChannelOK(channel)
  /\ stage \in {"outer", "verify_outer"} =>
       FoldEntries(proof.random_U, proof.U2, proof.comm_T) \subseteq Fixed(channel)
  /\ stage = "accepted" =>
       {<<"poly_com", U.comm>>} \cup OpeningEntries(proof.messages) \subseteq Fixed(channel)
  /\ stage \in {"plain_outer", "verify_plain_outer"} =>
       /\ InstanceEntries \subseteq SeenBy(channel)
       /\ job.num_challenges > 0 =>
            {<<"public_values", proof.public_values>>} \cup EarlyEntries \subseteq Fixed(channel)
  /\ stage \in {"plain_inner", "verify_plain_inner"} => InstanceEntries \subseteq Fixed(channel)

ArgumentInv == StageInv /\ FieldsInv /\ CommsInv /\ BoundInv

(* The early segments are a sequence, and so are their commitments. *)
LEMMA EarlyFacts ==
  ASSUME StageInv, ~job.zk
  PROVE  /\ Len(job.early) \in Nat /\ DOMAIN job.early = 1 .. Len(job.early)
         /\ IsSequence(EarlyComms) /\ Len(EarlyComms) = Len(job.early)
         /\ \A i \in 1 .. Len(job.early) :
              EarlyComms[i] = [label |-> job.early[i].label,
                               comm |-> Commit(job.early[i].W, job.early[i].r_W)]
  <1>1. IsList(job.early)
    BY SegmentsAssumption DEF StageInv
  <1> DEFINE A == {job.early[i] : i \in DOMAIN job.early}
             e == job.early
  <1>2. e \in Seq(A)
    BY <1>1 DEF IsList
  <1>3. Len(e) \in Nat /\ DOMAIN e = 1 .. Len(e)
    <2> HIDE DEF A, e
    <2> QED
      BY <1>2, LenProperties
  <1> DEFINE n == Len(e)
             c(i) == [label |-> job.early[i].label, comm |-> Commit(job.early[i].W, job.early[i].r_W)]
  <1>4. EarlyComms = [i \in 1 .. n |-> c(i)]
    BY <1>3 DEF EarlyComms
  <1> HIDE DEF c
  <1>5. n \in Nat
    BY <1>3
  <1> HIDE DEF n
  <1>6. IsSequence(EarlyComms) /\ Len(EarlyComms) = n
    BY <1>4, <1>5, FunctionIsSequence
  <1>7. \A i \in 1 .. n : EarlyComms[i] = c(i)
    BY <1>4
  <1> QED
    BY <1>3, <1>6, <1>7 DEF n, c

(* The instance that is proved, and the one that is checked, up to the last *)
(* commitment.                                                              *)
InstanceAbsorbed(d, public, comms, n, challenges) ==
  /\ ChannelOK(d)
  /\ {<<"public_values", public>>} \cup {<<comms[i].label, comms[i].comm>> : i \in 1 .. n + 1}
       \subseteq SeenBy(d)
  /\ challenges > 0 =>
       {<<"public_values", public>>} \cup {<<comms[i].label, comms[i].comm>> : i \in 1 .. n}
         \subseteq Fixed(d)

LEMMA InstanceFacts ==
  ASSUME ChannelOK(channel), NEW public, NEW early, IsSequence(early), NEW n \in Nat, Len(early) = n,
         NEW comms, \A i \in 1 .. n : comms[i] = early[i],
         NEW challenges \in Nat, NEW fresh \in [1 .. challenges -> Field]
  PROVE  InstanceAbsorbed(Put(Challenged(Begun(public), early, fresh),
                              comms[n + 1].label, comms[n + 1].comm),
                          public, comms, n, challenges)
  <1> DEFINE b == Begun(public)
             c == Challenged(b, early, fresh)
             last == <<comms[n + 1].label, comms[n + 1].comm>>
             d == Put(c, comms[n + 1].label, comms[n + 1].comm)
             open == {<<"public_values", public>>}
  <1>1. ChannelOK(b) /\ open \subseteq SeenBy(b)
    <2>1. PutsTwo(channel, b, "vk", "digest", "public_values", public)
      BY BegunFacts
    <2> HIDE DEF b
    <2> QED
      BY <2>1 DEF PutsTwo
  <1> HIDE DEF b
  <1>2. ChallengedKept(b, early, fresh, challenges)
    BY <1>1, ChallengedFacts
  <1>3. /\ ChannelOK(c) /\ SeenBy(b) \subseteq SeenBy(c)
        /\ challenges > 0 => SeenBy(b) \subseteq Fixed(c)
        /\ \A i \in 1 .. n : /\ <<early[i].label, early[i].comm>> \in SeenBy(c)
                             /\ challenges > 0 => <<early[i].label, early[i].comm>> \in Fixed(c)
    BY <1>2 DEF ChallengedKept, Follows, Extends
  <1> HIDE DEF c
  <1>4. Absorbs(c, d, last)
    BY <1>3, PutFacts
  <1> HIDE DEF d
  <1>5. ChannelOK(d) /\ SeenBy(d) = SeenBy(c) \cup {last} /\ Fixed(d) = Fixed(c)
    BY <1>4 DEF Absorbs, Follows, Extends
  <1>6. \A i \in 1 .. n : /\ <<comms[i].label, comms[i].comm>> \in SeenBy(c)
                          /\ challenges > 0 => <<comms[i].label, comms[i].comm>> \in Fixed(c)
    BY <1>3
  <1>7. ASSUME NEW i \in 1 .. n + 1 PROVE <<comms[i].label, comms[i].comm>> \in SeenBy(d)
    <2>1. CASE i = n + 1
      BY <1>5, <2>1
    <2>2. CASE i # n + 1
      <3>1. i \in 1 .. n
        BY <2>2
      <3> QED
        BY <1>5, <1>6, <3>1
    <2> QED
      BY <2>1, <2>2
  <1> HIDE DEF last
  <1>8. open \subseteq SeenBy(d) /\ (challenges > 0 => open \subseteq Fixed(d))
    BY <1>1, <1>3, <1>5
  <1>9. InstanceAbsorbed(d, public, comms, n, challenges)
    BY <1>5, <1>6, <1>7, <1>8 DEF InstanceAbsorbed
  <1> QED
    BY <1>9 DEF d, c, b

(* One commitment for every segment. *)
LEMMA CommsStep ==
  ASSUME ArgumentInv, [Next \/ PlainNext]_vars
  PROVE  CommsInv'
  <1> USE DEF ArgumentInv
  <1>1. CASE UNCHANGED vars
    BY <1>1 DEF CommsInv, vars
  <1>2. CASE FoldProve \/ OuterProve \/ InnerProve \/ Combine
    <2>1. job.zk /\ job' = job
      BY <1>2 DEF FoldProve, OuterProve, InnerProve, Combine, StageInv, ZkStages
    <2> QED
      BY <2>1 DEF CommsInv
  <1>3. CASE Open
    <2>1. job' = job /\ stage = "open"
      BY <1>3 DEF Open
    <2>2. ASSUME ~job.zk PROVE proof'.comms = proof.comms
      <3>1. "comms" \in DOMAIN proof
        BY <2>1, <2>2 DEF FieldsInv, InstanceFields
      <3>2. PICK sent : Grows(proof, proof', sent)
        BY <1>3, OpenIs DEF OpenDone
      <3> QED
        BY <3>1, <3>2 DEF Grows
    <2> QED
      BY <2>1, <2>2 DEF CommsInv
  <1>4. CASE FoldVerify \/ OuterVerify \/ InnerVerify \/ CombineVerify
    <2>1. job.zk /\ job' = job
      BY <1>4 DEF FoldVerify, OuterVerify, InnerVerify, CombineVerify, StageInv, ZkStages
    <2> QED
      BY <2>1 DEF CommsInv
  <1>5. CASE OpenVerify
    BY <1>5 DEF OpenVerify, CommsInv
  <1>6. CASE InstanceProve
    <2>1. ~job.zk /\ job' = job
      BY <1>6 DEF InstanceProve, StageInv, PlainStages
    <2>2. PICK e : proof'.comms = Append(EarlyComms, e)
      <3>1. PICK fresh : InstanceDone(fresh)
        BY <1>6, InstanceProveIs
      <3> QED
        BY <3>1, Zenon DEF InstanceDone
    <2>3. IsSequence(EarlyComms) /\ Len(EarlyComms) = Len(job.early)
      BY <2>1, EarlyFacts
    <2> QED
      BY <2>1, <2>2, <2>3, Appended DEF CommsInv
  <1>7. CASE PlainOuterProve
    <2>1. ~job.zk /\ job' = job /\ stage = "plain_outer" /\ DOMAIN proof = InstanceFields
      BY <1>7 DEF PlainOuterProve, StageInv, PlainStages, FieldsInv
    <2>2. \E sent : Grows(proof, proof', sent)
      <3>1. PICK tau, x, fresh : OuterWith(channel, Multiply(S.A, Z), Multiply(S.B, Z), Multiply(S.C, Z),
                                           tau, x, fresh)
        BY <1>7, PlainOuterProveIs DEF OuterDone
      <3> QED
        BY <3>1 DEF OuterWith
    <2>3. proof'.comms = proof.comms
      BY <2>1, <2>2 DEF Grows, InstanceFields
    <2> QED
      BY <2>1, <2>3 DEF CommsInv
  <1>8. CASE PlainInnerProve
    <2>1. ~job.zk /\ job' = job /\ stage = "plain_inner"
          /\ DOMAIN proof = InstanceFields \cup OuterFields
      BY <1>8 DEF PlainInnerProve, StageInv, PlainStages, FieldsInv
    <2>2. proof' = proof \/ \E sent : Grows(proof, proof', sent)
      BY <1>8, PlainInnerProveIs DEF PlainInnerDone
    <2>3. proof'.comms = proof.comms
      BY <2>1, <2>2 DEF Grows, InstanceFields
    <2> QED
      BY <2>1, <2>3 DEF CommsInv
  <1>9. CASE InstanceVerify \/ PlainOuterVerify \/ PlainInnerVerify
    <2>1. UNCHANGED <<job, proof>> /\ stage \notin {"instance", "failed"}
      BY <1>9 DEF InstanceVerify, PlainOuterVerify, PlainInnerVerify
    <2> QED
      BY <2>1 DEF CommsInv
  <1> QED
    BY <1>1, <1>2, <1>3, <1>4, <1>5, <1>6, <1>7, <1>8, <1>9 DEF Next, PlainNext

(* Where an outer sum-check leaves the channel. *)
LEMMA OuterReaches ==
  ASSUME StageInv, NEW b, ChannelOK(b), NEW claims,
         NEW tau \in [1 .. num_rounds_x -> Field], NEW x \in [1 .. num_rounds_x -> Field],
         NEW fresh \in Field
  PROVE  /\ ChannelOK(OuterEnd(b, claims, tau, x, fresh))
         /\ SeenBy(b) \subseteq Fixed(OuterEnd(b, claims, tau, x, fresh))
  <1>1. num_rounds_x \in Nat
    BY Sizes DEF StageInv
  <1>2. OuterKept(b, claims, tau, x, fresh, num_rounds_x)
    BY <1>1, OuterFacts
  <1> DEFINE d == OuterEnd(b, claims, tau, x, fresh)
  <1>3. AsksFor(b, d, {})
    BY <1>2, Zenon DEF OuterKept
  <1> HIDE DEF d
  <1>4. ChannelOK(d) /\ SeenBy(b) \subseteq Fixed(d)
    BY <1>3 DEF AsksFor, Follows, Extends
  <1> QED
    BY <1>4 DEF d

LEMMA InnerReaches ==
  ASSUME StageInv, ChannelOK(channel), NEW y \in [1 .. num_rounds_y -> Field], NEW v, NEW w
  PROVE  ChannelOK(InnerRounds(channel, y)) /\ ChannelOK(InnerEnd(channel, y, v, w))
  <1>1. num_rounds_y \in Nat
    BY Sizes DEF StageInv
  <1>2. InnerKept(channel, y, v, w, num_rounds_y)
    BY <1>1, InnerFacts
  <1> QED
    BY <1>2 DEF InnerKept, Follows, Extends

LEMMA OpenedReaches ==
  ASSUME ChannelOK(channel), NEW u, NEW X
  PROVE  ChannelOK(Opened(channel, u, X))
  <1>1. PutsTwo(channel, Opened(channel, u, X), "u_relaxed", u, "X_relaxed", X)
    BY PutTwoFacts DEF Opened
  <1> QED
    BY <1>1 DEF PutsTwo

(* Each step keeps BoundInv. *)
LEMMA BoundFold ==
  ASSUME ArgumentInv, FoldProve \/ FoldVerify
  PROVE  BoundInv'
  <1>1. ChannelOK(channel)
    BY DEF ArgumentInv, BoundInv
  <1>2. AsksFor(channel, channel', FoldEntries(proof'.random_U, proof'.U2, proof'.comm_T))
    <2>1. CASE FoldProve
      <3>1. PICK r_T \in Blinds(NumRows(S.num_cons)), fresh \in Field : FoldDone(r_T, fresh)
        BY <2>1, FoldProveIs DEF ArgumentInv
      <3>2. channel' = FoldChallenge(channel, proof'.random_U, proof'.U2, proof'.comm_T, fresh)
        BY <3>1, Zenon DEF FoldDone
      <3> QED
        BY <1>1, <3>2, FoldChallengeFacts
    <2>2. CASE FoldVerify
      <3>1. PICK fresh \in Field :
              channel' = FoldChallenge(channel, proof.random_U, proof.U2, proof.comm_T, fresh)
        BY <2>2, FoldVerifyIs DEF ArgumentInv
      <3>2. proof' = proof
        BY <2>2 DEF FoldVerify
      <3> QED
        BY <1>1, <3>1, <3>2, FoldChallengeFacts
    <2> QED
      BY <2>1, <2>2
  <1>3. ChannelOK(channel')
        /\ FoldEntries(proof'.random_U, proof'.U2, proof'.comm_T) \subseteq Fixed(channel')
    BY <1>2 DEF AsksFor, Follows, Extends
  <1>4. stage' \in {"outer", "verify_outer", "rejected"}
    BY DEF FoldProve, FoldVerify, Continue
  <1>5. BoundInv'
    <2>1. /\ stage' # "accepted" /\ stage' \notin {"plain_outer", "verify_plain_outer"}
          /\ stage' \notin {"plain_inner", "verify_plain_inner"}
      BY <1>4
    <2> QED
      BY <1>3, <2>1 DEF BoundInv
  <1> QED
    BY <1>5

(* Steps after which only the channel itself matters. *)
LEMMA BoundElsewhere ==
  ASSUME ChannelOK(channel'),
         stage' \in {"inner", "combine", "open", "verify_fold", "verify_instance", "failed",
                     "verify_inner", "verify_combine", "verify_open", "rejected"}
  PROVE  BoundInv'
  <1>1. /\ stage' # "accepted" /\ stage' \notin {"plain_outer", "verify_plain_outer"}
        /\ stage' \notin {"plain_inner", "verify_plain_inner"} /\ stage' \notin {"outer", "verify_outer"}
    OBVIOUS
  <1> QED
    BY <1>1 DEF BoundInv

LEMMA BoundZk ==
  ASSUME ArgumentInv, OuterProve \/ InnerProve \/ Combine \/ OuterVerify \/ InnerVerify \/ CombineVerify
  PROVE  BoundInv'
  <1>1. ChannelOK(channel)
    BY DEF ArgumentInv, BoundInv
  <1> USE DEF ArgumentInv
  <1>2. CASE OuterProve
    <2> DEFINE z == Join(folded.W, folded.u, folded.X)
               b == Opened(channel, folded.u, folded.X)
               Az == Multiply(S.A, z)
               Bz == Multiply(S.B, z)
               Cz == RelaxedCz(z)
    <2>1. OuterDone(b, Az, Bz, Cz)
      BY <1>2, OuterProveIs
    <2>2. ChannelOK(b)
      BY <1>1, OpenedReaches
    <2> HIDE DEF b, Az, Bz, Cz
    <2>3. PICK tau \in [1 .. num_rounds_x -> Field], x \in [1 .. num_rounds_x -> Field],
               fresh \in Field : OuterWith(b, Az, Bz, Cz, tau, x, fresh)
      BY <2>1 DEF OuterDone
    <2>4. \E claims : channel' = OuterEnd(b, claims, tau, x, fresh)
      BY <2>3 DEF OuterWith
    <2>5. ChannelOK(channel')
      BY <2>2, <2>3, <2>4, OuterReaches
    <2> QED
      BY <1>2, <2>5, BoundElsewhere DEF OuterProve
  <1>3. CASE InnerProve
    <2>1. PICK y \in [1 .. num_rounds_y -> Field] : \E v, w : channel' = InnerEnd(channel, y, v, w)
      BY <1>3, InnerProveIs
    <2>2. ChannelOK(channel')
      BY <1>1, <2>1, InnerReaches
    <2> QED
      BY <1>3, <2>2, BoundElsewhere DEF InnerProve
  <1>4. CASE Combine \/ CombineVerify
    <2>1. PICK fresh \in Field : channel' = ClaimChallenge(channel, fresh)
      BY <1>4, CombineIs, CombineVerifyIs
    <2>2. ChannelOK(channel')
      BY <1>1, <2>1, ClaimFacts DEF ClaimKept, Follows, Extends
    <2> QED
      BY <1>4, <2>2, BoundElsewhere DEF Combine, CombineVerify
  <1>5. CASE OuterVerify
    <2> DEFINE b == Opened(channel, U.u, U.X)
    <2>1. PICK tau \in [1 .. num_rounds_x -> Field], x \in [1 .. num_rounds_x -> Field],
               fresh \in Field : channel' = OuterEnd(b, proof.claims, tau, x, fresh)
      BY <1>5, OuterVerifyIs
    <2>2. ChannelOK(b)
      BY <1>1, OpenedReaches
    <2> HIDE DEF b
    <2>3. ChannelOK(channel')
      BY <2>1, <2>2, OuterReaches
    <2> QED
      BY <1>5, <2>3, BoundElsewhere DEF OuterVerify, Continue
  <1>6. CASE InnerVerify
    <2>1. PICK y \in [1 .. num_rounds_y -> Field] : \E v, w : channel' = InnerEnd(channel, y, v, w)
      BY <1>6, InnerVerifyIs
    <2>2. ChannelOK(channel')
      BY <1>1, <2>1, InnerReaches
    <2> QED
      BY <1>6, <2>2, BoundElsewhere DEF InnerVerify, Continue
  <1> QED
    BY <1>2, <1>3, <1>4, <1>5, <1>6

LEMMA BoundOpen ==
  ASSUME ArgumentInv, Open \/ OpenVerify
  PROVE  BoundInv'
  <1>1. ChannelOK(channel)
    BY DEF ArgumentInv, BoundInv
  <1>2. CASE Open
    <2>1. PICK mask \in Masks(Size(ColumnWeights(claim.point))), fresh \in Field : OpenDone(mask, fresh)
      BY <1>2, OpenIs DEF ArgumentInv
    <2>2. PICK comm, comm_a, comm_c, messages :
            LET d == OpenedAt(channel, comm, comm_a, comm_c, messages, fresh)
            IN  channel' = NewChannel(d.oracle, d.answers)
      BY <2>1 DEF OpenDone
    <2> DEFINE d == OpenedAt(channel, comm, comm_a, comm_c, messages, fresh)
    <2>3. OpenKept(channel, d, comm, comm_a, comm_c, messages)
      BY <1>1, OpenFacts
    <2> HIDE DEF d
    <2>4. ChannelOK(d)
      BY <2>3 DEF OpenKept, AsksFor, Follows, Extends
    <2>5. ChannelOK(NewChannel(d.oracle, d.answers))
      BY <2>4, NewChannelOK DEF ChannelOK
    <2>6. ChannelOK(channel')
      BY <2>2, <2>5 DEF d
    <2>7. stage' \in {"verify_fold", "verify_instance"}
      BY <1>2 DEF Open
    <2> QED
      BY <2>6, <2>7, BoundElsewhere
  <1>3. CASE OpenVerify
    <2>1. PICK fresh \in Field :
            channel' = OpenedAt(channel, U.comm, BoundCommitment(U.comm, U.point), U.comm_eval[0],
                                proof.messages, fresh)
      BY <1>3, OpenVerifyIs DEF ArgumentInv
    <2>2. AsksFor(channel, channel', {<<"poly_com", U.comm>>} \cup OpeningEntries(proof.messages))
      BY <1>1, <2>1, OpenFacts DEF OpenKept
    <2>3. ChannelOK(channel')
          /\ {<<"poly_com", U.comm>>} \cup OpeningEntries(proof.messages) \subseteq Fixed(channel')
      BY <2>2 DEF AsksFor, Follows, Extends
    <2>4. stage' \in {"accepted", "rejected"} /\ UNCHANGED <<proof, U>>
      BY <1>3 DEF OpenVerify, Continue
    <2>5. {<<"poly_com", U'.comm>>} \cup OpeningEntries(proof'.messages) \subseteq Fixed(channel')
      BY <2>3, <2>4 DEF OpeningEntries
    <2>6. /\ stage' \notin {"outer", "verify_outer"} /\ stage' \notin {"plain_outer", "verify_plain_outer"}
          /\ stage' \notin {"plain_inner", "verify_plain_inner"}
      BY <2>4
    <2> QED
      BY <2>3, <2>5, <2>6 DEF BoundInv
  <1> QED
    BY <1>2, <1>3

LEMMA BoundInstance ==
  ASSUME ArgumentInv, InstanceProve \/ InstanceVerify, CommsInv'
  PROVE  BoundInv'
  <1> USE DEF ArgumentInv
  <1>0. ~job.zk /\ job' = job
    BY DEF InstanceProve, InstanceVerify, StageInv, PlainStages
  <1>1. ChannelOK(channel) /\ job.num_challenges \in Nat
    BY <1>0, Sizes DEF StageInv, BoundInv
  <1> DEFINE n == Len(job.early)
  <1>2. n \in Nat /\ IsSequence(EarlyComms) /\ Len(EarlyComms) = n
    BY <1>0, EarlyFacts
  <1>3. InstanceAbsorbed(channel', proof'.public_values, proof'.comms, n, job.num_challenges)
    <2>1. CASE InstanceProve
      <3>1. PICK fresh \in [1 .. job.num_challenges -> Field] : InstanceDone(fresh)
        BY <2>1, InstanceProveIs
      <3> DEFINE challenges == Latest(Challenged(Begun(job.public), EarlyComms, fresh), job.num_challenges)
                 comm_rest == Commit(job.rest[challenges], job.r_rest)
                 last == [label |-> "comm_W_rest", comm |-> comm_rest]
      <3>2. /\ channel' = Put(Challenged(Begun(job.public), EarlyComms, fresh), "comm_W_rest", comm_rest)
            /\ proof' = [public_values |-> job.public, challenges |-> challenges,
                         comms |-> Append(EarlyComms, last)]
        BY <3>1, Zenon DEF InstanceDone
      <3>3. last.label = "comm_W_rest" /\ last.comm = comm_rest
        OBVIOUS
      <3> HIDE DEF last, challenges, comm_rest, n
      <3>4. proof'.public_values = job.public /\ proof'.comms = Append(EarlyComms, last)
        BY <3>2
      <3>5. (\A i \in 1 .. n : proof'.comms[i] = EarlyComms[i]) /\ proof'.comms[n + 1] = last
        BY <1>2, <3>4, Appended
      <3>6. channel' = Put(Challenged(Begun(proof'.public_values), EarlyComms, fresh),
                           proof'.comms[n + 1].label, proof'.comms[n + 1].comm)
        BY <3>2, <3>3, <3>4, <3>5
      <3> QED
        BY <1>1, <1>2, <3>5, <3>6, InstanceFacts
    <2>2. CASE InstanceVerify
      <3>1. PICK fresh \in [1 .. job.num_challenges -> Field] : InstanceChecked(fresh)
        BY <2>2, InstanceVerifyIs
      <3>2. UNCHANGED proof
        BY <2>2 DEF InstanceVerify
      <3> DEFINE early == SubSeq(proof.comms, 1, n)
      <3>3. channel' = Put(Challenged(Begun(proof.public_values), early, fresh),
                           proof.comms[n + 1].label, proof.comms[n + 1].comm)
        BY <3>1, Zenon DEF InstanceChecked
      <3>4. CutFrom(SubSeq(proof.comms, 0 + 1, 0 + n), proof.comms, 0, n)
        BY <1>2, Cut
      <3>5. 0 + 1 = 1 /\ 0 + n = n /\ \A i \in 1 .. n : 0 + i = i
        BY <1>2
      <3>6. IsSequence(early) /\ Len(early) = n /\ \A i \in 1 .. n : proof.comms[i] = early[i]
        BY <3>4, <3>5 DEF CutFrom
      <3> HIDE DEF n, early
      <3>7. InstanceAbsorbed(channel', proof.public_values, proof.comms, n, job.num_challenges)
        BY <1>1, <1>2, <3>3, <3>6, InstanceFacts
      <3> QED
        BY <3>2, <3>7
    <2> QED
      BY <2>1, <2>2
  <1>4. stage' \in {"plain_outer", "verify_plain_outer", "rejected"}
    BY DEF InstanceProve, InstanceVerify, Continue
  <1>5. /\ ChannelOK(channel') /\ InstanceEntries' \subseteq SeenBy(channel')
        /\ job'.num_challenges > 0 =>
             {<<"public_values", proof'.public_values>>} \cup EarlyEntries' \subseteq Fixed(channel')
    BY <1>0, <1>3 DEF InstanceAbsorbed, InstanceEntries, EarlyEntries
  <1>6. /\ stage' # "accepted" /\ stage' \notin {"outer", "verify_outer"}
        /\ stage' \notin {"plain_inner", "verify_plain_inner"}
    BY <1>4
  <1> QED
    BY <1>5, <1>6 DEF BoundInv

LEMMA BoundPlain ==
  ASSUME ArgumentInv, PlainOuterProve \/ PlainInnerProve \/ PlainOuterVerify \/ PlainInnerVerify
  PROVE  BoundInv'
  <1> USE DEF ArgumentInv
  <1>1. ChannelOK(channel)
    BY DEF BoundInv
  <1>2. CASE PlainOuterProve \/ PlainOuterVerify
    <2>1. \E tau, x \in [1 .. num_rounds_x -> Field], fresh \in Field, claims \in {proof'.claims, proof.claims} :
            channel' = OuterEnd(channel, claims, tau, x, fresh)
      <3>1. CASE PlainOuterProve
        <4>1. PICK tau \in [1 .. num_rounds_x -> Field], x \in [1 .. num_rounds_x -> Field],
                   fresh \in Field :
                OuterWith(channel, Multiply(S.A, Z), Multiply(S.B, Z), Multiply(S.C, Z), tau, x, fresh)
          BY <3>1, PlainOuterProveIs DEF OuterDone
        <4>2. channel' = OuterEnd(channel, proof'.claims, tau, x, fresh)
          BY <4>1 DEF OuterWith
        <4> QED
          BY <4>2
      <3>2. CASE PlainOuterVerify
        BY <3>2, PlainOuterVerifyIs
      <3> QED
        BY <1>2, <3>1, <3>2
    <2>2. ChannelOK(channel') /\ SeenBy(channel) \subseteq Fixed(channel')
      BY <1>1, <2>1, OuterReaches
    <2>3. InstanceEntries \subseteq SeenBy(channel)
      BY <1>2 DEF PlainOuterProve, PlainOuterVerify, BoundInv
    <2>4. /\ job' = job /\ proof'.public_values = proof.public_values /\ proof'.comms = proof.comms
      <3>1. CASE PlainOuterProve
        <4>1. PICK tau, x, fresh : OuterWith(channel, Multiply(S.A, Z), Multiply(S.B, Z),
                                             Multiply(S.C, Z), tau, x, fresh)
          BY <3>1, PlainOuterProveIs DEF OuterDone
        <4>2. \E sent : Grows(proof, proof', sent)
          BY <4>1 DEF OuterWith
        <4>3. DOMAIN proof = InstanceFields /\ job' = job
          BY <3>1 DEF PlainOuterProve, FieldsInv
        <4> QED
          BY <4>2, <4>3 DEF Grows, InstanceFields
      <3>2. CASE PlainOuterVerify
        BY <3>2 DEF PlainOuterVerify
      <3> QED
        BY <1>2, <3>1, <3>2
    <2>5. InstanceEntries' \subseteq Fixed(channel')
      BY <2>2, <2>3, <2>4 DEF InstanceEntries
    <2>6. stage' \in {"plain_inner", "verify_plain_inner", "rejected"}
      BY <1>2 DEF PlainOuterProve, PlainOuterVerify, Continue
    <2>7. /\ stage' # "accepted" /\ stage' \notin {"outer", "verify_outer"}
          /\ stage' \notin {"plain_outer", "verify_plain_outer"}
      BY <2>6
    <2> QED
      BY <2>2, <2>5, <2>7 DEF BoundInv
  <1>3. CASE PlainInnerProve \/ PlainInnerVerify
    <2>1. PICK y \in [1 .. num_rounds_y -> Field] : channel' = InnerRounds(channel, y)
      <3>1. CASE PlainInnerProve
        <4>1. PICK y \in [1 .. num_rounds_y -> Field] : PlainInnerDone(y)
          BY <3>1, PlainInnerProveIs
        <4>2. channel' = InnerRounds(channel, y)
          BY <4>1, Zenon DEF PlainInnerDone
        <4> QED
          BY <4>2
      <3> QED
        BY <1>3, <3>1, PlainInnerVerifyIs
    <2>2. ChannelOK(channel')
      BY <1>1, <2>1, InnerReaches
    <2>3. stage' \in {"failed", "open", "verify_open", "rejected"}
      BY <1>3 DEF PlainInnerProve, PlainInnerVerify, Continue
    <2> QED
      BY <2>2, <2>3, BoundElsewhere
  <1> QED
    BY <1>2, <1>3

LEMMA ArgumentInvInit ==
  ASSUME Init
  PROVE  ArgumentInv
  <1>1. StageInv
    BY JobsAssumption DEF Init, StageInv, ZkStages, PlainStages
  <1>2. stage = "fold" \/ (stage = "instance" /\ ~job.zk)
    BY JobsAssumption DEF Init
  <1>3. FieldsInv /\ CommsInv
    <2>1. stage = "fold" => job.zk
      BY <1>1 DEF StageInv, ZkStages
    <2> QED
      BY <1>2, <2>1 DEF FieldsInv, CommsInv
  <1>4. ChannelOK(channel)
    <2>1. OracleOK(<<>>) /\ <<>> \in Seq(Field) /\ Len(<<>>) = Len(<<>>)
      BY EmptyIsSequence DEF OracleOK
    <2>2. ChannelOK(NewChannel(<<>>, <<>>))
      BY <2>1, NewChannelOK
    <2> QED
      BY <2>2 DEF Init
  <1>5. BoundInv
    BY <1>2, <1>4 DEF BoundInv
  <1> QED
    BY <1>1, <1>3, <1>5 DEF ArgumentInv

LEMMA ArgumentInvStep ==
  ASSUME ArgumentInv, [Next \/ PlainNext]_vars
  PROVE  ArgumentInv'
  <1>1. StageInv' /\ FieldsInv' /\ CommsInv'
    BY StageStep, FieldsStep, CommsStep DEF ArgumentInv
  <1>2. CASE UNCHANGED vars
    <2>1. BoundInv
      BY DEF ArgumentInv
    <2>2. UNCHANGED <<job, stage, channel, proof, U>>
      BY <1>2 DEF vars
    <2>3. EarlyEntries' = EarlyEntries /\ InstanceEntries' = InstanceEntries
      BY <2>2 DEF EarlyEntries, InstanceEntries
    <2>4. BoundInv'
      BY <2>1, <2>2, <2>3 DEF BoundInv
    <2> QED
      BY <1>1, <2>4 DEF ArgumentInv
  <1>3. CASE Next \/ PlainNext
    <2>1. ASSUME FoldProve \/ FoldVerify PROVE BoundInv'
      BY <2>1, BoundFold
    <2>2. ASSUME OuterProve \/ InnerProve \/ Combine \/ OuterVerify \/ InnerVerify \/ CombineVerify PROVE BoundInv'
      BY <2>2, BoundZk
    <2>3. ASSUME Open \/ OpenVerify PROVE BoundInv'
      BY <2>3, BoundOpen
    <2>4. ASSUME InstanceProve \/ InstanceVerify PROVE BoundInv'
      BY <1>1, <2>4, BoundInstance
    <2>5. ASSUME PlainOuterProve \/ PlainInnerProve \/ PlainOuterVerify \/ PlainInnerVerify PROVE BoundInv'
      BY <2>5, BoundPlain
    <2>6. BoundInv'
      BY <1>3, <2>1, <2>2, <2>3, <2>4, <2>5 DEF Next, PlainNext
    <2> QED
      BY <1>1, <2>6 DEF ArgumentInv
  <1> QED
    BY <1>2, <1>3

(* What is among the absorbed entries of the queries before the last        *)
(* challenge is bound to it.                                                *)
LEMMA FixedIsAbsorbed ==
  ASSUME NEW x \in Fixed(channel)
  PROVE  Absorbed(x)
  <1>1. PICK query \in Ancestry(channel.oracle, channel.t.state) : x \in Range(query.absorbed)
    BY DEF Fixed, AbsorbedBefore
  <1>2. PICK i \in DOMAIN query.absorbed : x = query.absorbed[i]
    BY <1>1 DEF Range
  <1> QED
    BY <1>1, <1>2 DEF Absorbed

LEMMA ArgumentInvariant == ArgumentSpec => []ArgumentInv
  <1>1. Init => ArgumentInv
    BY ArgumentInvInit
  <1>2. ArgumentInv /\ [Next \/ PlainNext]_vars => ArgumentInv'
    BY ArgumentInvStep
  <1> QED
    BY <1>1, <1>2, PTL DEF ArgumentSpec

(* What is folded is in what the challenge of the fold depends on, and what *)
(* is opened last, with the first messages of its argument, in what the     *)
(* challenge of that argument does, for the provers and for the verifiers:  *)
(* for all shapes, widths and points, and whatever the oracle answers       *)
(* (nifs.rs, hyrax_pc.rs, ipa.rs).                                          *)
THEOREM OpenedCommitmentsAreAlwaysBound == ArgumentSpec => []OpenedCommitmentsAreBound
  <1>1. ArgumentInv => OpenedCommitmentsAreBound
    <2> SUFFICES ASSUME ArgumentInv PROVE OpenedCommitmentsAreBound
      OBVIOUS
    <2>1. BoundInv
      BY DEF ArgumentInv
    <2>2. ASSUME stage \in {"outer", "verify_outer"}
          PROVE  /\ Absorbed(<<"U1", proof.random_U>>)
                 /\ Absorbed(<<"U2", proof.U2>>)
                 /\ Absorbed(<<"comm_T", proof.comm_T>>)
      BY <2>1, <2>2, FixedIsAbsorbed DEF BoundInv, FoldEntries
    <2>3. ASSUME stage = "accepted"
          PROVE  /\ Absorbed(<<"poly_com", U.comm>>)
                 /\ Absorbed(<<"delta", proof.messages.delta>>)
                 /\ Absorbed(<<"beta", proof.messages.beta>>)
      BY <2>1, <2>3, FixedIsAbsorbed DEF BoundInv, OpeningEntries
    <2> QED
      BY <2>2, <2>3 DEF OpenedCommitmentsAreBound
  <1> QED
    BY <1>1, ArgumentInvariant, PTL

(* Without zero knowledge, a challenge of the circuit depends on the public *)
(* values and on the commitments made before it, and those of the inner     *)
(* sum-check on the whole instance, for the prover and for the verifier     *)
(* (vega_sc.rs, bellpepper/r1cs.rs).                                        *)
THEOREM InstanceIsAlwaysBound == ArgumentSpec => []InstanceIsBound
  <1>1. ArgumentInv => InstanceIsBound
    <2> SUFFICES ASSUME ArgumentInv PROVE InstanceIsBound
      OBVIOUS
    <2>1. BoundInv /\ StageInv /\ CommsInv
      BY DEF ArgumentInv
    <2>2. ASSUME stage \in {"plain_outer", "verify_plain_outer"}, job.num_challenges > 0
          PROVE  /\ Absorbed(<<"public_values", proof.public_values>>)
                 /\ \A i \in DOMAIN job.early : Absorbed(<<proof.comms[i].label, proof.comms[i].comm>>)
      <3>1. ~job.zk
        BY <2>1, <2>2 DEF StageInv, PlainStages
      <3>2. DOMAIN job.early = 1 .. Len(job.early)
        BY <2>1, <3>1, EarlyFacts
      <3>3. {<<"public_values", proof.public_values>>} \cup EarlyEntries \subseteq Fixed(channel)
        BY <2>1, <2>2 DEF BoundInv
      <3> QED
        BY <3>2, <3>3, FixedIsAbsorbed DEF EarlyEntries
    <2>3. ASSUME stage \in {"plain_inner", "verify_plain_inner"}
          PROVE  /\ Absorbed(<<"public_values", proof.public_values>>)
                 /\ \A i \in DOMAIN proof.comms : Absorbed(<<proof.comms[i].label, proof.comms[i].comm>>)
      <3>1. ~job.zk /\ stage \notin {"instance", "failed"}
        BY <2>1, <2>3 DEF StageInv, PlainStages
      <3>2. IsSequence(proof.comms) /\ Len(proof.comms) = Len(job.early) + 1
        BY <2>1, <3>1 DEF CommsInv
      <3>3. DOMAIN proof.comms = 1 .. Len(job.early) + 1
        BY <3>2, SequenceFacts
      <3>4. InstanceEntries \subseteq Fixed(channel)
        BY <2>1, <2>3 DEF BoundInv
      <3> QED
        BY <3>3, <3>4, FixedIsAbsorbed DEF InstanceEntries
    <2> QED
      BY <2>2, <2>3 DEF InstanceIsBound
  <1> QED
    BY <1>1, ArgumentInvariant, PTL

-----------------------------------------------------------------------------
(* Commitments and their folds                                              *)

LEMMA WidthFacts == Width \in Nat \ {0} /\ \A n \in Nat : NumRows(n) \in Nat
  <1>1. Width \in Nat \ {0}
    BY WidthAssumption
  <1> QED
    BY <1>1, CeilingCovers DEF NumRows

(* Row i of the commitment to v with blinds r. *)
CommittedRow(v, r, i) == [v |-> [j \in 0 .. Width - 1 |-> At(v, i * Width + j)], b |-> r[i]]

LEMMA RowIs ==
  ASSUME NEW v, DOMAIN v = 0 .. Width - 1, NEW b
  PROVE  Row(v, b) = [v |-> [j \in 0 .. Width - 1 |-> v[j]], b |-> b]
  <1>1. Width \in Nat \ {0}
    BY WidthFacts
  <1>2. Size(v) = Width
    BY <1>1, SizeIs
  <1>3. Padded(v, Width) = [j \in 0 .. Width - 1 |-> v[j]]
    <2>1. \A j \in 0 .. Width - 1 : At(v, j) = v[j]
      BY <1>1, <1>2 DEF At
    <2> QED
      BY <2>1 DEF Padded
  <1> QED
    BY <1>3, Zenon DEF Row

LEMMA CommitIs ==
  ASSUME NEW n \in Nat, NEW v, DOMAIN v = 0 .. n - 1, NEW r
  PROVE  Commit(v, r) = [i \in 0 .. NumRows(n) - 1 |-> CommittedRow(v, r, i)]
  <1>1. Size(v) = n
    BY SizeIs
  <1>2. ASSUME NEW i
        PROVE  Row([j \in 0 .. Width - 1 |-> At(v, i * Width + j)], r[i]) = CommittedRow(v, r, i)
    <2> DEFINE w == [j \in 0 .. Width - 1 |-> At(v, i * Width + j)]
    <2>1. DOMAIN w = 0 .. Width - 1 /\ [j \in 0 .. Width - 1 |-> w[j]] = w
      OBVIOUS
    <2>2. CommittedRow(v, r, i) = [v |-> w, b |-> r[i]]
      BY Zenon DEF CommittedRow
    <2> HIDE DEF w
    <2>3. Row(w, r[i]) = [v |-> w, b |-> r[i]]
      BY <2>1, RowIs
    <2> QED
      BY <2>2, <2>3 DEF w
  <1>3. Commit(v, r) = [i \in 0 .. NumRows(n) - 1 |->
                          Row([j \in 0 .. Width - 1 |-> At(v, i * Width + j)], r[i])]
    BY <1>1, Zenon DEF Commit
  <1> QED
    BY <1>2, <1>3

LEMMA CommitSize ==
  ASSUME NEW n \in Nat, NEW v, DOMAIN v = 0 .. n - 1, NEW r
  PROVE  DOMAIN Commit(v, r) = 0 .. NumRows(n) - 1 /\ Size(Commit(v, r)) = NumRows(n)
  <1>1. Commit(v, r) = [i \in 0 .. NumRows(n) - 1 |-> CommittedRow(v, r, i)]
    BY CommitIs
  <1>2. DOMAIN Commit(v, r) = 0 .. NumRows(n) - 1
    BY <1>1
  <1> QED
    BY <1>2, WidthFacts, SizeIs

(* The commitments to k vectors of one length. *)
Committed(comms, vectors, blinds, k) == comms = [i \in 1 .. k |-> Commit(vectors[i], blinds[i])]

(* The fold of the commitments is the commitment to the folded vectors with *)
(* the folded blinds, row by row, for any number of vectors, of any length: *)
(* what the verifier of an opening relies on (hyrax_pc.rs:762-818).         *)
THEOREM FoldCommitmentsIs ==
  ASSUME NEW k \in Nat \ {0}, NEW n \in Nat, NEW weights, NEW vectors, NEW blinds, NEW comms,
         Weighed(weights, vectors, k, n), Weighed(weights, blinds, k, NumRows(n)),
         Committed(comms, vectors, blinds, k)
  PROVE  fold_commitments(comms, weights)
           = Commit(fold_vectors(vectors, weights), fold_blinds(blinds, weights))
  <1> DEFINE F == fold_vectors(vectors, weights)
             B == fold_blinds(blinds, weights)
             m == NumRows(n)
             rows(row) == [i \in 1 .. k |-> comms[i][row]]
  <1>0. m \in Nat /\ Width \in Nat \ {0}
    BY WidthFacts
  <1>1. F = [j \in 0 .. n - 1 |-> SumWeighted(weights, vectors, k, j)] /\ F \in Vectors(n)
    BY FoldVectorsIs
  <1>2. B = [j \in 0 .. m - 1 |-> SumWeighted(weights, blinds, k, j)] /\ B \in Vectors(m)
    BY <1>0, FoldVectorsIs DEF fold_blinds
  <1> HIDE DEF F, B
  <1>3. DOMAIN F = 0 .. n - 1 /\ Size(F) = n
    BY <1>1, VectorSize
  <1>4. Commit(F, B) = [row \in 0 .. m - 1 |-> CommittedRow(F, B, row)]
    BY <1>3, CommitIs
  <1>5. ASSUME NEW i \in 1 .. k
        PROVE  /\ DOMAIN vectors[i] = 0 .. n - 1 /\ Size(vectors[i]) = n
               /\ comms[i] = [row \in 0 .. m - 1 |-> CommittedRow(vectors[i], blinds[i], row)]
    <2>1. vectors[i] \in Vectors(n) /\ comms[i] = Commit(vectors[i], blinds[i])
      BY DEF Weighed, Committed
    <2>2. DOMAIN vectors[i] = 0 .. n - 1 /\ Size(vectors[i]) = n
      BY <2>1, VectorSize
    <2>3. Commit(vectors[i], blinds[i]) = [row \in 0 .. m - 1 |-> CommittedRow(vectors[i], blinds[i], row)]
      <3> DEFINE v == vectors[i]
                 r == blinds[i]
      <3>1. DOMAIN v = 0 .. n - 1
        BY <2>2
      <3> HIDE DEF v, r
      <3>2. Commit(v, r) = [row \in 0 .. m - 1 |-> CommittedRow(v, r, row)]
        BY <3>1, CommitIs
      <3> QED
        BY <3>2 DEF v, r
    <2> QED
      BY <2>1, <2>2, <2>3
  <1>6. 1 \in 1 .. k /\ DOMAIN comms = 1 .. k
    BY DEF Committed
  <1>7. DOMAIN comms[1] = 0 .. m - 1
    BY <1>5, <1>6
  <1>8. fold_commitments(comms, weights) = [row \in 0 .. m - 1 |-> Combination(rows(row), weights)]
    BY <1>6, <1>7, Zenon DEF fold_commitments
  <1>9. ASSUME NEW row \in 0 .. m - 1
        PROVE  Combination(rows(row), weights) = CommittedRow(F, B, row)
    <2> DEFINE R == rows(row)
               at(i, j) == At(vectors[i], row * Width + j)
               v(j) == [i \in 0 .. k - 1 |-> Times(weights[i + 1], R[i + 1].v[j])]
               b == [i \in 0 .. k - 1 |-> Times(weights[i + 1], R[i + 1].b)]
    <2>1. Len(R) = k
      BY FunctionIsSequence
    <2>2. ASSUME NEW i \in 1 .. k
          PROVE  /\ \A j \in 0 .. Width - 1 : R[i].v[j] = at(i, j)
                 /\ R[i].b = blinds[i][row]
      <3>1. R[i] = CommittedRow(vectors[i], blinds[i], row)
        BY <1>5
      <3> HIDE DEF R
      <3>2. R[i] = [v |-> [j \in 0 .. Width - 1 |-> at(i, j)], b |-> blinds[i][row]]
        BY <3>1, Zenon DEF CommittedRow
      <3> HIDE DEF at
      <3>3. R[i].v = [j \in 0 .. Width - 1 |-> at(i, j)] /\ R[i].b = blinds[i][row]
        BY <3>2
      <3> QED
        BY <3>3
    <2>3. Combination(R, weights) = [v |-> [j \in 0 .. Width - 1 |-> SumOf(v(j))], b |-> SumOf(b)]
      BY <2>1, Zenon DEF Combination
    <2> HIDE DEF R
    <2>4. \A i \in 0 .. k - 1 : i + 1 \in 1 .. k
      OBVIOUS
    <2>5. SumOf(b) = B[row]
      <3>1. b = [i \in 0 .. k - 1 |-> Times(weights[i + 1], blinds[i + 1][row])]
        BY <2>2, <2>4
      <3>2. B[row] = SumWeighted(weights, blinds, k, row)
        BY <1>2
      <3> QED
        BY <3>1, <3>2, Zenon DEF SumWeighted
    <2>6. ASSUME NEW j \in 0 .. Width - 1 PROVE SumOf(v(j)) = At(F, row * Width + j)
      <3> DEFINE x == row * Width + j
      <3>1. x \in Nat
        BY <1>0
      <3>2. v(j) = [i \in 0 .. k - 1 |-> Times(weights[i + 1], at(i + 1, j))]
        BY <2>2, <2>4
      <3>3. CASE x < n
        <4>1. At(F, x) = SumWeighted(weights, vectors, k, x)
          BY <1>1, <1>3, <3>1, <3>3 DEF At
        <4>2. \A i \in 1 .. k : at(i, j) = vectors[i][x]
          BY <1>5, <3>3 DEF At
        <4>3. v(j) = [i \in 0 .. k - 1 |-> Times(weights[i + 1], vectors[i + 1][x])]
          BY <2>4, <3>2, <4>2
        <4> HIDE DEF x
        <4> QED
          BY <4>1, <4>3, Zenon DEF SumWeighted, x
      <3>4. CASE ~(x < n)
        <4>1. At(F, x) = 0
          BY <1>3, <3>4 DEF At
        <4>2. \A i \in 1 .. k : at(i, j) = 0
          BY <1>5, <3>4 DEF At
        <4>3. v(j) = [i \in 0 .. k - 1 |-> Times(weights[i + 1], 0)]
          BY <2>4, <3>2, <4>2
        <4>4. \A i \in 1 .. k : weights[i] \in Field
          BY DEF Weighed
        <4> HIDE DEF v
        <4> QED
          BY <4>1, <4>3, <4>4, WeightedZeros
      <3> QED
        BY <3>3, <3>4
    <2> HIDE DEF v, b
    <2>7. [j \in 0 .. Width - 1 |-> SumOf(v(j))] = [j \in 0 .. Width - 1 |-> At(F, row * Width + j)]
      BY <2>6
    <2>8. CommittedRow(F, B, row) = [v |-> [j \in 0 .. Width - 1 |-> At(F, row * Width + j)], b |-> B[row]]
      BY Zenon DEF CommittedRow
    <2> QED
      BY <2>3, <2>5, <2>7, <2>8 DEF R
  <1> HIDE DEF rows
  <1>10. fold_commitments(comms, weights) = Commit(F, B)
    BY <1>4, <1>8, <1>9
  <1> QED
    BY <1>10 DEF F, B

(* Folding the first rows and making the others of the folded blind gives   *)
(* the fold of all rows if the vectors hold zeros after the prefix          *)
(* (hyrax_pc.rs:846-900).                                                   *)
THEOREM PartialFoldIs ==
  ASSUME NEW k \in Nat \ {0}, NEW n \in Nat, NEW weights, NEW vectors, NEW blinds, NEW comms,
         Weighed(weights, vectors, k, n), Weighed(weights, blinds, k, NumRows(n)),
         Committed(comms, vectors, blinds, k),
         NEW prefix \in Nat, \A i \in 1 .. k : \A j \in prefix .. n - 1 : vectors[i][j] = 0
  PROVE  fold_commitments_partial(comms, weights, NumRows(prefix), fold_blinds(blinds, weights))
           = fold_commitments(comms, weights)
  <1> DEFINE F == fold_vectors(vectors, weights)
             B == fold_blinds(blinds, weights)
             m == NumRows(n)
             d == NumRows(prefix)
             full == fold_commitments(comms, weights)
             part == fold_commitments_partial(comms, weights, d, B)
             rest(row) == Row([j \in {} |-> 0], B[row])
  <1>0. m \in Nat /\ Width \in Nat \ {0} /\ d \in Nat /\ prefix <= d * Width
    BY WidthFacts, CeilingCovers DEF NumRows
  <1>1. F = [j \in 0 .. n - 1 |-> SumWeighted(weights, vectors, k, j)] /\ F \in Vectors(n)
    BY FoldVectorsIs
  <1>2. full = Commit(F, B)
    BY FoldCommitmentsIs
  <1>3. DOMAIN F = 0 .. n - 1 /\ Size(F) = n
    <2> HIDE DEF F
    <2> QED
      BY <1>1, VectorSize
  <1>4. DOMAIN comms[1] = 0 .. m - 1
    <2>1. 1 \in 1 .. k
      OBVIOUS
    <2>2. comms[1] = Commit(vectors[1], blinds[1]) /\ vectors[1] \in Vectors(n)
      BY <2>1 DEF Committed, Weighed
    <2>3. DOMAIN vectors[1] = 0 .. n - 1
      BY <2>2, VectorSize
    <2> QED
      BY <2>2, <2>3, CommitSize
  <1>5. part = [row \in 0 .. m - 1 |-> IF row < d THEN full[row] ELSE rest(row)]
    BY <1>4, Zenon DEF fold_commitments_partial
  <1> HIDE DEF F, B, full, part
  <1>6. full = [row \in 0 .. m - 1 |-> CommittedRow(F, B, row)]
    BY <1>2, <1>3, CommitIs
  <1>7. ASSUME NEW row \in 0 .. m - 1, ~(row < d) PROVE rest(row) = full[row]
    <2> DEFINE w == [j \in {} |-> 0]
    <2>1. DOMAIN w = 0 .. 0 - 1
      OBVIOUS
    <2> HIDE DEF w
    <2>2. Size(w) = 0
      BY <2>1, SizeIs
    <2>3. Padded(w, Width) = [j \in 0 .. Width - 1 |-> 0]
      <3>1. \A j \in 0 .. Width - 1 : At(w, j) = 0
        BY <2>2, <1>0 DEF At
      <3> QED
        BY <3>1 DEF Padded
    <2>4. Row(w, B[row]) = [v |-> [j \in 0 .. Width - 1 |-> 0], b |-> B[row]]
      BY <2>3, Zenon DEF Row
    <2>5. ASSUME NEW j \in 0 .. Width - 1 PROVE At(F, row * Width + j) = 0
      <3> DEFINE x == row * Width + j
      <3>1. x \in Nat /\ x >= prefix
        <4>1. row \in Nat /\ d <= row
          BY <1>0, <1>7
        <4>2. d * Width <= row * Width
          <5> HIDE DEF d
          <5>1. row - d \in Nat /\ row = d + (row - d)
            BY <1>0, <4>1
          <5>2. row * Width = d * Width + (row - d) * Width /\ (row - d) * Width \in Nat /\ d * Width \in Nat
            BY <1>0, <5>1
          <5> QED
            BY <5>2
        <4>3. row * Width \in Nat /\ d * Width \in Nat
          BY <1>0, <4>1
        <4> QED
          BY <1>0, <4>2, <4>3
      <3>2. CASE x < n
        <4>1. x \in prefix .. n - 1 /\ x \in 0 .. n - 1
          BY <3>1, <3>2
        <4>2. At(F, x) = SumWeighted(weights, vectors, k, x)
          BY <1>1, <1>3, <3>2, <4>1 DEF At
        <4> HIDE DEF x
        <4>3. [i \in 0 .. k - 1 |-> Times(weights[i + 1], vectors[i + 1][x])]
                = [i \in 0 .. k - 1 |-> Times(weights[i + 1], 0)]
          <5>1. \A i \in 0 .. k - 1 : i + 1 \in 1 .. k
            OBVIOUS
          <5> QED
            BY <4>1, <5>1
        <4>4. \A i \in 1 .. k : weights[i] \in Field
          BY DEF Weighed
        <4>5. SumWeighted(weights, vectors, k, x) = 0
          BY <4>3, <4>4, WeightedZeros DEF SumWeighted
        <4> QED
          BY <4>2, <4>5 DEF x
      <3>3. CASE ~(x < n)
        BY <1>3, <3>3 DEF At
      <3> QED
        BY <3>2, <3>3
    <2>6. full[row] = CommittedRow(F, B, row)
      BY <1>6
    <2>7. CommittedRow(F, B, row) = [v |-> [j \in 0 .. Width - 1 |-> 0], b |-> B[row]]
      BY <2>5 DEF CommittedRow
    <2> QED
      BY <2>4, <2>6, <2>7 DEF w
  <1> HIDE DEF rest
  <1>8. \A row \in 0 .. m - 1 : (IF row < d THEN full[row] ELSE rest(row)) = full[row]
    BY <1>7
  <1>9. full = [row \in 0 .. m - 1 |-> full[row]]
    BY <1>6
  <1>10. part = full
    BY <1>5, <1>8, <1>9
  <1> QED
    BY <1>10 DEF part, full, B

-----------------------------------------------------------------------------
(* The weights of a point, and the row they combine                         *)

(* A point of 2^l entries in rows of c: whole rows, or a part of one.       *)
PointSplit(point, l, rows, c) ==
  /\ PointRows(point) = rows /\ rows \in Nat \ {0} /\ NumRows(PowerOfTwo[l]) = rows
  /\ c \in Nat /\ rows * c = PowerOfTwo[l]
  /\ RowWeights(point) \in Vectors(rows) /\ ColumnWeights(point) \in Vectors(c)
  /\ c = Width \/ (rows = 1 /\ c < Width)

-----------------------------------------------------------------------------
(* The claim of the provers with zero knowledge                             *)

(* A witness of n entries with one blind for each row. *)
IsOpening(W, r_W, n) == W \in Vectors(n) /\ r_W \in Vectors(NumRows(n))

(* A list of IsList is a sequence. *)
LEMMA ListIs ==
  ASSUME NEW s, IsList(s)
  PROVE  IsSequence(s) /\ Len(s) \in Nat /\ DOMAIN s = 1 .. Len(s)
  <1>1. IsSequence(s)
    BY Zenon DEF IsList, IsSequence, Range
  <1> QED
    BY <1>1, SequenceFacts

(* What is folded: k steps, with their weights. *)
StepVectors == [i \in 1 .. Len(job.main.steps) |-> job.main.steps[i].W]
StepBlinds == [i \in 1 .. Len(job.main.steps) |-> job.main.steps[i].r_W]
MainSize == PowerOfTwo[Len(job.main.point)]

LEMMA StepsAre ==
  ASSUME IsMain(job.main)
  PROVE  LET k == Len(job.main.steps)
         IN  /\ k \in Nat \ {0} /\ DOMAIN job.main.steps = 1 .. k
             /\ MainSize \in Nat /\ Len(job.main.point) \in Nat
             /\ job.main.point \in [1 .. Len(job.main.point) -> Field]
             /\ Weighed(Weights, StepVectors, k, MainSize)
             /\ Weighed(Weights, StepBlinds, k, NumRows(MainSize))
             /\ Committed(StepComms, StepVectors, StepBlinds, k)
             /\ Size(job.main.steps[1].W) = MainSize
  <1> DEFINE main == job.main
             k == Len(main.steps)
             b == Len(main.r_bs)
             T == EvalsFromPoints(Reversed(main.r_bs))
             n == MainSize
  <1>1. /\ main.point \in Seq(Field) /\ main.r_bs \in Seq(Field)
        /\ IsList(main.steps) /\ k \in 1 .. PowerOfTwo[b]
        /\ \A i \in 1 .. k : IsWitness(main.steps[i], n)
    BY Zenon DEF IsMain, MainSize
  <1>2. /\ Len(main.point) \in Nat /\ main.point \in [1 .. Len(main.point) -> Field]
        /\ b \in Nat /\ main.r_bs \in [1 .. b -> Field]
    BY <1>1
  <1>3. n \in Nat /\ PowerOfTwo[b] \in Nat
    BY <1>2, PowerFacts DEF MainSize
  <1>4. k \in Nat \ {0} /\ DOMAIN main.steps = 1 .. k
    BY <1>1, <1>3, ListIs
  <1>5. T \in Vectors(PowerOfTwo[b])
    <2> DEFINE r == main.r_bs
               q == Reversed(r)
    <2>1. r \in [1 .. b -> Field]
      BY <1>2
    <2> HIDE DEF r, b
    <2>2. q \in [1 .. b -> Field]
      BY <1>2, <2>1, ReversedIs
    <2> HIDE DEF q
    <2>3. EvalsFromPoints(q) \in Vectors(PowerOfTwo[b])
      BY <1>2, <2>2, EvalsSize
    <2> QED
      BY <2>3 DEF q, r
  <1>6. Weights = [i \in 1 .. k |-> T[i - 1]]
    BY Zenon DEF Weights
  <1> HIDE DEF T, k, b, main, n
  <1>7. \A i \in 1 .. k : Weights[i] \in Field
    <2>1. \A i \in 1 .. k : i - 1 \in 0 .. PowerOfTwo[b] - 1
      BY <1>1, <1>3, <1>4
    <2>2. \A i \in 0 .. PowerOfTwo[b] - 1 : T[i] \in Field
      BY <1>5 DEF Vectors
    <2> QED
      BY <1>6, <2>1, <2>2
  <1>8. \A i \in 1 .. k : main.steps[i].W \in Vectors(n) /\ main.steps[i].r_W \in Vectors(NumRows(n))
    BY <1>1, Zenon DEF IsWitness
  <1>9. StepVectors = [i \in 1 .. k |-> main.steps[i].W] /\ StepBlinds = [i \in 1 .. k |-> main.steps[i].r_W]
    BY Zenon DEF StepVectors, StepBlinds, k, main
  <1>10. Weighed(Weights, StepVectors, k, n) /\ Weighed(Weights, StepBlinds, k, NumRows(n))
    BY <1>7, <1>8, <1>9 DEF Weighed
  <1>11. StepComms = [i \in 1 .. k |-> Commit(main.steps[i].W, main.steps[i].r_W)]
    BY <1>4, Zenon DEF StepComms, main
  <1>12. Committed(StepComms, StepVectors, StepBlinds, k)
    BY <1>9, <1>11 DEF Committed
  <1>13. Size(main.steps[1].W) = n
    <2>1. 1 \in 1 .. k
      BY <1>4
    <2>2. main.steps[1].W \in Vectors(n)
      BY <1>8, <2>1
    <2> QED
      BY <1>3, <2>2, VectorSize
  <1> QED
    BY <1>2, <1>3, <1>4, <1>10, <1>12, <1>13 DEF k, main, n

(* The prover's commitment to the folded steps, where it is partly made of  *)
(* the blind alone, is the fold of all rows and is the commitment to what   *)
(* it folded.                                                               *)
LEMMA StepsFold ==
  ASSUME IsMain(job.main)
  PROVE  /\ IsOpening(FoldedSteps.W, FoldedSteps.r_W, MainSize)
         /\ FoldedSteps.comm = fold_commitments(StepComms, Weights)
         /\ FoldedSteps.comm = Commit(FoldedSteps.W, FoldedSteps.r_W)
  <1> DEFINE k == Len(job.main.steps)
             n == MainSize
             V == StepVectors
             R == StepBlinds
             len == IF Truncated THEN job.main.prefix ELSE n
             full == fold_commitments(StepComms, Weights)
  <1>1. /\ k \in Nat \ {0} /\ DOMAIN job.main.steps = 1 .. k /\ n \in Nat
        /\ Weighed(Weights, V, k, n) /\ Weighed(Weights, R, k, NumRows(n))
        /\ Committed(StepComms, V, R, k) /\ Size(job.main.steps[1].W) = n
    BY StepsAre
  <1>2. NumRows(n) \in Nat
    BY <1>1, WidthFacts
  <1>3. len \in Nat /\ \A i \in 1 .. k : \A j \in len .. n - 1 : V[i][j] = 0
    <2>1. CASE Truncated
      <3>1. job.main.prefix \in Nat /\ \A i \in 1 .. k : \A j \in job.main.prefix .. n - 1 : job.main.steps[i].W[j] = 0
        BY <2>1, Zenon DEF IsMain, Truncated, MainSize
      <3>2. \A i \in 1 .. k : V[i] = job.main.steps[i].W
        BY DEF StepVectors
      <3> QED
        BY <2>1, <3>1, <3>2
    <2>2. CASE ~Truncated
      <3>1. len = n
        BY <2>2
      <3> QED
        BY <1>1, <3>1
    <2> QED
      BY <2>1, <2>2
  <1> DEFINE F == fold_vectors(V, Weights)
             B == fold_blinds(R, Weights)
             P_ == [i \in 1 .. k |-> Padded(V[i], len)]
             part == fold_commitments_partial(StepComms, Weights, NumRows(len), B)
  <1>4. FoldedSteps = [W |-> Padded(fold_vectors(P_, Weights), n), r_W |-> B,
                       comm |-> IF Truncated THEN part ELSE full]
    <2>1. [i \in DOMAIN job.main.steps |-> Padded(job.main.steps[i].W, len)] = P_
      <3>1. \A i \in 1 .. k : V[i] = job.main.steps[i].W
        BY DEF StepVectors
      <3> HIDE DEF k, V, len
      <3> QED
        BY <1>1, <3>1
    <2>2. [i \in DOMAIN job.main.steps |-> job.main.steps[i].r_W] = R
      BY <1>1, Zenon DEF StepBlinds
    <2> DEFINE Q == [i \in DOMAIN job.main.steps |-> Padded(job.main.steps[i].W, len)]
               D == [i \in DOMAIN job.main.steps |-> job.main.steps[i].r_W]
    <2>3. FoldedSteps = [W |-> Padded(fold_vectors(Q, Weights), n), r_W |-> fold_blinds(D, Weights),
                         comm |-> IF Truncated
                                  THEN fold_commitments_partial(StepComms, Weights, NumRows(len), fold_blinds(D, Weights))
                                  ELSE full]
      BY <1>1, Zenon DEF FoldedSteps
    <2> QED
      BY <2>1, <2>2, <2>3, Zenon
  <1> HIDE DEF k, n, V, R, len, full, F, B, P_, part
  <1>5. F \in Vectors(n)
    BY <1>1, FoldVectorsIs DEF F
  <1>6. B \in Vectors(NumRows(n))
    BY <1>1, <1>2, FoldVectorsIs DEF B, fold_blinds
  <1>7. Padded(fold_vectors(P_, Weights), n) = F
    BY <1>1, <1>3, PaddedFold DEF P_, F
  <1>8. full = Commit(F, B)
    BY <1>1, FoldCommitmentsIs DEF full, F, B
  <1>9. part = full
    BY <1>1, <1>3, PartialFoldIs DEF part, full, B
  <1>10. FoldedSteps = [W |-> F, r_W |-> B, comm |-> full]
    BY <1>4, <1>7, <1>9
  <1>11. FoldedSteps.W = F /\ FoldedSteps.r_W = B /\ FoldedSteps.comm = full
    BY <1>10
  <1> QED
    BY <1>5, <1>6, <1>8, <1>11 DEF IsOpening, n, full

(* The core is there or it is not. *)
LEMMA CoreIs ==
  ASSUME IsMain(job.main), HasCore
  PROVE  Len(job.main.core) = 1 /\ IsOpening(Core.W, Core.r_W, MainSize)
  <1> DEFINE core == job.main.core
  <1>1. /\ IsList(core) /\ Len(core) \in 0 .. 1 /\ core # <<>>
        /\ \A i \in 1 .. Len(core) : IsWitness(core[i], MainSize)
    BY Zenon DEF IsMain, HasCore, MainSize
  <1> HIDE DEF core
  <1>2. IsSequence(core)
    BY <1>1, ListIs
  <1>3. Len(core) # 0
    <2>1. SUFFICES ASSUME Len(core) = 0 PROVE FALSE
      OBVIOUS
    <2>2. IsSequence(<<>>) /\ Len(<<>>) = 0
      BY EmptyIsSequence
    <2>3. Len(core) = Len(<<>>) /\ \A i \in 1 .. Len(core) : core[i] = <<>>[i]
      BY <2>1, <2>2
    <2>4. core = <<>>
      BY <1>2, <2>2, <2>3, SameSequence
    <2> QED
      BY <1>1, <2>4
  <1>4. Len(core) = 1
    BY <1>1, <1>3
  <1>5. IsWitness(core[1], MainSize)
    BY <1>1, <1>4
  <1>6. IsOpening(core[1].W, core[1].r_W, MainSize)
    BY <1>5, Zenon DEF IsWitness, IsOpening
  <1> QED
    BY <1>4, <1>6 DEF Core, core

(* The commitment to what one or two openings are folded to.                *)
PartsFolded(W1, r1, W2, r2, n, weights) ==
  LET W == fold_vectors(Parts(W1, W2), weights)
      r == fold_blinds(Parts(r1, r2), weights)
  IN  /\ IsOpening(W, r, n)
      /\ fold_commitments(Parts(Commit(W1, r1), Commit(W2, r2)), weights) = Commit(W, r)

LEMMA PartsFold ==
  ASSUME NEW n \in Nat, NEW W1, NEW r1, IsOpening(W1, r1, n),
         NEW W2, NEW r2, HasCore => IsOpening(W2, r2, n),
         NEW d, HasCore => LastAnswer(d) \in Field
  PROVE  PartsFolded(W1, r1, W2, r2, n, PartWeights(d))
  <1> DEFINE w == PartWeights(d)
             V == Parts(W1, W2)
             R == Parts(r1, r2)
             C == Parts(Commit(W1, r1), Commit(W2, r2))
             m == NumRows(n)
  <1>0. m \in Nat
    BY WidthFacts
  <1>1. \E k \in Nat \ {0} : Weighed(w, V, k, n) /\ Weighed(w, R, k, m) /\ Committed(C, V, R, k)
    <2>1. CASE HasCore
      <3> DEFINE c == LastAnswer(d)
      <3>1. c \in Field /\ 1 \in Field
        BY <2>1, Constants
      <3>2. w = <<1, c>>
        BY <2>1, Zenon DEF PartWeights
      <3>3. V = <<W1, W2>> /\ R = <<r1, r2>> /\ C = <<Commit(W1, r1), Commit(W2, r2)>>
        BY <2>1, Zenon DEF Parts
      <3>4. /\ W1 \in Vectors(n) /\ W2 \in Vectors(n) /\ r1 \in Vectors(m) /\ r2 \in Vectors(m)
        BY <2>1 DEF IsOpening
      <3> HIDE DEF c, w, V, R, C, m
      <3>5. \A i \in 1 .. 2 : i = 1 \/ i = 2
        OBVIOUS
      <3>6. \A i \in 1 .. 2 : w[i] \in Field
        BY <3>1, <3>2, <3>5
      <3>7. V \in [1 .. 2 -> Vectors(n)] /\ R \in [1 .. 2 -> Vectors(m)]
        BY <3>3, <3>4, <3>5, FewAre
      <3>8. /\ V[1] = W1 /\ V[2] = W2 /\ R[1] = r1 /\ R[2] = r2
            /\ C = [i \in 1 .. 2 |-> IF i = 1 THEN Commit(W1, r1) ELSE Commit(W2, r2)]
        BY <3>3, FewAre
      <3>9. C = [i \in 1 .. 2 |-> Commit(V[i], R[i])]
        BY <3>5, <3>8
      <3>10. Weighed(w, V, 2, n) /\ Weighed(w, R, 2, m) /\ Committed(C, V, R, 2)
        BY <3>6, <3>7, <3>9, Zenon DEF Weighed, Committed
      <3>11. 2 \in Nat \ {0}
        OBVIOUS
      <3> QED
        BY <3>10, <3>11
    <2>2. CASE ~HasCore
      <3>1. w = <<1>> /\ 1 \in Field
        BY <2>2, Constants, Zenon DEF PartWeights
      <3>2. V = <<W1>> /\ R = <<r1>> /\ C = <<Commit(W1, r1)>>
        BY <2>2, Zenon DEF Parts
      <3>3. W1 \in Vectors(n) /\ r1 \in Vectors(m)
        BY DEF IsOpening
      <3> HIDE DEF w, V, R, C, m
      <3>4. \A i \in 1 .. 1 : i = 1
        OBVIOUS
      <3>5. \A i \in 1 .. 1 : w[i] \in Field
        BY <3>1, <3>4
      <3>6. V \in [1 .. 1 -> Vectors(n)] /\ R \in [1 .. 1 -> Vectors(m)]
        BY <3>2, <3>3, FewAre
      <3>7. V[1] = W1 /\ R[1] = r1 /\ C = [i \in 1 .. 1 |-> Commit(W1, r1)]
        BY <3>2, FewAre
      <3>8. C = [i \in 1 .. 1 |-> Commit(V[i], R[i])]
        BY <3>4, <3>7
      <3>9. Weighed(w, V, 1, n) /\ Weighed(w, R, 1, m) /\ Committed(C, V, R, 1)
        BY <3>5, <3>6, <3>8, Zenon DEF Weighed, Committed
      <3>10. 1 \in Nat \ {0}
        OBVIOUS
      <3> QED
        BY <3>9, <3>10
    <2> QED
      BY <2>1, <2>2
  <1> HIDE DEF w, V, R, C, m
  <1>2. PICK k \in Nat \ {0} : Weighed(w, V, k, n) /\ Weighed(w, R, k, m) /\ Committed(C, V, R, k)
    BY <1>1
  <1>3. fold_vectors(V, w) \in Vectors(n) /\ fold_blinds(R, w) \in Vectors(m)
    BY <1>0, <1>2, FoldVectorsIs DEF fold_blinds
  <1>4. fold_commitments(C, w) = Commit(fold_vectors(V, w), fold_blinds(R, w))
    BY <1>2, FoldCommitmentsIs DEF m
  <1> QED
    BY <1>3, <1>4, Zenon DEF PartsFolded, IsOpening, w, V, R, C, m

(* The prover's claim: what it commits to is what the verifier folds, and   *)
(* what it opens is committed to.                                           *)
ClaimCommitted(weights) ==
  /\ IsOpening(ZkClaim(weights).W, ZkClaim(weights).r_W, MainSize)
  /\ ZkClaim(weights).comm = Commit(ZkClaim(weights).W, ZkClaim(weights).r_W)
  /\ ZkClaim(weights).comm = fold_commitments(Parts(fold_commitments(StepComms, Weights), CoreComm), weights)

LEMMA ZkClaimIs ==
  ASSUME IsMain(job.main), NEW d, HasCore => LastAnswer(d) \in Field
  PROVE  ClaimCommitted(PartWeights(d))
  <1> DEFINE w == PartWeights(d)
             W1 == FoldedSteps.W
             r1 == FoldedSteps.r_W
             W2 == Core.W
             r2 == Core.r_W
             n == MainSize
  <1>1. /\ IsOpening(W1, r1, n) /\ FoldedSteps.comm = Commit(W1, r1)
        /\ FoldedSteps.comm = fold_commitments(StepComms, Weights)
    BY StepsFold
  <1>2. n \in Nat
    BY StepsAre
  <1>3. HasCore => IsOpening(W2, r2, n)
    BY CoreIs
  <1>4. CoreComm = Commit(W2, r2)
    BY Zenon DEF CoreComm
  <1>5. /\ ZkClaim(w).comm = fold_commitments(Parts(FoldedSteps.comm, CoreComm), w)
        /\ ZkClaim(w).W = fold_vectors(Parts(W1, W2), w)
        /\ ZkClaim(w).r_W = fold_blinds(Parts(r1, r2), w)
    <2> HIDE DEF w, W1, r1, W2, r2
    <2>1. /\ ZkClaim(w).comm = fold_commitments(Parts(FoldedSteps.comm, CoreComm), w)
          /\ ZkClaim(w).W = fold_vectors(Parts(FoldedSteps.W, Core.W), w)
          /\ ZkClaim(w).r_W = fold_blinds(Parts(FoldedSteps.r_W, Core.r_W), w)
      BY DEF ZkClaim
    <2> QED
      BY <2>1, Zenon DEF W1, r1, W2, r2
  <1> HIDE DEF W1, r1, W2, r2, n
  <1>6. PartsFolded(W1, r1, W2, r2, n, w)
    BY <1>1, <1>2, <1>3, PartsFold
  <1> HIDE DEF w
  <1>7. /\ IsOpening(ZkClaim(w).W, ZkClaim(w).r_W, n)
        /\ ZkClaim(w).comm = Commit(ZkClaim(w).W, ZkClaim(w).r_W)
    BY <1>1, <1>4, <1>5, <1>6, Zenon DEF PartsFolded
  <1>8. ZkClaim(w).comm = fold_commitments(Parts(fold_commitments(StepComms, Weights), CoreComm), w)
    BY <1>1, <1>5, Zenon
  <1> QED
    BY <1>7, <1>8, Zenon DEF ClaimCommitted, w, n

-----------------------------------------------------------------------------
(* The claim of the prover without zero knowledge                           *)

(* The sequence c holds the rows of the commitment to w with blinds r.      *)
RowsOf(c, w, r) ==
  /\ Len(w) \in Nat /\ w \in [1 .. Len(w) -> Field]
  /\ r \in [1 .. NumRows(Len(w)) -> Field]
  /\ IsSequence(c) /\ Len(c) = NumRows(Len(w))
  /\ \A i \in 0 .. Len(c) - 1 : c[i + 1] = CommittedRow(AsVec(w), AsVec(r), i)

(* w fills q rows. *)
FillsRows(w, q) == Len(w) = q * Width

(* The rows of one commitment. *)
LEMMA OneCommitment ==
  ASSUME NEW n \in Nat, NEW W, NEW r, IsOpening(W, r, n)
  PROVE  RowsOf(AsSeq(Commit(W, r)), AsSeq(W), AsSeq(r)) /\ Len(AsSeq(W)) = n
  <1> DEFINE m == NumRows(n)
             C == Commit(W, r)
             c == AsSeq(C)
             w == AsSeq(W)
             b == AsSeq(r)
  <1>0. m \in Nat
    BY WidthFacts
  <1>1. W \in Vectors(n) /\ r \in Vectors(m)
    BY DEF IsOpening
  <1> HIDE DEF m
  <1>2. /\ DOMAIN W = 0 .. n - 1 /\ DOMAIN r = 0 .. m - 1
        /\ W = [i \in 0 .. n - 1 |-> W[i]] /\ r = [i \in 0 .. m - 1 |-> r[i]]
        /\ \A i \in 0 .. n - 1 : W[i] \in Field
        /\ \A i \in 0 .. m - 1 : r[i] \in Field
    BY <1>1 DEF Vectors
  <1>3. C = [i \in 0 .. m - 1 |-> CommittedRow(W, r, i)]
    BY <1>2, CommitIs DEF m
  <1> HIDE DEF C
  <1>4. DOMAIN C = 0 .. m - 1
    BY <1>3
  <1>5. w = [i \in 1 .. n |-> W[i - 1]] /\ Len(w) = n /\ AsVec(w) = W
    BY <1>2, AsSeqIs
  <1>6. b = [i \in 1 .. m |-> r[i - 1]] /\ AsVec(b) = r
    BY <1>0, <1>2, AsSeqIs
  <1>7. IsSequence(c) /\ Len(c) = m /\ \A i \in 0 .. m - 1 : c[i + 1] = C[i]
    BY <1>0, <1>4, AsSeqIs
  <1> HIDE DEF w, b, c
  <1>8. w \in [1 .. n -> Field] /\ b \in [1 .. m -> Field]
    <2>1. \A i \in 1 .. n : i - 1 \in 0 .. n - 1
      OBVIOUS
    <2>2. \A i \in 1 .. m : i - 1 \in 0 .. m - 1
      BY <1>0
    <2> QED
      BY <1>2, <1>5, <1>6, <2>1, <2>2
  <1>9. \A i \in 0 .. m - 1 : c[i + 1] = CommittedRow(AsVec(w), AsVec(b), i)
    BY <1>3, <1>5, <1>6, <1>7
  <1>10. RowsOf(c, w, b)
    BY <1>5, <1>7, <1>8, <1>9 DEF RowsOf, m
  <1> QED
    BY <1>5, <1>10 DEF c, w, b, C

(* Rows of what fills them and rows of more. *)
LEMMA JoinRows ==
  ASSUME NEW c, NEW w, NEW r, RowsOf(c, w, r), NEW q \in Nat, FillsRows(w, q),
         NEW d, NEW v, NEW s, RowsOf(d, v, s)
  PROVE  /\ RowsOf(c \o d, w \o v, r \o s)
         /\ Len(w \o v) = q * Width + Len(v)
  <1> DEFINE x == Len(v)
             m == NumRows(x)
             n == q * Width
             e == c \o d
             y == w \o v
             t == r \o s
  <1>0. Width \in Nat \ {0} /\ n \in Nat
    BY WidthFacts
  <1>1. /\ x \in Nat /\ v \in [1 .. x -> Field] /\ s \in [1 .. m -> Field]
        /\ IsSequence(d) /\ Len(d) = m
        /\ \A i \in 0 .. m - 1 : d[i + 1] = CommittedRow(AsVec(v), AsVec(s), i)
    BY DEF RowsOf
  <1>2. m \in Nat
    BY <1>1, WidthFacts
  <1>3. NumRows(n) = q /\ NumRows(n + x) = q + m
    <2>1. q * Width + 0 = n /\ n <= q * Width /\ q * Width < n + Width
      BY <1>0
    <2>2. DivCeil(n, Width) = q
      <3> HIDE DEF n
      <3> QED
        BY <1>0, <2>1, CeilingIs
    <2>3. DivCeil(q * Width + x, Width) = q + DivCeil(x, Width)
      <3> HIDE DEF x
      <3> QED
        BY <1>0, <1>1, CeilingAdds
    <2> QED
      BY <2>2, <2>3 DEF NumRows
  <1> HIDE DEF x, m, n
  <1>4. /\ Len(w) = n /\ w \in [1 .. n -> Field] /\ r \in [1 .. q -> Field]
        /\ IsSequence(c) /\ Len(c) = q
        /\ \A i \in 0 .. q - 1 : c[i + 1] = CommittedRow(AsVec(w), AsVec(r), i)
    BY <1>3 DEF RowsOf, FillsRows, n
  <1>5. /\ IsSequence(w) /\ IsSequence(r) /\ Len(r) = q
        /\ IsSequence(v) /\ Len(v) = x /\ IsSequence(s) /\ Len(s) = m
    BY <1>0, <1>1, <1>2, <1>4, FunctionIsSequence
  <1>6. Concatenates(e, c, d) /\ Concatenates(y, w, v) /\ Concatenates(t, r, s)
    BY <1>1, <1>4, <1>5, Concatenated
  <1> HIDE DEF e, y, t
  <1>7. /\ IsSequence(e) /\ Len(e) = q + m
        /\ \A i \in 1 .. q : e[i] = c[i]
        /\ \A i \in 1 .. m : e[q + i] = d[i]
    BY <1>1, <1>4, <1>6 DEF Concatenates
  <1>8. /\ IsSequence(y) /\ Len(y) = n + x
        /\ \A i \in 1 .. n : y[i] = w[i]
        /\ \A i \in 1 .. x : y[n + i] = v[i]
    BY <1>4, <1>5, <1>6 DEF Concatenates
  <1>9. /\ IsSequence(t) /\ Len(t) = q + m
        /\ \A i \in 1 .. q : t[i] = r[i]
        /\ \A i \in 1 .. m : t[q + i] = s[i]
    BY <1>5, <1>6 DEF Concatenates
  <1>10. y \in [1 .. n + x -> Field]
    <2>1. y = [i \in 1 .. n + x |-> y[i]]
      BY <1>0, <1>1, <1>8, SequenceIsFunction
    <2>2. ASSUME NEW i \in 1 .. n + x PROVE y[i] \in Field
      <3>1. CASE i <= n
        <4>1. i \in 1 .. n
          BY <1>0, <1>1, <3>1
        <4> QED
          BY <1>4, <1>8, <4>1
      <3>2. CASE ~(i <= n)
        <4>1. i - n \in 1 .. x /\ n + (i - n) = i
          BY <1>0, <1>1, <3>2
        <4>2. y[i] = v[i - n]
          BY <1>8, <4>1
        <4> QED
          BY <1>1, <4>1, <4>2
      <3> QED
        BY <3>1, <3>2
    <2> QED
      BY <2>1, <2>2
  <1>11. t \in [1 .. q + m -> Field]
    <2>1. t = [i \in 1 .. q + m |-> t[i]]
      BY <1>2, <1>9, SequenceIsFunction
    <2>2. ASSUME NEW i \in 1 .. q + m PROVE t[i] \in Field
      <3>1. CASE i <= q
        <4>1. i \in 1 .. q
          BY <1>2, <3>1
        <4> QED
          BY <1>4, <1>9, <4>1
      <3>2. CASE ~(i <= q)
        <4>1. i - q \in 1 .. m /\ q + (i - q) = i
          BY <1>2, <3>2
        <4>2. t[i] = s[i - q]
          BY <1>9, <4>1
        <4> QED
          BY <1>1, <4>1, <4>2
      <3> QED
        BY <3>1, <3>2
    <2> QED
      BY <2>1, <2>2
  <1>12. /\ AsVec(y) = [i \in 0 .. (n + x) - 1 |-> y[i + 1]] /\ Size(AsVec(y)) = n + x
         /\ AsVec(w) = [i \in 0 .. n - 1 |-> w[i + 1]] /\ Size(AsVec(w)) = n
         /\ AsVec(v) = [i \in 0 .. x - 1 |-> v[i + 1]] /\ Size(AsVec(v)) = x
         /\ AsVec(t) = [i \in 0 .. (q + m) - 1 |-> t[i + 1]]
         /\ AsVec(r) = [i \in 0 .. q - 1 |-> r[i + 1]]
         /\ AsVec(s) = [i \in 0 .. m - 1 |-> s[i + 1]]
    <2>1. n + x \in Nat /\ q + m \in Nat
      BY <1>0, <1>1, <1>2
    <2>2. \A a \in Nat : \A z : IsSequence(z) /\ Len(z) = a =>
            AsVec(z) = [i \in 0 .. a - 1 |-> z[i + 1]] /\ Size(AsVec(z)) = a
      BY AsVecIs
    <2>3. AsVec(y) = [i \in 0 .. (n + x) - 1 |-> y[i + 1]] /\ Size(AsVec(y)) = n + x
      BY <1>8, <2>1, <2>2
    <2>4. AsVec(t) = [i \in 0 .. (q + m) - 1 |-> t[i + 1]]
      BY <1>9, <2>1, <2>2
    <2>5. /\ AsVec(w) = [i \in 0 .. n - 1 |-> w[i + 1]] /\ Size(AsVec(w)) = n
          /\ AsVec(v) = [i \in 0 .. x - 1 |-> v[i + 1]] /\ Size(AsVec(v)) = x
      BY <1>0, <1>1, <1>4, <1>5, <2>2
    <2>6. /\ AsVec(r) = [i \in 0 .. q - 1 |-> r[i + 1]]
          /\ AsVec(s) = [i \in 0 .. m - 1 |-> s[i + 1]]
      BY <1>2, <1>5, <2>2
    <2> QED
      BY <2>3, <2>4, <2>5, <2>6
  <1> DEFINE ay == AsVec(y)
             aw == AsVec(w)
             av == AsVec(v)
             at == AsVec(t)
             ar == AsVec(r)
             as == AsVec(s)
  <1> HIDE DEF ay, aw, av, at, ar, as
  <1>13. ASSUME NEW z \in 0 .. n - 1 PROVE At(ay, z) = At(aw, z)
    <2>1. z < n /\ z < n + x /\ z \in 0 .. (n + x) - 1 /\ z + 1 \in 1 .. n
      BY <1>0, <1>1
    <2>2. At(ay, z) = y[z + 1]
      BY <1>12, <2>1 DEF At, ay
    <2>3. At(aw, z) = w[z + 1]
      BY <1>12, <2>1 DEF At, aw
    <2> QED
      BY <1>8, <2>1, <2>2, <2>3
  <1>14. ASSUME NEW z \in Nat PROVE At(ay, n + z) = At(av, z)
    <2>1. CASE z < x
      <3>1. /\ n + z < n + x /\ n + z \in 0 .. (n + x) - 1 /\ z \in 0 .. x - 1
            /\ z + 1 \in 1 .. x /\ (n + z) + 1 = n + (z + 1)
        BY <1>0, <1>1, <2>1
      <3>2. At(ay, n + z) = y[n + (z + 1)]
        BY <1>12, <3>1 DEF At, ay
      <3>3. At(av, z) = v[z + 1]
        BY <1>12, <2>1, <3>1 DEF At, av
      <3> QED
        BY <1>8, <3>1, <3>2, <3>3
    <2>2. CASE ~(z < x)
      <3>1. ~(n + z < n + x)
        BY <1>0, <1>1, <2>2
      <3>2. At(ay, n + z) = 0 /\ At(av, z) = 0
        BY <1>12, <2>2, <3>1 DEF At, ay, av
      <3> QED
        BY <3>2
    <2> QED
      BY <2>1, <2>2
  <1>15. ASSUME NEW i \in 0 .. (q + m) - 1 PROVE e[i + 1] = CommittedRow(ay, at, i)
    <2>1. CASE i < q
      <3>1. i \in 0 .. q - 1 /\ i + 1 \in 1 .. q /\ i \in 0 .. (q + m) - 1
        BY <1>2, <2>1
      <3>2. e[i + 1] = CommittedRow(aw, ar, i)
        BY <1>4, <1>7, <3>1 DEF aw, ar
      <3>3. ar[i] = at[i]
        BY <1>9, <1>12, <3>1 DEF ar, at
      <3>4. ASSUME NEW j \in 0 .. Width - 1 PROVE At(aw, i * Width + j) = At(ay, i * Width + j)
        <4> DEFINE z == i * Width + j
        <4>1. z \in 0 .. n - 1
          <5>1. q - 1 - i \in Nat /\ q = i + 1 + (q - 1 - i)
            BY <3>1
          <5>2. i * Width \in Nat /\ (q - 1 - i) * Width \in Nat /\ n = i * Width + Width + (q - 1 - i) * Width
            BY <1>0, <3>1, <5>1 DEF n
          <5> QED
            BY <1>0, <5>2
        <4> HIDE DEF z
        <4>2. At(aw, z) = At(ay, z)
          BY <1>13, <4>1
        <4> QED
          BY <4>2 DEF z
      <3> QED
        BY <3>2, <3>3, <3>4 DEF CommittedRow
    <2>2. CASE ~(i < q)
      <3> DEFINE k == i - q
      <3>1. /\ k \in 0 .. m - 1 /\ k \in Nat /\ k + 1 \in 1 .. m /\ i = q + k
            /\ i + 1 = q + (k + 1)
        BY <1>2, <2>2
      <3> HIDE DEF k
      <3>2. e[i + 1] = CommittedRow(av, as, k)
        BY <1>1, <1>7, <3>1 DEF av, as
      <3>3. as[k] = at[i]
        <4>1. as[k] = s[k + 1]
          BY <1>12, <3>1 DEF as
        <4>2. at[i] = t[i + 1]
          BY <1>12 DEF at
        <4> QED
          BY <1>9, <3>1, <4>1, <4>2
      <3>4. ASSUME NEW j \in 0 .. Width - 1 PROVE At(av, k * Width + j) = At(ay, i * Width + j)
        <4> DEFINE z == k * Width + j
        <4>1. z \in Nat /\ i * Width + j = n + z
          <5>1. i * Width = q * Width + k * Width /\ k * Width \in Nat /\ q * Width \in Nat
            BY <1>0, <3>1
          <5> QED
            BY <1>0, <5>1 DEF n
        <4> HIDE DEF z
        <4>2. At(ay, n + z) = At(av, z)
          BY <1>14, <4>1
        <4>3. At(av, z) = At(ay, i * Width + j)
          BY <4>1, <4>2
        <4> QED
          BY <4>3 DEF z
      <3> QED
        BY <3>2, <3>3, <3>4 DEF CommittedRow
    <2> QED
      BY <2>1, <2>2
  <1>16. RowsOf(e, y, t) /\ Len(y) = n + x
    <2>1. n + x \in Nat
      BY <1>0, <1>1
    <2> QED
      BY <1>3, <1>7, <1>8, <1>10, <1>11, <1>15, <2>1 DEF RowsOf, ay, at
  <1> QED
    BY <1>16 DEF e, y, t, n, x

(* Segments with their blinds and commitments: all but the last fill rows.  *)
SegmentsOf(C, W, r, n) ==
  /\ DOMAIN C = 1 .. n + 1 /\ DOMAIN W = 1 .. n + 1 /\ DOMAIN r = 1 .. n + 1
  /\ \A i \in 1 .. n + 1 : C[i] = Commit(W[i], r[i])
  /\ \A i \in 1 .. n : \E q \in Nat : IsOpening(W[i], r[i], q * Width)
  /\ \E x \in Nat : IsOpening(W[n + 1], r[n + 1], x)

(* What is committed to in segments. *)
JoinedCommitted(C, W, r, x) ==
  /\ IsOpening(Joined(W), Joined(r), x)
  /\ Joined(C) = Commit(Joined(W), Joined(r))

(* The rows as a commitment. *)
LEMMA RowsCommit ==
  ASSUME NEW c, NEW w, NEW r, RowsOf(c, w, r)
  PROVE  IsOpening(AsVec(w), AsVec(r), Len(w)) /\ AsVec(c) = Commit(AsVec(w), AsVec(r))
  <1> DEFINE n == Len(w)
             m == NumRows(n)
             aw == AsVec(w)
             ar == AsVec(r)
  <1>1. /\ n \in Nat /\ w \in [1 .. n -> Field] /\ r \in [1 .. m -> Field]
        /\ IsSequence(c) /\ Len(c) = m
        /\ \A i \in 0 .. m - 1 : c[i + 1] = CommittedRow(aw, ar, i)
    BY DEF RowsOf
  <1>2. m \in Nat
    BY <1>1, WidthFacts
  <1> HIDE DEF n, m
  <1>3. IsSequence(w) /\ Len(w) = n /\ IsSequence(r) /\ Len(r) = m
    BY <1>1, <1>2, FunctionIsSequence
  <1>4. /\ aw = [i \in 0 .. n - 1 |-> w[i + 1]] /\ DOMAIN aw = 0 .. n - 1
        /\ ar = [i \in 0 .. m - 1 |-> r[i + 1]]
        /\ AsVec(c) = [i \in 0 .. m - 1 |-> c[i + 1]]
    <2>2. \A a \in Nat : \A z : IsSequence(z) /\ Len(z) = a =>
            AsVec(z) = [i \in 0 .. a - 1 |-> z[i + 1]] /\ DOMAIN AsVec(z) = 0 .. a - 1
      BY AsVecIs
    <2> QED
      BY <1>1, <1>2, <1>3, <2>2
  <1> HIDE DEF aw, ar
  <1>5. aw \in Vectors(n) /\ ar \in Vectors(m)
    <2>1. \A i \in 0 .. n - 1 : i + 1 \in 1 .. n
      BY <1>1
    <2>2. \A i \in 0 .. m - 1 : i + 1 \in 1 .. m
      BY <1>2
    <2>3. \A i \in 0 .. n - 1 : w[i + 1] \in Field
      BY <1>1, <2>1
    <2>4. \A i \in 0 .. m - 1 : r[i + 1] \in Field
      BY <1>1, <2>2
    <2>5. aw \in [0 .. n - 1 -> Field]
      BY <1>4, <2>3, Zenon
    <2>6. ar \in [0 .. m - 1 -> Field]
      BY <1>4, <2>4, Zenon
    <2> QED
      BY <2>5, <2>6 DEF Vectors
  <1>6. Commit(aw, ar) = [i \in 0 .. m - 1 |-> CommittedRow(aw, ar, i)]
    <2>1. DOMAIN aw = 0 .. n - 1 /\ n \in Nat
      BY <1>1, <1>4, Zenon
    <2>2. Commit(aw, ar) = [i \in 0 .. NumRows(n) - 1 |-> CommittedRow(aw, ar, i)]
      BY <2>1, CommitIs
    <2> QED
      BY <2>2, Zenon DEF m
  <1>7. AsVec(c) = Commit(aw, ar)
    BY <1>1, <1>4, <1>6
  <1> QED
    BY <1>5, <1>7 DEF IsOpening, n, m, aw, ar

(* The joined commitments of segments that fill whole rows, and of a last   *)
(* one of any length, are the commitment to the joined segments with the    *)
(* joined blinds (hyrax_pc.rs:360-385).                                     *)
THEOREM JoinedCommits ==
  ASSUME NEW n \in Nat, NEW C, NEW W, NEW r, SegmentsOf(C, W, r, n)
  PROVE  \E x \in Nat : JoinedCommitted(C, W, r, x)
  <1>1. /\ DOMAIN C = 1 .. n + 1 /\ DOMAIN W = 1 .. n + 1 /\ DOMAIN r = 1 .. n + 1
        /\ \A i \in 1 .. n + 1 : C[i] = Commit(W[i], r[i])
        /\ \A i \in 1 .. n : \E q \in Nat : IsOpening(W[i], r[i], q * Width)
        /\ \E x \in Nat : IsOpening(W[n + 1], r[n + 1], x)
    BY DEF SegmentsOf
  <1>2. PICK gc : JoinTable(gc, C, n)
    BY <1>1, JoinTables
  <1>3. PICK gw : JoinTable(gw, W, n)
    BY <1>1, JoinTables
  <1>4. PICK gr : JoinTable(gr, r, n)
    BY <1>1, JoinTables
  <1>5. /\ gc[1] = AsSeq(C[1]) /\ gw[1] = AsSeq(W[1]) /\ gr[1] = AsSeq(r[1])
        /\ \A i \in 1 .. n : /\ gc[i + 1] = gc[i] \o AsSeq(C[i + 1])
                             /\ gw[i + 1] = gw[i] \o AsSeq(W[i + 1])
                             /\ gr[i + 1] = gr[i] \o AsSeq(r[i + 1])
    BY <1>2, <1>3, <1>4 DEF JoinTable
  <1>6. ASSUME NEW i \in 1 .. n + 1, NEW x \in Nat, IsOpening(W[i], r[i], x)
        PROVE  RowsOf(AsSeq(C[i]), AsSeq(W[i]), AsSeq(r[i])) /\ Len(AsSeq(W[i])) = x
    <2> DEFINE w == W[i]
               b == r[i]
    <2>1. C[i] = Commit(w, b)
      BY <1>1
    <2>2. IsOpening(w, b, x)
      BY <1>6
    <2> HIDE DEF w, b
    <2>3. RowsOf(AsSeq(Commit(w, b)), AsSeq(w), AsSeq(b)) /\ Len(AsSeq(w)) = x
      BY <2>2, OneCommitment
    <2> QED
      BY <2>1, <2>3 DEF w, b
  <1> DEFINE Done(k) == RowsOf(gc[k], gw[k], gr[k])
             Whole(k) == \E q \in Nat : FillsRows(gw[k], q)
             N == {k \in Nat : k <= n => Done(k + 1) /\ (k + 1 <= n => Whole(k + 1))}
  <1>7. ASSUME NEW i \in 1 .. n
        PROVE  RowsOf(AsSeq(C[i]), AsSeq(W[i]), AsSeq(r[i])) /\ \E q \in Nat : FillsRows(AsSeq(W[i]), q)
    <2>1. PICK q \in Nat : IsOpening(W[i], r[i], q * Width)
      BY <1>1
    <2> DEFINE x == q * Width
    <2>2. x \in Nat /\ i \in 1 .. n + 1 /\ IsOpening(W[i], r[i], x)
      BY <2>1, WidthFacts
    <2> HIDE DEF x
    <2>3. RowsOf(AsSeq(C[i]), AsSeq(W[i]), AsSeq(r[i])) /\ Len(AsSeq(W[i])) = x
      BY <1>6, <2>2
    <2>4. FillsRows(AsSeq(W[i]), q)
      BY <2>3 DEF FillsRows, x
    <2> QED
      BY <2>3, <2>4
  <1>8. RowsOf(AsSeq(C[n + 1]), AsSeq(W[n + 1]), AsSeq(r[n + 1]))
    <2> DEFINE last == n + 1
    <2>1. PICK x \in Nat : IsOpening(W[last], r[last], x)
      BY <1>1
    <2>2. last \in 1 .. n + 1
      OBVIOUS
    <2> HIDE DEF last
    <2>3. RowsOf(AsSeq(C[last]), AsSeq(W[last]), AsSeq(r[last]))
      BY <1>6, <2>1, <2>2
    <2> QED
      BY <2>3 DEF last
  <1>9. 0 \in N
    <2>1. CASE n = 0
      <3>1. n + 1 = 1 /\ ~(1 <= n) /\ 0 + 1 = 1
        BY <2>1
      <3>2. Done(1)
        BY <1>5, <1>8, <3>1
      <3> HIDE DEF Done, Whole
      <3> QED
        BY <3>1, <3>2
    <2>2. CASE n # 0
      <3>1. 1 \in 1 .. n /\ 0 + 1 = 1
        BY <2>2
      <3>2. Done(1) /\ Whole(1)
        BY <1>5, <1>7, <3>1
      <3> HIDE DEF Done, Whole
      <3> QED
        BY <3>1, <3>2
    <2> QED
      BY <2>1, <2>2
  <1>10. ASSUME NEW k \in Nat, k \in N PROVE k + 1 \in N
    <2>1. CASE ~(k + 1 <= n)
      BY <2>1
    <2>2. CASE k + 1 <= n
      <3> DEFINE i == k + 1
      <3>1. i \in 1 .. n /\ k <= n /\ i \in Nat
        BY <2>2
      <3>2. Done(i) /\ Whole(i)
        <4> HIDE DEF Done, Whole
        <4> QED
          BY <1>10, <2>2, <3>1
      <3> DEFINE w == gw[i]
                 c == gc[i]
                 b == gr[i]
                 v == AsSeq(W[i + 1])
                 d == AsSeq(C[i + 1])
                 s == AsSeq(r[i + 1])
      <3> HIDE DEF i
      <3>3. PICK q \in Nat : FillsRows(w, q)
        BY <3>2
      <3>4. RowsOf(c, w, b)
        BY <3>2
      <3>5. RowsOf(d, v, s) /\ (i + 1 <= n => \E p \in Nat : FillsRows(v, p))
        <4>1. CASE i + 1 <= n
          <5>1. i + 1 \in 1 .. n
            BY <3>1, <4>1
          <5> QED
            BY <1>7, <5>1
        <4>2. CASE ~(i + 1 <= n)
          <5>1. i = n
            BY <3>1, <4>2
          <5> QED
            BY <1>8, <4>2, <5>1
        <4> QED
          BY <4>1, <4>2
      <3>6. gc[i + 1] = c \o d /\ gw[i + 1] = w \o v /\ gr[i + 1] = b \o s
        BY <1>5, <3>1
      <3> HIDE DEF w, c, b, v, d, s
      <3>7. RowsOf(c \o d, w \o v, b \o s) /\ Len(w \o v) = q * Width + Len(v)
        BY <3>3, <3>4, <3>5, JoinRows
      <3>8. Done(i + 1)
        BY <3>6, <3>7
      <3>9. ASSUME i + 1 <= n PROVE Whole(i + 1)
        <4>1. PICK p \in Nat : FillsRows(v, p)
          BY <3>5, <3>9
        <4>2. q * Width + p * Width = (q + p) * Width /\ q + p \in Nat
          BY WidthFacts
        <4>3. FillsRows(w \o v, q + p)
          BY <3>7, <4>1, <4>2 DEF FillsRows
        <4> QED
          BY <3>6, <4>2, <4>3
      <3> HIDE DEF Done, Whole
      <3>10. i <= n => Done(i + 1) /\ (i + 1 <= n => Whole(i + 1))
        BY <3>8, <3>9
      <3>11. i \in N
        BY <3>1, <3>10
      <3> QED
        BY <3>11 DEF i
    <2> QED
      BY <2>1, <2>2
  <1> HIDE DEF N
  <1>11. \A k \in Nat : k \in N
    BY <1>9, <1>10, NatSetInduction
  <1>12. Done(n + 1)
    <2>1. n \in N
      BY <1>11
    <2> HIDE DEF Done, Whole
    <2> QED
      BY <2>1 DEF N
  <1> DEFINE c == gc[n + 1]
             w == gw[n + 1]
             b == gr[n + 1]
  <1>13. Joined(C) = AsVec(c) /\ Joined(W) = AsVec(w) /\ Joined(r) = AsVec(b) /\ RowsOf(c, w, b)
    BY <1>2, <1>3, <1>4, <1>12 DEF JoinTable
  <1> HIDE DEF c, w, b
  <1>14. Len(w) \in Nat /\ IsOpening(AsVec(w), AsVec(b), Len(w)) /\ AsVec(c) = Commit(AsVec(w), AsVec(b))
    BY <1>13, RowsCommit DEF RowsOf
  <1>15. JoinedCommitted(C, W, r, Len(w))
    BY <1>13, <1>14 DEF JoinedCommitted
  <1> QED
    BY <1>14, <1>15

-----------------------------------------------------------------------------
(* The fold of a satisfied witness                                          *)

(* Folding a satisfied relaxed witness with a satisfied regular one gives a *)
(* satisfied relaxed one, whatever the challenge and the blind of the cross *)
(* term are: r times the cross term is all that is added to the error, in   *)
(* every row of any three matrices (nifs.rs:54-67, r1cs/folds.rs).          *)
THEOREM FoldOfSatisfiedIsSatisfied ==
  ASSUME IsShape(S), NEW W1, NEW W2, IsRelaxed(W1, S), IsRegular(W2, S), NEW r_T, NEW r \in Field
  PROVE  IsRelaxed(FoldWitness(W1, W2, CrossTerm(W1, W2), r_T, r), S)
  <1> DEFINE shape == S
             n == Columns(shape)
             m == shape.num_cons
             k == shape.num_vars
             o == shape.num_io
             V == W1.W
             W == W2.W
             X == W1.X
             Y == W2.X
             u == W1.u
             E == W1.E
             z == Join(V, u, X)
             w == Join(W, 1, Y)
             sum == [i \in DOMAIN z |-> Plus(z[i], w[i])]
             all == Excess(shape, sum, Plus(u, 1))
             T == [i \in DOMAIN all |-> Minus(all[i], E[i])]
             f == FoldWitness(W1, W2, CrossTerm(W1, W2), r_T, r)
  <1>1. CrossTerm(W1, W2) = T
    BY Zenon DEF CrossTerm
  <1>2. /\ f.W = Scaled(V, W, r) /\ f.E = Scaled(E, T, r) /\ f.u = Plus(u, r)
        /\ f.X = Scaled(X, Y, r)
    BY <1>1 DEF FoldWitness
  <1>3. m \in Nat /\ n \in Nat /\ k \in Nat /\ o \in Nat /\ n = k + 1 + o
    BY ShapeTypes DEF Columns
  <1>4. /\ V \in Vectors(k) /\ W \in Vectors(k) /\ X \in Vectors(o) /\ Y \in Vectors(o)
        /\ u \in Field /\ E = Excess(shape, z, u)
        /\ \A i \in 0 .. m - 1 : Excess(shape, w, 1)[i] = 0
    BY DEF IsRelaxed, IsRegular
  <1>5. IsShape(shape) /\ 1 \in Field /\ Plus(u, r) \in Field /\ Plus(u, 1) \in Field
    BY <1>4, Constants, FieldClosed
  <1> HIDE DEF shape, m, k, o, V, W, X, Y, u, E, f, all, T
  <1>6. z \in Vectors(n) /\ w \in Vectors(n)
    <2>1. MadeOf(z, V, u, X, k, o)
      BY <1>3, <1>4, JoinIs
    <2>2. MadeOf(w, W, 1, Y, k, o)
      BY <1>3, <1>4, <1>5, JoinIs
    <2> QED
      BY <1>3, <2>1, <2>2 DEF MadeOf
  <1>7. sum = Shifted(z, w, 1, n)
    <2>1. DOMAIN z = 0 .. n - 1 /\ \A i \in 0 .. n - 1 : w[i] \in Field
      BY <1>3, <1>6, VectorSize
    <2>2. \A i \in 0 .. n - 1 : Times(1, w[i]) = w[i]
      BY <2>1, FieldLaws
    <2> QED
      BY <2>1, <2>2 DEF Shifted
  <1>8. Join(f.W, f.u, f.X) = Shifted(z, w, r, n)
    <2>1. Join(Scaled(V, W, r), Plus(u, r), Scaled(X, Y, r)) = Shifted(z, w, r, k + 1 + o)
      BY <1>3, <1>4, JoinFolds
    <2> QED
      BY <1>2, <1>3, <2>1
  <1>9. f.W \in Vectors(k) /\ f.X \in Vectors(o) /\ f.u \in Field
    BY <1>2, <1>3, <1>4, <1>5, ShiftedIs
  <1>10. Shifted(z, w, r, n) \in Vectors(n) /\ Shifted(z, w, 1, n) \in Vectors(n)
    BY <1>3, <1>5, <1>6, ShiftedIs
  <1> DEFINE e(v, c) == [i \in 0 .. m - 1 |-> ExcessAt(shape, v, c, i, n)]
  <1>11. ASSUME NEW v \in Vectors(n), NEW c \in Field
         PROVE  Excess(shape, v, c) = e(v, c) /\ e(v, c) \in Vectors(m)
    <2>1. Excess(shape, v, c) = e(v, c) /\ Excess(shape, v, c) \in Vectors(m)
      BY <1>5, <1>11, ExcessIs DEF m
    <2> QED
      BY <2>1
  <1>12. E = e(z, u) /\ all = e(Shifted(z, w, 1, n), Plus(u, 1)) /\ all \in Vectors(m)
    <2>1. E = e(z, u)
      BY <1>4, <1>6, <1>11
    <2>2. all = Excess(shape, Shifted(z, w, 1, n), Plus(u, 1))
      BY <1>7 DEF all
    <2> QED
      BY <1>5, <1>10, <1>11, <2>1, <2>2
  <1>13. \A i \in 0 .. m - 1 : ExcessAt(shape, w, 1, i, n) = 0
    <2>1. Excess(shape, w, 1) = e(w, 1)
      BY <1>5, <1>6, <1>11
    <2> QED
      BY <1>4, <2>1
  <1>14. Excess(shape, Shifted(z, w, r, n), Plus(u, r)) = e(Shifted(z, w, r, n), Plus(u, r))
    BY <1>5, <1>10, <1>11
  <1> HIDE DEF z, w, sum, n
  <1>15. ASSUME NEW i \in 0 .. m - 1
         PROVE  e(Shifted(z, w, r, n), Plus(u, r))[i] = f.E[i]
    <2> DEFINE p == ExcessAt(shape, z, u, i, n)
               q == ExcessAt(shape, Shifted(z, w, 1, n), Plus(u, 1), i, n)
               g == ExcessAt(shape, Shifted(z, w, r, n), Plus(u, r), i, n)
    <2>1. g = Plus(p, Times(r, Minus(q, p)))
      BY <1>4, <1>5, <1>6, <1>13, ExcessFolds DEF n, m
    <2>2. E[i] = p /\ all[i] = q /\ e(Shifted(z, w, r, n), Plus(u, r))[i] = g
      BY <1>12
    <2> HIDE DEF p, q, g, e
    <2>3. DOMAIN all = 0 .. m - 1
      BY <1>3, <1>12, VectorSize
    <2>4. T[i] = Minus(q, p)
      BY <2>2, <2>3 DEF T
    <2>5. DOMAIN E = 0 .. m - 1
      BY <1>12 DEF e
    <2>6. f.E[i] = Plus(E[i], Times(r, T[i]))
      BY <1>2, <2>5 DEF Scaled
    <2> QED
      BY <2>1, <2>2, <2>4, <2>6
  <1>16. DOMAIN f.E = 0 .. m - 1
    BY <1>2, <1>12 DEF Scaled
  <1>17. f.E = [i \in 0 .. m - 1 |-> f.E[i]]
    BY <1>2, <1>16 DEF Scaled
  <1>18. Excess(shape, Join(f.W, f.u, f.X), f.u) = f.E
    <2>1. Excess(shape, Join(f.W, f.u, f.X), f.u) = e(Shifted(z, w, r, n), Plus(u, r))
      BY <1>2, <1>8, <1>14
    <2>2. e(Shifted(z, w, r, n), Plus(u, r)) = [i \in 0 .. m - 1 |-> e(Shifted(z, w, r, n), Plus(u, r))[i]]
      OBVIOUS
    <2> HIDE DEF e
    <2> QED
      BY <1>15, <1>17, <2>1, <2>2
  <1>19. IsRelaxed(f, shape)
    BY <1>9, <1>18 DEF IsRelaxed, k, o
  <1> QED
    BY <1>19 DEF f, shape

-----------------------------------------------------------------------------
(* The instance that is folded is that of the folded witness                *)

(* Two commitments, folded. *)
LEMMA TwoCommit ==
  ASSUME NEW n \in Nat, NEW v \in Vectors(n), NEW w \in Vectors(n), NEW r \in Field,
         NEW a \in Vectors(NumRows(n)), NEW b \in Vectors(NumRows(n))
  PROVE  fold_commitments(<<Commit(v, a), Commit(w, b)>>, <<1, r>>)
           = Commit(Scaled(v, w, r), fold_blinds(<<a, b>>, <<1, r>>))
  <1> DEFINE x == <<1, r>>
             V == <<v, w>>
             R == <<a, b>>
             C == <<Commit(v, a), Commit(w, b)>>
             m == NumRows(n)
  <1>1. m \in Nat
    BY WidthFacts
  <1>2. Weighed(x, V, 2, n) /\ fold_vectors(V, x) = Scaled(v, w, r)
    BY TwoFold
  <1>3. Weighed(x, R, 2, m)
    <2> HIDE DEF m
    <2>1. a \in Vectors(m) /\ b \in Vectors(m)
      BY DEF m
    <2> QED
      BY <1>1, <2>1, TwoFold
  <1>4. Committed(C, V, R, 2)
    <2>1. C = [i \in 1 .. 2 |-> IF i = 1 THEN Commit(v, a) ELSE Commit(w, b)]
          /\ V[1] = v /\ V[2] = w /\ R[1] = a /\ R[2] = b
      BY FewAre
    <2> HIDE DEF C, V, R
    <2>2. C = [i \in 1 .. 2 |-> Commit(V[i], R[i])]
      <3>1. \A i \in 1 .. 2 : i = 1 \/ i = 2
        OBVIOUS
      <3> QED
        BY <2>1, <3>1
    <2> QED
      BY <2>2, Zenon DEF Committed
  <1>5. 2 \in Nat \ {0}
    OBVIOUS
  <1> HIDE DEF x, V, R, C
  <1>6. fold_commitments(C, x) = Commit(fold_vectors(V, x), fold_blinds(R, x))
    BY <1>2, <1>3, <1>4, <1>5, FoldCommitmentsIs DEF m
  <1> QED
    BY <1>2, <1>6 DEF x, V, R, C

(* The lengths of what is folded: n variables, m constraints. *)
CommittedWitness(w, n) == w.W \in Vectors(n) /\ w.r_W \in Vectors(NumRows(n))
CommittedError(e, r, m) == e \in Vectors(m) /\ r \in Vectors(NumRows(m))

(* A verifier that folds two instances and the commitment to the cross term *)
(* has the instance of the witness that the prover folds, whatever the      *)
(* challenge (nifs.rs:54-67, 70-91, r1cs/folds.rs:178-207).                 *)
THEOREM FoldedInstanceIsOfFoldedWitness ==
  ASSUME NEW n \in Nat, NEW m \in Nat, NEW W1, NEW W2, NEW T, NEW r_T, NEW r \in Field,
         CommittedWitness(W1, n), CommittedWitness(W2, n),
         CommittedError(W1.E, W1.r_E, m), CommittedError(T, r_T, m)
  PROVE  FoldInstance(Instance(W1), [comm_W |-> Commit(W2.W, W2.r_W), X |-> W2.X], Commit(T, r_T), r)
           = Instance(FoldWitness(W1, W2, T, r_T, r))
  <1> DEFINE U1 == Instance(W1)
             U2 == [comm_W |-> Commit(W2.W, W2.r_W), X |-> W2.X]
             f == FoldWitness(W1, W2, T, r_T, r)
  <1>1. /\ U1.comm_W = Commit(W1.W, W1.r_W) /\ U1.comm_E = Commit(W1.E, W1.r_E)
        /\ U1.u = W1.u /\ U1.X = W1.X
        /\ U2.comm_W = Commit(W2.W, W2.r_W) /\ U2.X = W2.X
    BY DEF Instance
  <1>2. /\ f.W = Scaled(W1.W, W2.W, r) /\ f.E = Scaled(W1.E, T, r)
        /\ f.u = Plus(W1.u, r) /\ f.X = Scaled(W1.X, W2.X, r)
        /\ f.r_W = fold_blinds(<<W1.r_W, W2.r_W>>, <<1, r>>)
        /\ f.r_E = fold_blinds(<<W1.r_E, r_T>>, <<1, r>>)
    BY DEF FoldWitness
  <1> HIDE DEF U1, U2, f
  <1>3. fold_commitments(<<U1.comm_W, U2.comm_W>>, <<1, r>>) = Commit(f.W, f.r_W)
    <2> DEFINE v == W1.W
               w == W2.W
               a == W1.r_W
               b == W2.r_W
    <2>1. v \in Vectors(n) /\ w \in Vectors(n) /\ a \in Vectors(NumRows(n)) /\ b \in Vectors(NumRows(n))
      BY DEF CommittedWitness
    <2> HIDE DEF v, w, a, b
    <2>2. fold_commitments(<<Commit(v, a), Commit(w, b)>>, <<1, r>>)
            = Commit(Scaled(v, w, r), fold_blinds(<<a, b>>, <<1, r>>))
      BY <2>1, TwoCommit
    <2> QED
      BY <1>1, <1>2, <2>2 DEF v, w, a, b
  <1>4. fold_commitments(<<U1.comm_E, Commit(T, r_T)>>, <<1, r>>) = Commit(f.E, f.r_E)
    <2> DEFINE v == W1.E
               a == W1.r_E
    <2>1. v \in Vectors(m) /\ T \in Vectors(m) /\ a \in Vectors(NumRows(m)) /\ r_T \in Vectors(NumRows(m))
      BY DEF CommittedError
    <2> HIDE DEF v, a
    <2>2. fold_commitments(<<Commit(v, a), Commit(T, r_T)>>, <<1, r>>)
            = Commit(Scaled(v, T, r), fold_blinds(<<a, r_T>>, <<1, r>>))
      BY <2>1, TwoCommit
    <2> QED
      BY <1>1, <1>2, <2>2 DEF v, a
  <1>5. FoldInstance(U1, U2, Commit(T, r_T), r)
          = [comm_W |-> Commit(f.W, f.r_W), comm_E |-> Commit(f.E, f.r_E), u |-> f.u, X |-> f.X]
    BY <1>1, <1>2, <1>3, <1>4, Zenon DEF FoldInstance
  <1> QED
    BY <1>5, Zenon DEF Instance, U1, U2, f

-----------------------------------------------------------------------------
(* What is folded, and what was noted of it                                 *)

LEMMA RandomIs ==
  ASSUME IsShape(S), IsFold(S, job.random, job.regular)
  PROVE  /\ IsRelaxed(RandomWitness, S) /\ IsRegular(job.regular, S)
         /\ CommittedWitness(RandomWitness, S.num_vars) /\ CommittedWitness(job.regular, S.num_vars)
         /\ CommittedError(RandomWitness.E, RandomWitness.r_E, S.num_cons)
  <1> DEFINE n == S.num_vars
             k == S.num_io
             m == S.num_cons
             z == job.random.z
             a == job.random.r_W
             b == job.random.r_E
             W == [i \in 0 .. n - 1 |-> z[i]]
             X == [j \in 0 .. k - 1 |-> z[n + 1 + j]]
             E == Excess(S, z, z[n])
             w == RandomWitness
             y == job.regular
             shape == S
  <1>1. /\ n \in Nat /\ k \in Nat /\ m \in Nat /\ Columns(S) = n + 1 + k
    <2>1. shape.num_vars \in Nat /\ shape.num_io \in Nat /\ shape.num_cons \in Nat
      <3> HIDE DEF shape
      <3>1. IsShape(shape)
        BY DEF shape
      <3> QED
        BY <3>1, ShapeTypes
    <2> QED
      BY <2>1 DEF Columns
  <1>2. /\ z \in Vectors(n + 1 + k) /\ a \in Vectors(NumRows(n)) /\ b \in Vectors(NumRows(m))
        /\ IsWitness(y, n) /\ y.X \in Vectors(k)
        /\ \A i \in 0 .. m - 1 : Excess(S, Join(y.W, 1, y.X), 1)[i] = 0
    BY Zenon DEF IsFold
  <1>3. w = [W |-> W, u |-> z[n], X |-> X, E |-> E, r_W |-> a, r_E |-> b]
    BY Zenon DEF RandomWitness
  <1> HIDE DEF n, k, m, z, a, b, y, w, shape
  <1>4. W \in Vectors(n) /\ X \in Vectors(k) /\ z[n] \in Field /\ Join(W, z[n], X) = z
    BY <1>1, <1>2, JoinUndoes
  <1>5. E \in Vectors(m)
    <2> DEFINE u == z[n]
    <2>1. IsShape(shape) /\ z \in Vectors(Columns(shape)) /\ u \in Field
      BY <1>1, <1>2, <1>4 DEF shape
    <2> HIDE DEF u
    <2>2. Excess(shape, z, u) \in Vectors(shape.num_cons)
      BY <2>1, ExcessIs
    <2> QED
      BY <2>2 DEF shape, u, m
  <1> HIDE DEF W, X, E
  <1>6. w.W = W /\ w.u = z[n] /\ w.X = X /\ w.E = E /\ w.r_W = a /\ w.r_E = b
    BY <1>3
  <1>7. IsRelaxed(w, S)
    BY <1>4, <1>6, Zenon DEF IsRelaxed, E, n, k
  <1>8. IsRegular(y, S)
    BY <1>2, Zenon DEF IsRegular, IsWitness, n, k, m
  <1>9. CommittedWitness(w, n) /\ CommittedWitness(y, n)
    BY <1>2, <1>4, <1>6 DEF CommittedWitness, IsWitness
  <1>10. CommittedError(w.E, w.r_E, m)
    BY <1>2, <1>5, <1>6 DEF CommittedError
  <1> QED
    BY <1>7, <1>8, <1>9, <1>10 DEF w, y, n, m

LEMMA CrossTermIs ==
  ASSUME NEW shape, shape = S, IsShape(shape), NEW W1, NEW W2, IsRelaxed(W1, shape), IsRegular(W2, shape)
  PROVE  CrossTerm(W1, W2) \in Vectors(shape.num_cons)
  <1> DEFINE n == shape.num_vars
             k == shape.num_io
             m == shape.num_cons
             V == W1.W
             X == W1.X
             u == W1.u
             W == W2.W
             Y == W2.X
             z == Join(V, u, X)
             w == Join(W, 1, Y)
             sum == [i \in DOMAIN z |-> Plus(z[i], w[i])]
             all == Excess(shape, sum, Plus(u, 1))
             E == W1.E
  <1>1. /\ n \in Nat /\ k \in Nat /\ m \in Nat /\ Columns(shape) = n + 1 + k
    BY ShapeTypes DEF Columns
  <1>2. /\ V \in Vectors(n) /\ X \in Vectors(k) /\ u \in Field /\ Excess(shape, z, u) = E
        /\ W \in Vectors(n) /\ Y \in Vectors(k)
    BY DEF IsRelaxed, IsRegular
  <1>3. CrossTerm(W1, W2) = [i \in DOMAIN all |-> Minus(all[i], E[i])]
    BY Zenon DEF CrossTerm
  <1> HIDE DEF n, k, m, V, X, u, W, Y
  <1>4. z \in Vectors(n + 1 + k) /\ w \in Vectors(n + 1 + k)
    BY <1>1, <1>2, Constants, JoinIs DEF MadeOf
  <1>5. sum \in Vectors(n + 1 + k)
    <2> DEFINE N == n + 1 + k
    <2>1. N \in Nat
      BY <1>1
    <2> HIDE DEF N, z, w
    <2>2. z \in Vectors(N) /\ w \in Vectors(N)
      BY <1>4 DEF N
    <2>3. DOMAIN z = 0 .. N - 1 /\ \A i \in 0 .. N - 1 : z[i] \in Field /\ w[i] \in Field
      BY <2>1, <2>2, VectorSize
    <2>4. \A i \in 0 .. N - 1 : Plus(z[i], w[i]) \in Field
      BY <2>3, FieldClosed
    <2>5. sum \in Vectors(N)
      BY <2>3, <2>4 DEF Vectors
    <2> QED
      BY <2>5 DEF N
  <1>6. all \in Vectors(m) /\ E \in Vectors(m)
    <2> DEFINE c == Plus(u, 1)
    <2>1. c \in Field
      BY <1>2, Constants, FieldClosed
    <2> HIDE DEF z, sum, c
    <2>2. Excess(shape, sum, c) \in Vectors(shape.num_cons) /\ Excess(shape, z, u) \in Vectors(shape.num_cons)
      BY <1>1, <1>2, <1>4, <1>5, <2>1, ExcessIs
    <2> QED
      BY <1>2, <2>2 DEF c, m
  <1> HIDE DEF all, E
  <1>7. DOMAIN all = 0 .. m - 1 /\ \A i \in 0 .. m - 1 : all[i] \in Field /\ E[i] \in Field
    BY <1>1, <1>6, VectorSize
  <1>8. \A i \in 0 .. m - 1 : Minus(all[i], E[i]) \in Field
    BY <1>7, FieldClosed
  <1>9. CrossTerm(W1, W2) \in Vectors(m)
    BY <1>3, <1>7, <1>8 DEF Vectors
  <1> QED
    BY <1>9 DEF m

-----------------------------------------------------------------------------
(* The evaluation that is opened, and what both sides hold with zero        *)
(* knowledge                                                                *)

LEMMA ScalarIs ==
  ASSUME NEW a \in Field
  PROVE  Scalar(a) \in Vectors(1) /\ DOMAIN Scalar(a) = {0} /\ Scalar(a)[0] = a
  <1>1. 0 .. 1 - 1 = {0}
    OBVIOUS
  <1> QED
    BY <1>1 DEF Scalar, Vectors

(* One opening of the fold instead of one of each part. *)
LEMMA PartsEvaluate ==
  ASSUME NEW l \in Nat, NEW p \in [1 .. l -> Field], NEW V \in Vectors(PowerOfTwo[l]),
         NEW W, HasCore => W \in Vectors(PowerOfTwo[l]), NEW d, HasCore => LastAnswer(d) \in Field
  PROVE  fold_vectors(Parts(Scalar(Extension(V, p)), Scalar(Extension(W, p))), PartWeights(d))
           = Scalar(Extension(fold_vectors(Parts(V, W), PartWeights(d)), p))
  <1> DEFINE n == PowerOfTwo[l]
             a == Extension(V, p)
             b == Extension(W, p)
             w == PartWeights(d)
  <1>1. n \in Nat /\ a \in Field
    BY PowerFacts, ExtensionInField
  <1>2. Scalar(a) \in Vectors(1) /\ DOMAIN Scalar(a) = {0} /\ Scalar(a)[0] = a
    <2> HIDE DEF a
    <2> QED
      BY <1>1, ScalarIs
  <1>3. CASE HasCore
    <2> DEFINE r == LastAnswer(d)
               f == Scaled(V, W, r)
    <2>1. r \in Field /\ W \in Vectors(n) /\ b \in Field
      BY <1>3, ExtensionInField
    <2>2. w = <<1, r>> /\ \A x, y : Parts(x, y) = <<x, y>>
      BY <1>3, Zenon DEF PartWeights, Parts
    <2>3. Extension(f, p) = Plus(a, Times(r, b))
      <3> HIDE DEF r
      <3> QED
        BY <2>1, ExtensionFolds
    <2> HIDE DEF n, a, b, r, w
    <2>4. fold_vectors(<<V, W>>, <<1, r>>) = f
      BY <1>1, <2>1, TwoFold DEF n
    <2>5. Scalar(b) \in Vectors(1) /\ Scalar(b)[0] = b
      BY <2>1, ScalarIs
    <2>6. fold_vectors(<<Scalar(a), Scalar(b)>>, <<1, r>>) = Scaled(Scalar(a), Scalar(b), r)
      <3> DEFINE x == Scalar(a)
                 y == Scalar(b)
      <3>1. x \in Vectors(1) /\ y \in Vectors(1) /\ 1 \in Nat
        BY <1>2, <2>5
      <3> HIDE DEF x, y
      <3>2. fold_vectors(<<x, y>>, <<1, r>>) = Scaled(x, y, r)
        BY <2>1, <3>1, TwoFold
      <3> QED
        BY <3>2 DEF x, y
    <2>7. Scaled(Scalar(a), Scalar(b), r) = Scalar(Plus(a, Times(r, b)))
      <3>1. \A i \in {0} : Plus(Scalar(a)[i], Times(r, Scalar(b)[i])) = Plus(a, Times(r, b))
        BY <1>2, <2>5
      <3> QED
        BY <1>2, <3>1 DEF Scaled, Scalar
    <2> HIDE DEF f
    <2>8. fold_vectors(Parts(Scalar(a), Scalar(b)), w) = Scalar(Extension(fold_vectors(Parts(V, W), w), p))
      BY <2>2, <2>3, <2>4, <2>6, <2>7
    <2> QED
      BY <2>8 DEF a, b, w
  <1>4. CASE ~HasCore
    <2>1. w = <<1>> /\ \A x, y : Parts(x, y) = <<x>>
      BY <1>4, Zenon DEF PartWeights, Parts
    <2> HIDE DEF a, b, w, n
    <2>2. fold_vectors(<<V>>, <<1>>) = V
      BY <1>1, OneFold DEF n
    <2>3. fold_vectors(<<Scalar(a)>>, <<1>>) = Scalar(a)
      <3> DEFINE x == Scalar(a)
      <3>1. x \in Vectors(1) /\ 1 \in Nat
        BY <1>2
      <3> HIDE DEF x
      <3>2. fold_vectors(<<x>>, <<1>>) = x
        BY <3>1, OneFold
      <3> QED
        BY <3>2 DEF x
    <2>4. fold_vectors(Parts(Scalar(a), Scalar(b)), w) = Scalar(Extension(fold_vectors(Parts(V, W), w), p))
      BY <2>1, <2>2, <2>3 DEF a
    <2> QED
      BY <2>4 DEF a, b, w
  <1> QED
    BY <1>3, <1>4

(* The blinds of the evaluations are those of the parts. *)
LEMMA EvalBlindsAre ==
  ASSUME IsMain(job.main)
  PROVE  /\ job.main.eval_blinds = Parts(job.main.eval_blinds[1], job.main.eval_blinds[2])
         /\ job.main.eval_blinds[1] \in Vectors(1)
         /\ HasCore => job.main.eval_blinds[2] \in Vectors(1)
  <1> DEFINE r == job.main.eval_blinds
             k == Len(job.main.core)
  <1>1. r \in [1 .. 1 + k -> Vectors(1)]
    BY Zenon DEF IsMain
  <1>2. CASE HasCore
    <2>1. k = 1
      BY <1>2, CoreIs
    <2> HIDE DEF r, k
    <2>2. r \in [1 .. 2 -> Vectors(1)] /\ \A i \in 1 .. 2 : i = 1 \/ i = 2
      BY <1>1, <2>1
    <2>3. r = [i \in 1 .. 2 |-> IF i = 1 THEN r[1] ELSE r[2]]
      BY <2>2
    <2>4. r = <<r[1], r[2]>> /\ r[1] \in Vectors(1) /\ r[2] \in Vectors(1)
      BY <2>2, <2>3, FewAre
    <2>5. r = Parts(r[1], r[2])
      BY <1>2, <2>4, Zenon DEF Parts
    <2> QED
      BY <2>4, <2>5 DEF r
  <1>3. CASE ~HasCore
    <2>1. k = 0
      <3>1. job.main.core = <<>>
        BY <1>3 DEF HasCore
      <3>2. Len(<<>>) = 0
        OBVIOUS
      <3> QED
        BY <3>1, <3>2, Zenon
    <2> HIDE DEF r, k
    <2>2. r \in [1 .. 1 -> Vectors(1)] /\ \A i \in 1 .. 1 : i = 1
      BY <1>1, <2>1
    <2>3. r = [i \in 1 .. 1 |-> r[1]]
      BY <2>2
    <2>4. r = <<r[1]>> /\ r[1] \in Vectors(1)
      BY <2>2, <2>3, FewAre
    <2>5. r = Parts(r[1], r[2])
      BY <1>3, <2>4, Zenon DEF Parts
    <2> QED
      BY <1>3, <2>4, <2>5 DEF r
  <1> QED
    BY <1>2, <1>3

(* The commitment that the verifier folds from those of the evaluations.    *)
LEMMA ClaimEvaluates ==
  ASSUME IsMain(job.main), NEW d, HasCore => LastAnswer(d) \in Field
  PROVE  fold_commitments(Parts(EvalRow(1, FoldedSteps.W), EvalRow(2, Core.W)), PartWeights(d))
           = Commit(Scalar(Extension(ZkClaim(PartWeights(d)).W, job.main.point)),
                    ZkClaim(PartWeights(d)).r_eval)
  <1> DEFINE w == PartWeights(d)
             p == job.main.point
             l == Len(p)
             V == FoldedSteps.W
             W == Core.W
             a == Extension(V, p)
             b == Extension(W, p)
             blinds == job.main.eval_blinds
             r1 == blinds[1]
             r2 == blinds[2]
  <1>1. l \in Nat /\ p \in [1 .. l -> Field] /\ V \in Vectors(PowerOfTwo[l])
        /\ (HasCore => W \in Vectors(PowerOfTwo[l]))
    BY StepsAre, StepsFold, CoreIs DEF MainSize, IsOpening
  <1>2. blinds = Parts(r1, r2) /\ r1 \in Vectors(1) /\ (HasCore => r2 \in Vectors(1))
    BY EvalBlindsAre
  <1>3. ZkClaim(w).W = fold_vectors(Parts(V, W), w) /\ ZkClaim(w).r_eval = fold_blinds(blinds, w)
    BY DEF ZkClaim
  <1>4. EvalRow(1, V) = Commit(Scalar(a), r1) /\ EvalRow(2, W) = Commit(Scalar(b), r2)
    BY Zenon DEF EvalRow, Evaluation
  <1>5. NumRows(1) = 1
    BY WidthFacts, CeilingIs DEF NumRows
  <1> HIDE DEF p, l, V, W, blinds, r1, r2, w
  <1>6. a \in Field /\ (HasCore => b \in Field)
    BY <1>1, ExtensionInField
  <1>7. fold_vectors(Parts(Scalar(a), Scalar(b)), w) = Scalar(Extension(fold_vectors(Parts(V, W), w), p))
    BY <1>1, PartsEvaluate DEF w
  <1> HIDE DEF a, b
  <1>8. IsOpening(Scalar(a), r1, 1) /\ (HasCore => IsOpening(Scalar(b), r2, 1))
    BY <1>2, <1>5, <1>6, ScalarIs DEF IsOpening
  <1> DEFINE x == Scalar(a)
             y == Scalar(b)
  <1> HIDE DEF x, y
  <1>9. PartsFolded(x, r1, y, r2, 1, w)
    <2>1. IsOpening(x, r1, 1) /\ (HasCore => IsOpening(y, r2, 1)) /\ 1 \in Nat
      BY <1>8 DEF x, y
    <2> QED
      BY <2>1, PartsFold DEF w
  <1>10. fold_commitments(Parts(Commit(x, r1), Commit(y, r2)), w)
           = Commit(fold_vectors(Parts(x, y), w), fold_blinds(Parts(r1, r2), w))
    BY <1>9, Zenon DEF PartsFolded
  <1>11. fold_commitments(Parts(EvalRow(1, V), EvalRow(2, W)), w)
           = Commit(Scalar(Extension(ZkClaim(w).W, p)), ZkClaim(w).r_eval)
    BY <1>2, <1>3, <1>4, <1>7, <1>10, Zenon DEF x, y
  <1> QED
    BY <1>11, Zenon DEF w, V, W, p

-----------------------------------------------------------------------------
(* The two sum-checks                                                       *)

(* The products of a shape with an assignment. *)
Product(M, z) == RowProducts(M, z, S.num_cons, Columns(S))

LEMMA ProductIs ==
  ASSUME IsShape(S), NEW M \in [0 .. S.num_cons - 1 -> Vectors(Columns(S))], NEW z \in Vectors(Columns(S))
  PROVE  Multiply(M, z) = Product(M, z) /\ Product(M, z) \in Vectors(S.num_cons)
  <1>1. S.num_cons \in Nat /\ Columns(S) \in Nat
    BY ShapeTypes
  <1>2. /\ Multiply(M, z) = [i \in 0 .. S.num_cons - 1 |-> Dot(M[i], z, Columns(S))]
        /\ Multiply(M, z) \in Vectors(S.num_cons)
    BY <1>1, MultiplyIs
  <1> QED
    BY <1>2, Zenon DEF Product, RowProducts

(* A relaxed witness satisfies the relation with its error as a part of Cz. *)
LEMMA RelaxedHolds ==
  ASSUME IsShape(S), NEW z \in Vectors(Columns(S)), NEW u \in Field
  PROVE  LET Cz == WithError(u, Product(S.C, z), Excess(S, z, u))
         IN  /\ Cz \in Vectors(S.num_cons)
             /\ \A i \in 0 .. S.num_cons - 1 : Times(Product(S.A, z)[i], Product(S.B, z)[i]) = Cz[i]
  <1> DEFINE m == S.num_cons
             a == Product(S.A, z)
             b == Product(S.B, z)
             c == Product(S.C, z)
             E == Excess(S, z, u)
             d == WithError(u, c, E)
  <1>1. m \in Nat /\ a \in Vectors(m) /\ b \in Vectors(m) /\ c \in Vectors(m)
    BY ShapeTypes, ProductIs
  <1>2. /\ E = [i \in 0 .. m - 1 |-> ExcessAt(S, z, u, i, Columns(S))]
        /\ E \in Vectors(m)
    BY ExcessIs
  <1>3. \A i \in 0 .. m - 1 : ExcessAt(S, z, u, i, Columns(S)) = Minus(Times(a[i], b[i]), Times(u, c[i]))
    BY Zenon DEF ExcessAt, RowExcess, Product, RowProducts
  <1> HIDE DEF a, b, c, E, m
  <1>4. \A i \in 0 .. m - 1 : a[i] \in Field /\ b[i] \in Field /\ c[i] \in Field /\ E[i] \in Field
    BY <1>1, <1>2, VectorSize
  <1>5. \A i \in 0 .. m - 1 : Times(a[i], b[i]) \in Field /\ Times(u, c[i]) \in Field
    BY <1>4, FieldClosed
  <1>6. DOMAIN c = 0 .. m - 1
    BY <1>1, VectorSize
  <1>7. \A i \in 0 .. m - 1 : Times(a[i], b[i]) = Plus(Times(u, c[i]), E[i])
    BY <1>2, <1>3, <1>5, TakenAway
  <1>8. \A i \in 0 .. m - 1 : d[i] = Plus(Times(u, c[i]), E[i])
    BY <1>6 DEF WithError
  <1>9. \A i \in 0 .. m - 1 : d[i] \in Field
    BY <1>4, <1>5, <1>8, FieldClosed
  <1>10. d \in Vectors(m)
    BY <1>6, <1>9 DEF WithError, Vectors
  <1>11. \A i \in 0 .. m - 1 : Times(a[i], b[i]) = d[i]
    BY <1>7, <1>8
  <1> QED
    BY <1>10, <1>11 DEF a, b, c, E, m

(* The three products of a bound shape with a vector, joined. *)
Weigh(t, M, z) == Dot(t, Product(M, z), S.num_cons)
JoinedWeights(t, z, u, r) ==
  Plus(Weigh(t, S.A, z), Plus(Times(r, Weigh(t, S.B, z)), Times(Times(Times(r, r), u), Weigh(t, S.C, z))))

(* poly_ABC times a vector. *)
LEMMA BoundColumnsAre ==
  ASSUME IsShape(S), NEW x, EvalsFromPoints(x) \in Vectors(S.num_cons), NEW u \in Field, NEW r \in Field,
         NEW z \in Vectors(Columns(S))
  PROVE  /\ BoundColumns(x, u, r) \in Vectors(Columns(S))
         /\ Dot(BoundColumns(x, u, r), z, Columns(S)) = JoinedWeights(EvalsFromPoints(x), z, u, r)
  <1> DEFINE m == S.num_cons
             n == Columns(S)
             t == EvalsFromPoints(x)
             a == ColumnProducts(S.A, t, m, n)
             b == ColumnProducts(S.B, t, m, n)
             c == ColumnProducts(S.C, t, m, n)
             k == Times(Times(r, r), u)
             bc == BoundColumns(x, u, r)
             ab == Shifted(a, b, r, n)
  <1>0. /\ m \in Nat /\ n \in Nat /\ IsMatrix(S.A, m, n) /\ IsMatrix(S.B, m, n) /\ IsMatrix(S.C, m, n)
        /\ DOMAIN S.A = 0 .. m - 1 /\ DOMAIN S.B = 0 .. m - 1 /\ DOMAIN S.C = 0 .. m - 1
    BY ShapeTypes DEF IsMatrix
  <1>1. k \in Field
    BY FieldClosed
  <1>2. bc = [j \in 0 .. n - 1 |-> Plus(a[j], Plus(Times(r, b[j]), Times(k, c[j])))]
    <2> DEFINE col(M, j) == SumOf([i \in DOMAIN M |-> Times(t[i], M[i][j])])
    <2>1. bc = [j \in 0 .. S.num_vars + S.num_io |->
                  Plus(col(S.A, j), Plus(Times(r, col(S.B, j)), Times(k, col(S.C, j))))]
      BY Zenon DEF BoundColumns
    <2>2. S.num_vars + S.num_io = n - 1
      BY ShapeTypes DEF Columns
    <2>3. ASSUME NEW j \in 0 .. n - 1 PROVE col(S.A, j) = a[j] /\ col(S.B, j) = b[j] /\ col(S.C, j) = c[j]
      <3>1. /\ a[j] = SumOf([i \in 0 .. m - 1 |-> Times(t[i], S.A[i][j])])
            /\ b[j] = SumOf([i \in 0 .. m - 1 |-> Times(t[i], S.B[i][j])])
            /\ c[j] = SumOf([i \in 0 .. m - 1 |-> Times(t[i], S.C[i][j])])
        BY Zenon DEF ColumnProducts
      <3>2. /\ col(S.A, j) = SumOf([i \in 0 .. m - 1 |-> Times(t[i], S.A[i][j])])
            /\ col(S.B, j) = SumOf([i \in 0 .. m - 1 |-> Times(t[i], S.B[i][j])])
            /\ col(S.C, j) = SumOf([i \in 0 .. m - 1 |-> Times(t[i], S.C[i][j])])
        BY <1>0, Zenon
      <3> QED
        BY <3>1, <3>2, Zenon
    <2> HIDE DEF a, b, c, k, bc, n, m, col
    <2> QED
      BY <2>1, <2>2, <2>3
  <1> HIDE DEF m, n, t
  <1>3. t \in Vectors(m) /\ z \in Vectors(n)
    BY DEF m, n, t
  <1>4. /\ a \in Vectors(n) /\ Dot(a, z, n) = Dot(t, RowProducts(S.A, z, m, n), m)
        /\ b \in Vectors(n) /\ Dot(b, z, n) = Dot(t, RowProducts(S.B, z, m, n), m)
        /\ c \in Vectors(n) /\ Dot(c, z, n) = Dot(t, RowProducts(S.C, z, m, n), m)
    BY <1>0, <1>3, MatrixSwaps
  <1> HIDE DEF a, b, c, k, bc
  <1>5. \A j \in 0 .. n - 1 : a[j] \in Field /\ b[j] \in Field /\ c[j] \in Field
    BY <1>0, <1>4, VectorSize
  <1>6. ab \in Vectors(n)
    BY <1>0, <1>4, ShiftedIs
  <1>7. bc = Shifted(ab, c, k, n)
    <2>1. ASSUME NEW j \in 0 .. n - 1
          PROVE  Plus(a[j], Plus(Times(r, b[j]), Times(k, c[j]))) = Plus(Plus(a[j], Times(r, b[j])), Times(k, c[j]))
      <3>1. a[j] \in Field /\ Times(r, b[j]) \in Field /\ Times(k, c[j]) \in Field
        BY <1>1, <1>5, FieldClosed
      <3> QED
        BY <3>1, FieldLaws
    <2> QED
      BY <1>2, <2>1 DEF Shifted
  <1> HIDE DEF ab
  <1>8. bc \in Vectors(n)
    BY <1>0, <1>1, <1>4, <1>6, <1>7, ShiftedIs
  <1>9. Dot(z, bc, n) = Plus(Dot(z, ab, n), Times(k, Dot(z, c, n)))
    BY <1>0, <1>1, <1>3, <1>4, <1>6, <1>7, DotIsLinear
  <1>10. Dot(z, ab, n) = Plus(Dot(z, a, n), Times(r, Dot(z, b, n)))
    BY <1>0, <1>3, <1>4, DotIsLinear DEF ab
  <1>11. /\ Dot(z, bc, n) = Dot(bc, z, n) /\ Dot(z, a, n) = Dot(a, z, n) /\ Dot(z, b, n) = Dot(b, z, n)
         /\ Dot(z, c, n) = Dot(c, z, n)
         /\ Dot(a, z, n) \in Field /\ Dot(b, z, n) \in Field /\ Dot(c, z, n) \in Field
    BY <1>0, <1>3, <1>4, <1>8, DotCommutes
  <1> DEFINE da == Dot(a, z, n)
             db == Times(r, Dot(b, z, n))
             dc == Times(k, Dot(c, z, n))
  <1>12. da \in Field /\ db \in Field /\ dc \in Field
    BY <1>1, <1>11, FieldClosed
  <1>13. Dot(bc, z, n) = Plus(Plus(da, db), dc)
    BY <1>9, <1>10, <1>11
  <1> HIDE DEF da, db, dc
  <1>14. Dot(bc, z, n) = Plus(da, Plus(db, dc))
    BY <1>12, <1>13, FieldLaws
  <1>15. da = Weigh(t, S.A, z) /\ db = Times(r, Weigh(t, S.B, z)) /\ dc = Times(k, Weigh(t, S.C, z))
    BY <1>4 DEF da, db, dc, Weigh, Product, m, n
  <1> QED
    BY <1>8, <1>14, <1>15 DEF JoinedWeights, bc, n, t, k

(* The evaluation of the shape at a point, for the verifier. *)
LEMMA EvalABCIs ==
  ASSUME IsShape(S), NEW x, EvalsFromPoints(x) \in Vectors(S.num_cons), NEW y, NEW u, NEW r,
         FirstPart(EvalsFromPoints(y), Columns(S)) \in Vectors(Columns(S))
  PROVE  EvalABC(x, y, u, r)
           = JoinedWeights(EvalsFromPoints(x), FirstPart(EvalsFromPoints(y), Columns(S)), u, r)
  <1> DEFINE m == S.num_cons
             n == Columns(S)
             t == EvalsFromPoints(x)
             T == EvalsFromPoints(y)
             w == FirstPart(T, n)
             val(M) == SumOf([i \in DOMAIN M |->
                         Times(t[i], SumOf([j \in DOMAIN M[i] |-> Times(T[j], M[i][j])]))])
  <1>1. EvalABC(x, y, u, r) = Plus(val(S.A), Plus(Times(r, val(S.B)), Times(Times(Times(r, r), u), val(S.C))))
    BY Zenon DEF EvalABC
  <1>2. /\ m \in Nat /\ n \in Nat
        /\ S.A \in [0 .. m - 1 -> Vectors(n)] /\ S.B \in [0 .. m - 1 -> Vectors(n)]
        /\ S.C \in [0 .. m - 1 -> Vectors(n)]
    BY ShapeTypes
  <1>3. w \in Vectors(n) /\ t \in Vectors(m)
    OBVIOUS
  <1>4. \A j \in 0 .. n - 1 : w[j] = T[j]
    BY DEF FirstPart
  <1>5. ASSUME NEW M \in [0 .. m - 1 -> Vectors(n)] PROVE val(M) = Weigh(t, M, w)
    <2> HIDE DEF w, T, t, m, n
    <2>1. ASSUME NEW i \in 0 .. m - 1 PROVE SumOf([j \in DOMAIN M[i] |-> Times(T[j], M[i][j])]) = Dot(M[i], w, n)
      <3> DEFINE row == M[i]
      <3>1. row \in Vectors(n)
        BY <1>5
      <3> HIDE DEF row
      <3>2. DOMAIN row = 0 .. n - 1 /\ \A j \in 0 .. n - 1 : row[j] \in Field /\ w[j] \in Field
        BY <1>2, <1>3, <3>1, VectorSize
      <3>3. \A j \in 0 .. n - 1 : Times(T[j], row[j]) = Times(row[j], w[j])
        BY <1>4, <3>2, FieldLaws
      <3>4. [j \in DOMAIN row |-> Times(T[j], row[j])] = [j \in 0 .. n - 1 |-> Times(row[j], w[j])]
        BY <3>2, <3>3
      <3> QED
        BY <3>4 DEF Dot, row
    <2> DEFINE g(i) == SumOf([j \in DOMAIN M[i] |-> Times(T[j], M[i][j])])
    <2>2. \A i \in 0 .. m - 1 : g(i) = Dot(M[i], w, n)
      BY <2>1
    <2>3. val(M) = SumOf([i \in DOMAIN M |-> Times(t[i], g(i))])
      OBVIOUS
    <2>4. DOMAIN M = 0 .. m - 1
      BY <1>5
    <2>5. Weigh(t, M, w) = SumOf([i \in 0 .. m - 1 |-> Times(t[i], [k \in 0 .. m - 1 |-> Dot(M[k], w, n)][i])])
      BY Zenon DEF Weigh, Dot, Product, RowProducts, m, n
    <2> HIDE DEF g, val
    <2>6. [i \in DOMAIN M |-> Times(t[i], g(i))]
            = [i \in 0 .. m - 1 |-> Times(t[i], [k \in 0 .. m - 1 |-> Dot(M[k], w, n)][i])]
      BY <2>2, <2>4
    <2> QED
      BY <2>3, <2>5, <2>6
  <1>6. val(S.A) = Weigh(t, S.A, w) /\ val(S.B) = Weigh(t, S.B, w) /\ val(S.C) = Weigh(t, S.C, w)
    <2> HIDE DEF val, w, T, t, m, n
    <2> QED
      BY <1>2, <1>5
  <1> HIDE DEF val
  <1> QED
    BY <1>1, <1>6 DEF JoinedWeights

(* The claims of the outer sum-check, joined. *)
LEMMA JointIs ==
  ASSUME NEW claims, NEW eval_E, NEW t, NEW z, NEW u \in Field, NEW r \in Field,
         claims.Az = Weigh(t, S.A, z), claims.Bz = Weigh(t, S.B, z),
         Weigh(t, S.C, z) \in Field, Minus(claims.Cz, eval_E) = Times(u, Weigh(t, S.C, z))
  PROVE  Joint(claims, eval_E, r) = JoinedWeights(t, z, u, r)
  <1> DEFINE c == Weigh(t, S.C, z)
             rr == Times(r, r)
  <1>1. rr \in Field /\ c \in Field
    BY FieldClosed
  <1>2. Times(rr, Times(u, c)) = Times(Times(rr, u), c)
    <2> HIDE DEF rr, c
    <2> QED
      BY <1>1, FieldLaws
  <1> QED
    BY <1>2 DEF Joint, JoinedWeights

(* An evaluation of a product with the assignment. *)
LEMMA ClaimIs ==
  ASSUME IsShape(S), NEW l \in Nat, NEW x \in [1 .. l -> Field], PowerOfTwo[l] = S.num_cons,
         NEW M \in [0 .. S.num_cons - 1 -> Vectors(Columns(S))], NEW z \in Vectors(Columns(S))
  PROVE  /\ Extension(Product(M, z), x) = Weigh(EvalsFromPoints(x), M, z)
         /\ Weigh(EvalsFromPoints(x), M, z) \in Field
  <1> DEFINE v == Product(M, z)
             t == EvalsFromPoints(x)
             m == S.num_cons
  <1>1. v \in Vectors(m) /\ m \in Nat /\ t \in Vectors(m)
    BY ShapeTypes, ProductIs, EvalsSize
  <1>2. Extension(v, x) = Dot(v, t, m)
    BY ExtensionIs
  <1> HIDE DEF v, t, m
  <1>3. Dot(v, t, m) = Dot(t, v, m) /\ Dot(t, v, m) \in Field
    BY <1>1, DotCommutes
  <1> QED
    BY <1>2, <1>3 DEF Weigh, v, t, m

(* And that of the product with an error: what is left without the error.   *)
LEMMA ErrorClaimIs ==
  ASSUME IsShape(S), NEW l \in Nat, NEW x \in [1 .. l -> Field], PowerOfTwo[l] = S.num_cons,
         NEW z \in Vectors(Columns(S)), NEW u \in Field, NEW E \in Vectors(S.num_cons)
  PROVE  Minus(Extension(WithError(u, Product(S.C, z), E), x), Extension(E, x))
           = Times(u, Weigh(EvalsFromPoints(x), S.C, z))
  <1> DEFINE v == Product(S.C, z)
             m == S.num_cons
             w == Weigh(EvalsFromPoints(x), S.C, z)
             e == Extension(E, x)
  <1>1. v \in Vectors(m) /\ m \in Nat
    BY ShapeTypes, ProductIs
  <1>2. Extension(v, x) = w /\ w \in Field
    BY ShapeTypes, ClaimIs
  <1>3. e \in Field
    BY ExtensionInField
  <1>4. Extension(Scaled(E, v, u), x) = Plus(e, Times(u, Extension(v, x)))
    <2> HIDE DEF v
    <2> QED
      BY <1>1, ExtensionFolds
  <1> HIDE DEF v
  <1>5. WithError(u, v, E) = Scaled(E, v, u)
    <2>1. DOMAIN v = 0 .. m - 1 /\ DOMAIN E = 0 .. m - 1 /\ \A i \in 0 .. m - 1 : v[i] \in Field /\ E[i] \in Field
      BY <1>1, VectorSize
    <2>2. \A i \in 0 .. m - 1 : Plus(Times(u, v[i]), E[i]) = Plus(E[i], Times(u, v[i]))
      <3>1. \A i \in 0 .. m - 1 : Times(u, v[i]) \in Field
        BY <2>1, FieldClosed
      <3> QED
        BY <2>1, <3>1, FieldLaws
    <2> QED
      BY <2>1, <2>2 DEF WithError, Scaled
  <1> HIDE DEF e, w
  <1>6. Times(u, w) \in Field
    BY <1>2, FieldClosed
  <1>7. Minus(Plus(e, Times(u, w)), e) = Times(u, w)
    BY <1>3, <1>6, TakenAway
  <1> QED
    BY <1>2, <1>4, <1>5, <1>7 DEF e, v, w

(* The coordinates of a point: a for the rows and b for the columns, whole  *)
(* rows or a part of one.                                                   *)
PointParted(point, l, a, b) ==
  /\ a \in Nat /\ b \in Nat /\ a + b = l
  /\ PointRows(point) = PowerOfTwo[a] /\ NumRows(PowerOfTwo[l]) = PowerOfTwo[a]
  /\ RowWeights(point) = EvalsFromPoints(TopOf(point, a))
  /\ ColumnWeights(point) = EvalsFromPoints(RestOf(point, a, b))
  /\ PowerOfTwo[b] = Width \/ (a = 0 /\ PowerOfTwo[b] < Width)

LEMMA PointIsParted ==
  ASSUME NEW l \in Nat, NEW point \in [1 .. l -> Field]
  PROVE  \E a, b \in Nat : PointParted(point, l, a, b)
  <1> DEFINE w == Log2(Width)
             m == PowerOfTwo[l]
  <1>1. w \in Nat /\ Width = PowerOfTwo[w] /\ Width \in Nat \ {0}
    <2>1. Width \in Nat \ {0} /\ Width = PowerOfTwo[w]
      BY WidthAssumption DEF NextPowerOfTwo
    <2> QED
      BY <2>1, Logarithm
  <1>2. Len(point) = l
    BY FunctionIsSequence
  <1>3. m \in Nat /\ m > 0
    BY PowerIsPositive
  <1>4. PointRows(point) = NumRows(m)
    BY <1>2 DEF PointRows
  <1> HIDE DEF w
  <1>5. ASSUME NEW a \in Nat, NEW b \in Nat, a + b = l, NumRows(m) = PowerOfTwo[a],
               PowerOfTwo[b] = Width \/ (a = 0 /\ PowerOfTwo[b] < Width)
        PROVE  PointParted(point, l, a, b)
    <2> HIDE DEF m
    <2>1. Log2(PointRows(point)) = a
      BY <1>4, <1>5, LogOfPower
    <2>2. TopOf(point, a) = SubSeq(point, 1, a) /\ RestOf(point, a, b) = SubSeq(point, a + 1, a + b)
      <3>1. point \in [1 .. a + b -> Field]
        BY <1>5, Zenon
      <3> QED
        BY <3>1, PointParts
    <2>3. /\ RowWeights(point) = EvalsFromPoints(TopOf(point, a))
          /\ ColumnWeights(point) = EvalsFromPoints(RestOf(point, a, b))
      BY <1>2, <1>5, <2>1, <2>2 DEF RowWeights, ColumnWeights
    <2> QED
      BY <1>4, <1>5, <2>3 DEF PointParted, m
  <1>6. CASE w <= l
    <2> DEFINE k == l - w
               rows == PowerOfTwo[k]
    <2>1. k \in Nat /\ k + w = l
      BY <1>1, <1>6
    <2> HIDE DEF k
    <2>2. rows \in Nat /\ rows > 0 /\ m = rows * Width
      <3>1. PowerOfTwo[k + w] = PowerOfTwo[k] * PowerOfTwo[w]
        BY <1>1, <2>1, PowerOfSum
      <3> QED
        BY <1>1, <2>1, <3>1, PowerIsPositive
    <2> HIDE DEF m
    <2>3. NumRows(m) = rows
      <3> HIDE DEF rows
      <3>1. m <= rows * Width /\ rows * Width < m + Width
        BY <1>1, <1>3, <2>2
      <3> QED
        BY <1>1, <1>3, <2>2, <3>1, CeilingIs DEF NumRows
    <2>4. PointParted(point, l, k, w)
      BY <1>1, <1>5, <2>1, <2>3
    <2> QED
      BY <1>1, <2>1, <2>4
  <1>7. CASE ~(w <= l)
    <2>1. m < Width
      <3>1. l < w
        BY <1>1, <1>7
      <3>2. PowerOfTwo[l] < PowerOfTwo[w]
        BY <1>1, <3>1, PowerIncreases
      <3> QED
        BY <1>1, <3>2
    <2>2. NumRows(m) = PowerOfTwo[0]
      <3> HIDE DEF m
      <3>1. m <= 1 * Width /\ 1 * Width < m + Width /\ 1 \in Nat
        BY <1>1, <1>3, <2>1
      <3>2. NumRows(m) = 1
        BY <1>1, <1>3, <3>1, CeilingIs DEF NumRows
      <3> QED
        BY <3>2, PowerFacts
    <2>3. 0 + l = l /\ 0 \in Nat
      OBVIOUS
    <2>4. PointParted(point, l, 0, l)
      BY <1>5, <2>1, <2>2, <2>3
    <2> QED
      BY <2>3, <2>4
  <1> QED
    BY <1>6, <1>7

(* A point of 2^l entries in rows of c. *)
LEMMA PointIsSplit ==
  ASSUME NEW l \in Nat, NEW point \in [1 .. l -> Field]
  PROVE  \E rows, c \in Nat : PointSplit(point, l, rows, c)
  <1>1. PICK a \in Nat, b \in Nat : PointParted(point, l, a, b)
    BY PointIsParted
  <1> DEFINE rows == PowerOfTwo[a]
             c == PowerOfTwo[b]
  <1>2. rows \in Nat \ {0} /\ c \in Nat /\ (a = 0 => rows = 1)
    <2>1. rows \in Nat /\ rows > 0 /\ c \in Nat
      BY PowerIsPositive
    <2>2. PowerOfTwo[0] = 1
      BY PowerFacts
    <2>3. a = 0 => rows = 1
      BY <2>2, Zenon
    <2> QED
      BY <2>1, <2>3
  <1>3. /\ a + b = l /\ PointRows(point) = rows /\ NumRows(PowerOfTwo[l]) = rows
        /\ RowWeights(point) = EvalsFromPoints(TopOf(point, a))
        /\ ColumnWeights(point) = EvalsFromPoints(RestOf(point, a, b))
        /\ c = Width \/ (a = 0 /\ c < Width)
    BY <1>1 DEF PointParted
  <1>4. rows * c = PowerOfTwo[l]
    BY <1>3, PowerOfSum
  <1>5. RowWeights(point) \in Vectors(rows) /\ ColumnWeights(point) \in Vectors(c)
    <2>1. TopOf(point, a) \in [1 .. a -> Field] /\ RestOf(point, a, b) \in [1 .. b -> Field]
      <3>1. point \in [1 .. a + b -> Field]
        BY <1>3, Zenon
      <3> QED
        BY <3>1, PointParts
    <2> QED
      BY <1>3, <2>1, EvalsSize
  <1> HIDE DEF rows, c
  <1>6. PointSplit(point, l, rows, c)
    BY <1>2, <1>3, <1>4, <1>5 DEF PointSplit
  <1> QED
    BY <1>2, <1>6

(* The verifier combines the rows of a commitment into the commitment to    *)
(* the row the prover opens, whether the point has coordinates for the rows *)
(* or only for a part of one, and whether the vector fills the rows of the  *)
(* point or the last of them are missing (hyrax_pc.rs:410-460, 518-532).    *)
THEOREM BoundCommitmentIs ==
  ASSUME NEW l \in Nat, NEW point \in [1 .. l -> Field], NEW n \in Nat, n > 0, n <= PowerOfTwo[l],
         NEW W \in Vectors(n), NEW r \in Vectors(NumRows(n))
  PROVE  /\ NumRows(n) \in 1 .. PointRows(point)
         /\ BoundCommitment(Commit(W, r), point)
              = Row(BoundRow(W, r, point).v, BoundRow(W, r, point).blind)
  <1> DEFINE m == PowerOfTwo[l]
             L == RowWeights(point)
             comm == Commit(W, r)
             row == BoundRow(W, r, point)
             q == NumRows(n)
  <1>0. Width \in Nat \ {0} /\ m \in Nat /\ q \in Nat
    BY WidthFacts, PowerFacts
  <1>1. PICK rows \in Nat, c \in Nat : PointSplit(point, l, rows, c)
    BY PointIsSplit
  <1>2. /\ rows \in Nat \ {0} /\ NumRows(m) = rows /\ rows * c = m
        /\ L \in Vectors(rows) /\ ColumnWeights(point) \in Vectors(c)
        /\ (c = Width \/ (rows = 1 /\ c < Width)) /\ PointRows(point) = rows
    BY <1>1 DEF PointSplit
  <1> HIDE DEF m, q
  <1>3. DOMAIN W = 0 .. n - 1 /\ Size(W) = n /\ n <= m
    BY VectorSize DEF m
  <1>4. /\ q * Width >= n /\ q >= 1 /\ q <= rows
        /\ \A i \in Nat : i >= q => i * Width >= n
    <2>1. n <= q * Width /\ q * Width < n + Width
      BY <1>0, CeilingCovers DEF NumRows, q
    <2>2. m <= rows * Width
      BY <1>0, <1>2, CeilingCovers DEF NumRows
    <2>3. q >= 1
      <3>1. SUFFICES ASSUME q = 0 PROVE FALSE
        BY <1>0
      <3>2. 0 * Width = 0
        BY <1>0
      <3> QED
        BY <2>1, <3>1, <3>2
    <2>4. q <= rows
      <3>1. SUFFICES ASSUME q > rows PROVE FALSE
        BY <1>0, <1>2
      <3>2. PICK d \in Nat : q = rows + 1 + d
        <4>1. q - rows - 1 \in Nat /\ q = rows + 1 + (q - rows - 1)
          BY <1>0, <1>2, <3>1
        <4> QED
          BY <4>1
      <3>3. q * Width = rows * Width + Width + d * Width /\ d * Width \in Nat /\ rows * Width \in Nat
        BY <1>0, <1>2, <3>2
      <3> QED
        BY <1>0, <1>3, <2>1, <2>2, <3>3
    <2>5. ASSUME NEW i \in Nat, i >= q PROVE i * Width >= n
      <3>1. PICK d \in Nat : i = q + d
        <4>1. i - q \in Nat /\ i = q + (i - q)
          BY <1>0, <2>5
        <4> QED
          BY <4>1
      <3>2. i * Width = q * Width + d * Width /\ d * Width \in Nat /\ q * Width \in Nat
        BY <1>0, <3>1
      <3> QED
        BY <2>1, <3>2
    <2> QED
      BY <2>1, <2>3, <2>4, <2>5
  <1>5. Size(r) = q /\ Size(L) = rows /\ Size(ColumnWeights(point)) = c
    <2>1. r \in Vectors(q)
      BY DEF q
    <2> QED
      BY <1>0, <1>2, <2>1, VectorSize
  <1> HIDE DEF L, comm, row
  <1>6. comm = [i \in 0 .. q - 1 |-> CommittedRow(W, r, i)] /\ Size(comm) = q
    BY <1>3, CommitIs, CommitSize DEF comm, q
  <1> DEFINE C == AsSeq(comm)
             A == AsSeq(L)
             bound(j) == [i \in 0 .. rows - 1 |-> Times(L[i], At(W, i * c + j))]
             blinds == [i \in 0 .. q - 1 |-> Times(L[i], r[i])]
             found(j) == [i \in 0 .. q - 1 |-> Times(L[i], At(W, i * Width + j))]
             whole(j) == [i \in 0 .. rows - 1 |-> Times(L[i], At(W, i * Width + j))]
  <1>7. row = [v |-> [j \in 0 .. c - 1 |-> SumOf(bound(j))], blind |-> SumOf(blinds)]
    <2>1. LeastOf(rows, q) = q
      BY <1>0, <1>2, <1>4 DEF LeastOf
    <2> QED
      BY <1>5, <2>1, Zenon DEF BoundRow, row, L
  <1>8. Combination(C, A) = [v |-> [j \in 0 .. Width - 1 |-> SumOf(found(j))], b |-> SumOf(blinds)]
    <2>1. C = [i \in 1 .. q |-> comm[i - 1]] /\ A = [i \in 1 .. rows |-> L[i - 1]]
      BY <1>5, <1>6, Zenon DEF AsSeq
    <2> HIDE DEF C, A
    <2>2. Len(C) = q
      BY <1>0, <2>1, FunctionIsSequence
    <2> DEFINE v(j) == [i \in 0 .. q - 1 |-> Times(A[i + 1], C[i + 1].v[j])]
               b == [i \in 0 .. q - 1 |-> Times(A[i + 1], C[i + 1].b)]
    <2>3. Combination(C, A) = [v |-> [j \in 0 .. Width - 1 |-> SumOf(v(j))], b |-> SumOf(b)]
      BY <2>2, Zenon DEF Combination
    <2>4. ASSUME NEW i \in 0 .. q - 1
          PROVE  /\ A[i + 1] = L[i] /\ C[i + 1].b = r[i]
                 /\ \A j \in 0 .. Width - 1 : C[i + 1].v[j] = At(W, i * Width + j)
      <3>1. i + 1 \in 1 .. q /\ i + 1 \in 1 .. rows /\ (i + 1) - 1 = i
        BY <1>0, <1>2, <1>4
      <3>2. A[i + 1] = L[i] /\ C[i + 1] = CommittedRow(W, r, i)
        BY <1>6, <2>1, <3>1
      <3>3. C[i + 1].v = [j \in 0 .. Width - 1 |-> At(W, i * Width + j)] /\ C[i + 1].b = r[i]
        BY <3>2 DEF CommittedRow
      <3> QED
        BY <3>2, <3>3
    <2>5. b = blinds
      BY <2>4
    <2>6. \A j \in 0 .. Width - 1 : v(j) = found(j)
      BY <2>4
    <2> HIDE DEF v, b, blinds, found
    <2>7. [j \in 0 .. Width - 1 |-> SumOf(v(j))] = [j \in 0 .. Width - 1 |-> SumOf(found(j))]
      BY <2>6
    <2> QED
      BY <2>3, <2>5, <2>7
  <1>9. ASSUME NEW j \in 0 .. Width - 1 PROVE SumOf(whole(j)) = SumOf(found(j))
    <2>1. \A i \in Nat : At(W, i * Width + j) \in Field /\ (i >= q => At(W, i * Width + j) = 0)
      <3>1. ASSUME NEW i \in Nat PROVE At(W, i * Width + j) \in Field /\ (i >= q => At(W, i * Width + j) = 0)
        <4>1. i * Width + j \in Nat /\ (i >= q => i * Width + j >= n)
          <5>1. i * Width \in Nat
            BY <1>0
          <5> QED
            BY <1>0, <1>4, <5>1
        <4>2. \A k \in 0 .. n - 1 : W[k] \in Field
          BY VectorSize
        <4> DEFINE k == i * Width + j
        <4> HIDE DEF k
        <4>3. k \in Nat /\ (i >= q => k >= n) /\ (At(W, k) = IF k < n THEN W[k] ELSE 0)
          BY <1>3, <4>1 DEF At, k
        <4>4. CASE k < n
          <5>1. k \in 0 .. n - 1
            BY <4>3, <4>4
          <5> QED
            BY <4>2, <4>3, <4>4, <5>1 DEF k
        <4>5. CASE ~(k < n)
          BY <4>3, <4>5, Constants DEF k
        <4> QED
          BY <4>4, <4>5
      <3> QED
        BY <3>1
    <2>2. \A i \in 0 .. rows - 1 : L[i] \in Field /\ i \in Nat
      BY <1>2, VectorSize
    <2>3. ASSUME NEW i \in 0 .. rows - 1
          PROVE  whole(j)[i] \in Field /\ (i >= q => whole(j)[i] = 0)
      <3>1. L[i] \in Field /\ At(W, i * Width + j) \in Field /\ (i >= q => At(W, i * Width + j) = 0)
        BY <2>1, <2>2
      <3>2. whole(j)[i] = Times(L[i], At(W, i * Width + j)) /\ Times(L[i], 0) = 0
        BY <3>1, FieldLaws
      <3> QED
        BY <3>1, <3>2, FieldClosed
    <2>4. whole(j) \in Vectors(rows)
      BY <2>3 DEF Vectors
    <2>5. FirstPart(whole(j), q) = found(j)
      <3>1. \A i \in 0 .. q - 1 : i \in 0 .. rows - 1
        BY <1>0, <1>2, <1>4
      <3> QED
        BY <3>1 DEF FirstPart
    <2> DEFINE v == whole(j)
    <2>6. \A i \in q .. rows - 1 : v[i] = 0
      BY <1>0, <1>4, <2>3
    <2> HIDE DEF v
    <2>7. SumOf(v) = SumOf(FirstPart(v, q))
      BY <1>0, <1>2, <1>4, <2>4, <2>6, SumStops DEF v
    <2> QED
      BY <2>5, <2>7 DEF v
  <1> HIDE DEF bound, blinds, found, whole, C, A
  <1>10. row.v = [j \in 0 .. c - 1 |-> SumOf(bound(j))] /\ row.blind = SumOf(blinds)
    BY <1>7
  <1>11. DOMAIN row.v = 0 .. c - 1 /\ Size(row.v) = c
    <2>1. DOMAIN row.v = 0 .. c - 1
      BY <1>10
    <2> QED
      BY <2>1, SizeIs
  <1>12. ASSUME NEW j \in 0 .. Width - 1 PROVE At(row.v, j) = SumOf(whole(j))
    <2>1. CASE c = Width
      <3>1. At(row.v, j) = SumOf(bound(j))
        BY <1>0, <1>10, <1>11, <2>1 DEF At
      <3>2. bound(j) = whole(j)
        BY <2>1 DEF bound, whole
      <3> QED
        BY <3>1, <3>2
    <2>2. CASE rows = 1 /\ c < Width
      <3>1. m = c
        BY <1>2, <2>2
      <3>2. \A i \in 0 .. rows - 1 : i * c + j = j /\ i * Width + j = j
        BY <1>0, <2>2
      <3>3. CASE j < c
        <4>1. At(row.v, j) = SumOf(bound(j))
          BY <1>10, <1>11, <3>3 DEF At
        <4>2. bound(j) = whole(j)
          BY <3>2 DEF bound, whole
        <4> QED
          BY <4>1, <4>2
      <3>4. CASE ~(j < c)
        <4>1. At(row.v, j) = 0 /\ At(W, j) = 0
          BY <1>3, <1>11, <3>1, <3>4 DEF At
        <4>2. L[0] \in Field
          <5>1. 0 \in 0 .. rows - 1
            BY <2>2
          <5> QED
            BY <1>2, <5>1 DEF Vectors
        <4>3. Times(L[0], 0) = 0
          BY <4>2, Constants, FieldLaws
        <4>4. \A i \in 0 .. rows - 1 : i = 0
          BY <2>2
        <4>5. whole(j) = [i \in 0 .. rows - 1 |-> 0]
          BY <3>2, <4>1, <4>3, <4>4 DEF whole
        <4>6. SumOf(whole(j)) = 0
          BY <4>5, SumOfZeros
        <4> QED
          BY <4>1, <4>6
      <3> QED
        BY <3>3, <3>4
    <2> QED
      BY <1>2, <2>1, <2>2
  <1>13. Padded(row.v, Width) = [j \in 0 .. Width - 1 |-> SumOf(found(j))]
    BY <1>9, <1>12 DEF Padded
  <1>14. Row(row.v, row.blind) = [v |-> [j \in 0 .. Width - 1 |-> SumOf(found(j))], b |-> SumOf(blinds)]
    BY <1>10, <1>13 DEF Row
  <1>15. BoundCommitment(comm, point) = Combination(C, A)
    BY DEF BoundCommitment, C, A, L
  <1>16. q \in 1 .. PointRows(point)
    BY <1>0, <1>2, <1>4
  <1> QED
    BY <1>8, <1>14, <1>15, <1>16 DEF comm, row, q

-----------------------------------------------------------------------------
(* The assignment of the verifier at a point                                *)

LEMMA EvalZIs ==
  ASSUME NEW eval_W, NEW u, NEW X, NEW y
  PROVE  EvalZ(eval_W, u, X, y) = EvalZAt(eval_W, u, X, y, S.num_vars)
  BY Zenon DEF EvalZ, EvalZAt

-----------------------------------------------------------------------------
(* Direct openings                                                          *)

(* The row that is opened at a point, and its product with the weights of   *)
(* the columns.                                                             *)
LEMMA BoundRowEvaluates ==
  ASSUME NEW l \in Nat, NEW point \in [1 .. l -> Field], NEW n \in Nat, n <= PowerOfTwo[l],
         NEW W \in Vectors(n), NEW r
  PROVE  \E c \in Nat : /\ BoundRow(W, r, point).v \in Vectors(c) /\ ColumnWeights(point) \in Vectors(c)
                        /\ c <= Width
                        /\ Dot(BoundRow(W, r, point).v, ColumnWeights(point), c)
                             = Extension(Padded(W, PowerOfTwo[l]), point)
  <1>1. PICK a \in Nat, b \in Nat : PointParted(point, l, a, b)
    BY PointIsParted
  <1> DEFINE rows == PowerOfTwo[a]
             c == PowerOfTwo[b]
             f == Padded(W, PowerOfTwo[l])
             L == RowWeights(point)
             v == BoundRow(W, r, point).v
             row == RowsCombined(EvalsFromPoints(TopOf(point, a)), f, rows, c)
  <1>2. /\ a + b = l /\ L = EvalsFromPoints(TopOf(point, a))
        /\ ColumnWeights(point) = EvalsFromPoints(RestOf(point, a, b))
        /\ c = Width \/ (a = 0 /\ c < Width)
    BY <1>1 DEF PointParted
  <1>3. point \in [1 .. a + b -> Field]
    BY <1>2, Zenon
  <1>4. rows \in Nat /\ c \in Nat /\ PowerOfTwo[l] \in Nat /\ rows * c = PowerOfTwo[l]
    BY <1>2, PowerFacts, PowerOfSum
  <1>5. L \in Vectors(rows) /\ ColumnWeights(point) \in Vectors(c)
    <2>1. TopOf(point, a) \in [1 .. a -> Field] /\ RestOf(point, a, b) \in [1 .. b -> Field]
      BY <1>3, PointParts
    <2> QED
      BY <1>2, <2>1, EvalsSize
  <1>6. f \in Vectors(PowerOfTwo[l])
    BY <1>4, PaddedIs
  <1>7. row \in Vectors(c) /\ Extension(f, point) = Dot(row, EvalsFromPoints(RestOf(point, a, b)), c)
    <2>1. f \in Vectors(PowerOfTwo[a + b])
      BY <1>2, <1>6
    <2> HIDE DEF f
    <2> QED
      BY <1>3, <2>1, ExtensionByRows
  <1>8. c <= Width
    <2> HIDE DEF c
    <2> QED
      BY <1>2, <1>4, WidthFacts
  <1> HIDE DEF rows, c
  <1>9. Size(L) = rows /\ Size(ColumnWeights(point)) = c
    BY <1>4, <1>5, VectorSize
  <1>10. v = [j \in 0 .. c - 1 |-> SumOf([i \in 0 .. rows - 1 |-> Times(L[i], At(W, i * c + j))])]
    BY <1>9, Zenon DEF BoundRow
  <1>11. row = [j \in 0 .. c - 1 |-> SumOf([i \in 0 .. rows - 1 |-> Times(L[i], f[i * c + j])])]
    BY <1>2 DEF RowsCombined
  <1>12. ASSUME NEW i \in 0 .. rows - 1, NEW j \in 0 .. c - 1 PROVE At(W, i * c + j) = f[i * c + j]
    <2>1. i * c + j \in 0 .. rows * c - 1
      <3>1. PICK d \in Nat : rows = i + 1 + d
        <4>1. rows - i - 1 \in Nat /\ rows = i + 1 + (rows - i - 1)
          BY <1>4
        <4> QED
          BY <4>1
      <3>2. rows * c = i * c + c + d * c /\ i * c \in Nat /\ d * c \in Nat
        BY <1>4, <3>1
      <3> QED
        BY <1>4, <3>2
    <2> DEFINE k == i * c + j
    <2>2. k \in 0 .. PowerOfTwo[l] - 1 /\ k \in Nat
      BY <1>4, <2>1
    <2> HIDE DEF k
    <2>3. f[k] = IF k < n THEN W[k] ELSE 0
      BY <1>4, <2>2, PaddedIs
    <2>4. At(W, k) = IF k < n THEN W[k] ELSE 0
      BY <2>2, PaddedIs
    <2> QED
      BY <2>3, <2>4 DEF k
  <1> HIDE DEF f
  <1>13. \A j \in 0 .. c - 1 : [i \in 0 .. rows - 1 |-> Times(L[i], At(W, i * c + j))]
                                = [i \in 0 .. rows - 1 |-> Times(L[i], f[i * c + j])]
    BY <1>12
  <1> HIDE DEF v, row, L
  <1>14. v = row
    BY <1>10, <1>11, <1>13
  <1> QED
    BY <1>2, <1>4, <1>5, <1>7, <1>8, <1>14 DEF v, f

(* A direct opening is accepted, and what the verifier evaluates from it is *)
(* the vector, whatever its length is to a row and to a power of two        *)
(* (hyrax_pc.rs:626-669, 671-736).                                          *)
THEOREM DirectOpeningHolds ==
  ASSUME NEW l \in Nat, NEW point \in [1 .. l -> Field], NEW n \in Nat, n > 0, n <= PowerOfTwo[l],
         NEW W \in Vectors(n), NEW r \in Vectors(NumRows(n))
  PROVE  /\ DirectOpens(Commit(W, r), prove_direct(W, r, point), point)
         /\ DirectEvaluation(prove_direct(W, r, point), point)
              = Extension(Padded(W, PowerOfTwo[l]), point)
  <1> DEFINE row == BoundRow(W, r, point)
             v == row.v
             blind == row.blind
             b == ColumnWeights(point)
             opening == prove_direct(W, r, point)
             comm == Commit(W, r)
  <1>1. PICK c \in Nat : /\ v \in Vectors(c) /\ b \in Vectors(c) /\ c <= Width
                         /\ Dot(v, b, c) = Extension(Padded(W, PowerOfTwo[l]), point)
    BY BoundRowEvaluates
  <1>2. NumRows(n) \in 1 .. PointRows(point) /\ BoundCommitment(comm, point) = Row(v, blind)
    BY BoundCommitmentIs
  <1>3. Width \in Nat
    BY WidthFacts
  <1>4. row = [v |-> v, blind |-> blind]
    <2>1. \E x, y : row = [v |-> x, blind |-> y]
      BY Zenon DEF BoundRow
    <2> HIDE DEF row
    <2> QED
      BY <2>1
  <1>5. opening = [v |-> Padded(v, Width), blind |-> blind]
    <2>1. opening = [row EXCEPT !.v = Padded(v, Width)]
      BY Zenon DEF prove_direct
    <2> HIDE DEF row, opening
    <2>2. row = [v |-> row.v, blind |-> row.blind]
      BY <1>4
    <2> QED
      BY <2>1, <2>2
  <1>6. Size(comm) = NumRows(n)
    <2>1. DOMAIN W = 0 .. n - 1
      BY VectorSize
    <2> QED
      BY <2>1, CommitSize
  <1> HIDE DEF row, v, blind, b, opening, comm
  <1>7. opening.v = Padded(v, Width) /\ opening.blind = blind
    BY <1>5
  <1>8. Padded(v, Width) \in Vectors(Width) /\ Padded(Padded(v, Width), Width) = Padded(v, Width)
        /\ \A j \in 0 .. Width - 1 : Padded(v, Width)[j] = IF j < c THEN v[j] ELSE 0
    BY <1>1, <1>3, PaddedIs
  <1>9. Size(Padded(v, Width)) = Width
    BY <1>3, <1>8, VectorSize
  <1>10. Row(opening.v, opening.blind) = Row(v, blind)
    BY <1>7, <1>8 DEF Row
  <1>11. Combination(AsSeq(comm), AsSeq(RowWeights(point))) = Row(v, blind)
    BY <1>2, Zenon DEF BoundCommitment
  <1>12. DirectOpens(comm, opening, point)
    BY <1>2, <1>6, <1>7, <1>9, <1>10, <1>11 DEF DirectOpens
  <1>13. DirectEvaluation(opening, point) = Dot(v, b, c)
    <2>1. Size(b) = c
      BY <1>1, VectorSize
    <2>2. LeastOf(c, Width) = c
      BY <1>1, <1>3 DEF LeastOf
    <2>3. DirectEvaluation(opening, point) = SumOf([j \in 0 .. c - 1 |-> Times(opening.v[j], b[j])])
      BY <2>1, <2>2, Zenon DEF DirectEvaluation, b
    <2>4. \A j \in 0 .. c - 1 : j \in 0 .. Width - 1 /\ j < c
      BY <1>1, <1>3
    <2>5. \A j \in 0 .. c - 1 : Padded(v, Width)[j] = v[j]
      BY <1>8, <2>4
    <2> DEFINE p == Padded(v, Width)
    <2> HIDE DEF p
    <2>6. \A j \in 0 .. c - 1 : p[j] = v[j]
      BY <2>5 DEF p
    <2>7. [j \in 0 .. c - 1 |-> Times(p[j], b[j])] = [j \in 0 .. c - 1 |-> Times(v[j], b[j])]
      BY <2>6
    <2>8. SumOf([j \in 0 .. c - 1 |-> Times(opening.v[j], b[j])]) = SumOf([j \in 0 .. c - 1 |-> Times(v[j], b[j])])
      BY <1>7, <2>7 DEF p
    <2> QED
      BY <2>3, <2>8, Zenon DEF Dot
  <1> QED
    BY <1>1, <1>12, <1>13 DEF opening, comm

-----------------------------------------------------------------------------
(* The inner product argument                                               *)

(* A vector and a blind scaled and added to others, in the clear and as     *)
(* commitments.                                                             *)
LEMMA RowsAnswer ==
  ASSUME NEW n \in Nat, NEW v \in Vectors(n), NEW d \in Vectors(n), NEW blind \in Field, NEW r_d \in Field,
         NEW r \in Field
  PROVE  Combination(<<Row(v, blind), Row(d, r_d)>>, <<r, 1>>)
           = Row(Answering(r, v, d, n), Plus(Times(r, blind), r_d))
  <1> DEFINE rows == <<Row(v, blind), Row(d, r_d)>>
             weights == <<r, 1>>
             z == Answering(r, v, d, n)
             a(j) == [i \in 0 .. 1 |-> Times(weights[i + 1], rows[i + 1].v[j])]
             b == [i \in 0 .. 1 |-> Times(weights[i + 1], rows[i + 1].b)]
  <1>1. Combination(rows, weights) = [v |-> [j \in 0 .. Width - 1 |-> SumOf(a(j))], b |-> SumOf(b)]
    <2>1. Len(rows) - 1 = 1
      OBVIOUS
    <2> HIDE DEF rows, weights
    <2> QED
      BY <2>1, Zenon DEF Combination
  <1>2. Width \in Nat
    BY WidthFacts
  <1>3. /\ Padded(v, Width) \in Vectors(Width) /\ Padded(d, Width) \in Vectors(Width)
        /\ \A j \in 0 .. Width - 1 : Padded(v, Width)[j] = IF j < n THEN v[j] ELSE 0
        /\ \A j \in 0 .. Width - 1 : Padded(d, Width)[j] = IF j < n THEN d[j] ELSE 0
    BY <1>2, PaddedIs
  <1>4. rows[1].v = Padded(v, Width) /\ rows[2].v = Padded(d, Width) /\ rows[1].b = blind /\ rows[2].b = r_d
        /\ weights[1] = r /\ weights[2] = 1
    BY DEF Row
  <1> HIDE DEF rows, weights
  <1>5. ASSUME NEW x \in Field, NEW y \in Field, NEW f, f = [i \in 0 .. 1 |-> IF i = 0 THEN Times(r, x) ELSE Times(1, y)]
        PROVE  SumOf(f) = Plus(Times(r, x), y)
    <2>1. Times(r, x) \in Field /\ Times(1, y) = y
      BY FieldClosed, FieldLaws
    <2>2. f \in Vectors(2) /\ f[0] = Times(r, x) /\ f[1] = y
      <3>1. 0 .. 2 - 1 = 0 .. 1
        OBVIOUS
      <3> QED
        BY <1>5, <2>1, <3>1 DEF Vectors
    <2> QED
      BY <2>2, SumOfTwo
  <1>6. \A i \in 0 .. 1 : i = 0 \/ i = 1
    OBVIOUS
  <1>7. SumOf(b) = Plus(Times(r, blind), r_d)
    <2>1. b = [i \in 0 .. 1 |-> IF i = 0 THEN Times(r, blind) ELSE Times(1, r_d)]
      BY <1>4, <1>6
    <2> HIDE DEF b
    <2> QED
      BY <1>5, <2>1
  <1>8. ASSUME NEW j \in 0 .. Width - 1
        PROVE  SumOf(a(j)) = Plus(Times(r, Padded(v, Width)[j]), Padded(d, Width)[j])
    <2> DEFINE x == Padded(v, Width)[j]
               y == Padded(d, Width)[j]
               f == a(j)
    <2>1. f = [i \in 0 .. 1 |-> IF i = 0 THEN Times(r, x) ELSE Times(1, y)]
      BY <1>4, <1>6
    <2>2. x \in Field /\ y \in Field
      BY <1>2, <1>3, VectorSize
    <2> HIDE DEF f, x, y
    <2>3. SumOf(f) = Plus(Times(r, x), y)
      BY <1>5, <2>1, <2>2
    <2> QED
      BY <2>3 DEF f, x, y
  <1>9. z \in Vectors(n)
    BY AnsweringIs
  <1>10. /\ \A j \in 0 .. Width - 1 : Padded(z, Width)[j] = IF j < n THEN z[j] ELSE 0
         /\ Padded(z, Width) = [j \in 0 .. Width - 1 |-> Padded(z, Width)[j]]
    <2> HIDE DEF z
    <2>1. \A j \in 0 .. Width - 1 : Padded(z, Width)[j] = IF j < n THEN z[j] ELSE 0
      BY <1>2, <1>9, PaddedIs
    <2>2. Padded(z, Width) = [j \in 0 .. Width - 1 |-> Padded(z, Width)[j]]
      BY DEF Padded
    <2> QED
      BY <2>1, <2>2
  <1>11. ASSUME NEW j \in 0 .. Width - 1
         PROVE  Padded(z, Width)[j] = Plus(Times(r, Padded(v, Width)[j]), Padded(d, Width)[j])
    <2>1. CASE j < n
      <3>1. j \in 0 .. n - 1
        BY <2>1
      <3>2. z[j] = Plus(Times(r, v[j]), d[j])
        BY <3>1 DEF Answering
      <3> QED
        BY <1>3, <1>10, <2>1, <3>2
    <2>2. CASE ~(j < n)
      <3>1. Plus(Times(r, 0), 0) = 0
        <4>1. Times(r, 0) = 0 /\ 0 \in Field
          BY Constants, FieldLaws
        <4>2. Plus(0, 0) = 0
          BY <4>1, FieldLaws
        <4> QED
          BY <4>1, <4>2
      <3> QED
        BY <1>3, <1>10, <2>2, <3>1
    <2> QED
      BY <2>1, <2>2
  <1> HIDE DEF a, b, z
  <1>12. [j \in 0 .. Width - 1 |-> SumOf(a(j))] = [j \in 0 .. Width - 1 |-> Padded(z, Width)[j]]
    BY <1>8, <1>11
  <1>13. [v |-> [j \in 0 .. Width - 1 |-> SumOf(a(j))], b |-> SumOf(b)] = Row(z, Plus(Times(r, blind), r_d))
    BY <1>7, <1>10, <1>12 DEF Row
  <1> QED
    BY <1>1, <1>13 DEF rows, weights, z

LEMMA InnerProductIs ==
  ASSUME NEW n \in Nat, NEW v \in Vectors(n), NEW b \in Vectors(n)
  PROVE  InnerProduct(v, b) = Dot(v, b, n)
  <1>1. Size(b) = n
    BY VectorSize
  <1>2. InnerProduct(v, b) = SumOf([j \in 0 .. n - 1 |-> Times(At(v, j), b[j])])
    BY <1>1, Zenon DEF InnerProduct
  <1>3. \A j \in 0 .. n - 1 : At(v, j) = v[j]
    <2>1. \A j \in 0 .. n - 1 : j \in Nat /\ j < n
      OBVIOUS
    <2> QED
      BY <2>1, PaddedIs
  <1>4. [j \in 0 .. n - 1 |-> Times(At(v, j), b[j])] = [j \in 0 .. n - 1 |-> Times(v[j], b[j])]
    BY <1>3
  <1>5. SumOf([j \in 0 .. n - 1 |-> Times(At(v, j), b[j])]) = SumOf([j \in 0 .. n - 1 |-> Times(v[j], b[j])])
    BY <1>4
  <1> QED
    BY <1>2, <1>5, Zenon DEF Dot

(* The two checks of an inner product argument hold for every challenge,    *)
(* when the committed scalar is the product (ipa.rs:139-222).               *)
THEOREM ArgumentHolds ==
  ASSUME NEW n \in Nat, NEW v \in Vectors(n), NEW b \in Vectors(n), NEW blind \in Field, NEW blind_c \in Field,
         NEW mask, IsMask(mask, n), NEW r \in Field
  PROVE  IpaHolds(Row(v, blind), Row(Scalar(Dot(v, b, n)), blind_c), b, IpaMessages(mask, b),
                  IpaAnswer(mask, [v |-> v, blind |-> blind], blind_c, r), r)
  <1> DEFINE row == [v |-> v, blind |-> blind]
             x == Dot(v, b, n)
             y == Dot(mask.d, b, n)
             z == Answering(r, v, mask.d, n)
             messages == IpaMessages(mask, b)
             answer == IpaAnswer(mask, row, blind_c, r)
  <1>1. mask.d \in Vectors(n) /\ mask.r_delta \in Field /\ mask.r_beta \in Field
    BY DEF IsMask
  <1>2. z \in Vectors(n) /\ Dot(z, b, n) = Plus(Times(r, x), y)
    <2> DEFINE d == mask.d
    <2>1. d \in Vectors(n)
      BY <1>1
    <2> HIDE DEF d
    <2>2. /\ Answering(r, v, d, n) \in Vectors(n)
          /\ Dot(Answering(r, v, d, n), b, n) = Plus(Times(r, Dot(v, b, n)), Dot(d, b, n))
      BY <2>1, AnsweringIs
    <2> QED
      BY <2>2, Zenon DEF d
  <1>3. x \in Field /\ y \in Field
    BY <1>1, DotCommutes
  <1>4. messages = [delta |-> Row(mask.d, mask.r_delta), beta |-> Row(Scalar(y), mask.r_beta)]
    <2>1. InnerProduct(mask.d, b) = y
      BY <1>1, InnerProductIs
    <2> HIDE DEF y
    <2> QED
      BY <2>1, Zenon DEF IpaMessages
  <1>5. answer = [z_vec |-> z, z_delta |-> Plus(Times(r, blind), mask.r_delta),
                  z_beta |-> Plus(Times(r, blind_c), mask.r_beta)]
    <2>1. DOMAIN v = 0 .. n - 1
      BY VectorSize
    <2>2. row.v = v /\ row.blind = blind
      OBVIOUS
    <2> HIDE DEF row
    <2>3. [j \in DOMAIN row.v |-> Plus(Times(r, row.v[j]), mask.d[j])] = z
      BY <2>1, <2>2 DEF Answering
    <2> HIDE DEF z
    <2> QED
      BY <2>2, <2>3, Zenon DEF IpaAnswer
  <1>6. Size(answer.z_vec) = n /\ Size(b) = n
    <2> HIDE DEF z, answer
    <2>1. answer.z_vec = z
      BY <1>5
    <2> QED
      BY <1>2, <2>1, VectorSize
  <1>7. Combination(<<Row(v, blind), messages.delta>>, <<r, 1>>) = Row(answer.z_vec, answer.z_delta)
    <2> HIDE DEF z, messages, answer
    <2>1. messages.delta = Row(mask.d, mask.r_delta) /\ answer.z_vec = z
          /\ answer.z_delta = Plus(Times(r, blind), mask.r_delta)
      BY <1>4, <1>5
    <2> QED
      BY <1>1, <2>1, RowsAnswer DEF z
  <1>8. Combination(<<Row(Scalar(x), blind_c), messages.beta>>, <<r, 1>>)
          = Row(Scalar(InnerProduct(answer.z_vec, b)), answer.z_beta)
    <2>1. Scalar(x) \in Vectors(1) /\ Scalar(y) \in Vectors(1)
      BY <1>3, ScalarIs
    <2>2. Answering(r, Scalar(x), Scalar(y), 1) = Scalar(Plus(Times(r, x), y))
      <3>1. \A j \in 0 .. 1 - 1 : j = 0
        OBVIOUS
      <3>2. 0 .. 1 - 1 = {0} /\ Scalar(x)[0] = x /\ Scalar(y)[0] = y
        BY <1>3, ScalarIs
      <3> HIDE DEF x, y
      <3> QED
        BY <3>1, <3>2 DEF Answering, Scalar
    <2> HIDE DEF z, messages, answer, x, y
    <2>3. messages.beta = Row(Scalar(y), mask.r_beta) /\ answer.z_vec = z
          /\ answer.z_beta = Plus(Times(r, blind_c), mask.r_beta)
      BY <1>4, <1>5
    <2>4. InnerProduct(z, b) = Plus(Times(r, x), y)
      BY <1>2, InnerProductIs
    <2>5. Combination(<<Row(Scalar(x), blind_c), Row(Scalar(y), mask.r_beta)>>, <<r, 1>>)
            = Row(Answering(r, Scalar(x), Scalar(y), 1), Plus(Times(r, blind_c), mask.r_beta))
      BY <1>1, <2>1, RowsAnswer
    <2> QED
      BY <2>2, <2>3, <2>4, <2>5
  <1> HIDE DEF row, x, y, z, messages, answer
  <1>9. IpaHolds(Row(v, blind), Row(Scalar(x), blind_c), b, messages, answer, r)
    BY <1>6, <1>7, <1>8, Zenon DEF IpaHolds
  <1> QED
    BY <1>9 DEF row, x, messages, answer

-----------------------------------------------------------------------------
(* What the verifiers check                                                 *)

(* The dimensions of a shape. *)
LEMMA ShapeSizes ==
  ASSUME IsShape(S)
  PROVE  /\ num_rounds_x \in Nat /\ S.num_cons = PowerOfTwo[num_rounds_x] /\ S.num_cons > 0
         /\ num_rounds_y - 1 \in Nat /\ num_rounds_y = (num_rounds_y - 1) + 1
         /\ num_vars_padded = PowerOfTwo[num_rounds_y - 1]
         /\ 2 * num_vars_padded = PowerOfTwo[num_rounds_y]
         /\ S.num_vars > 0 /\ S.num_vars <= num_vars_padded
         /\ S.num_vars + 1 + S.num_io <= 2 * num_vars_padded
  <1>1. S.num_cons \in Nat /\ S.num_vars \in Nat
    BY ShapeTypes
  <1>2. /\ NextPowerOfTwo(S.num_cons) = S.num_cons
        /\ S.num_vars > 0 /\ S.num_vars + 1 + S.num_io <= 2 * NextPowerOfTwo(S.num_vars)
    BY Zenon DEF IsShape
  <1>3. Log2(S.num_cons) \in Nat /\ Log2(S.num_vars) \in Nat
    BY <1>1, Logarithm
  <1>4. S.num_cons = PowerOfTwo[Log2(S.num_cons)] /\ num_vars_padded = PowerOfTwo[Log2(S.num_vars)]
    BY <1>2, Zenon DEF NextPowerOfTwo, num_vars_padded
  <1>5. Log2(num_vars_padded) = Log2(S.num_vars)
    BY <1>3, <1>4, LogOfPower
  <1> DEFINE a == Log2(S.num_cons)
             b == Log2(S.num_vars)
  <1>6. num_rounds_x = a /\ num_rounds_y = b + 1
    BY <1>5, Zenon DEF num_rounds_x, num_rounds_y
  <1>7. S.num_vars <= num_vars_padded
    BY <1>1, PowerOfTwoAbove DEF num_vars_padded
  <1>8. PowerOfTwo[a] \in Nat /\ PowerOfTwo[a] > 0
    BY <1>3, PowerIsPositive
  <1>9. PowerOfTwo[b + 1] = 2 * PowerOfTwo[b] /\ PowerOfTwo[b] \in Nat
    BY <1>3, PowerFacts
  <1>10. S.num_vars + 1 + S.num_io <= 2 * num_vars_padded
    BY <1>2, Zenon DEF num_vars_padded
  <1> HIDE DEF a, b
  <1>11. a \in Nat /\ b \in Nat /\ S.num_cons = PowerOfTwo[a] /\ num_vars_padded = PowerOfTwo[b]
    BY <1>3, <1>4 DEF a, b
  <1>12. num_rounds_y - 1 = b
    BY <1>6, <1>11
  <1> QED
    BY <1>2, <1>6, <1>7, <1>8, <1>9, <1>10, <1>11, <1>12

(* The assignment of a relaxed witness and its error. *)
LEMMA AssignmentIs ==
  ASSUME IsShape(S), NEW w, IsRelaxed(w, S)
  PROVE  /\ Join(w.W, w.u, w.X) \in Vectors(Columns(S)) /\ w.u \in Field
         /\ w.E = Excess(S, Join(w.W, w.u, w.X), w.u) /\ w.E \in Vectors(S.num_cons)
  <1> DEFINE z == Join(w.W, w.u, w.X)
  <1>1. S.num_vars \in Nat /\ S.num_io \in Nat
    BY ShapeTypes
  <1>2. /\ w.W \in Vectors(S.num_vars) /\ w.X \in Vectors(S.num_io) /\ w.u \in Field
        /\ Excess(S, z, w.u) = w.E
    BY Zenon DEF IsRelaxed
  <1>3. MadeOf(z, w.W, w.u, w.X, S.num_vars, S.num_io)
    BY <1>1, <1>2, JoinIs
  <1>4. z \in Vectors(Columns(S))
    BY <1>3 DEF MadeOf, Columns
  <1> HIDE DEF z
  <1>5. Excess(S, z, w.u) \in Vectors(S.num_cons)
    <2>1. PICK shape : shape = S
      OBVIOUS
    <2>2. Excess(shape, z, w.u) \in Vectors(shape.num_cons)
      BY <1>2, <1>4, <2>1, ExcessIs
    <2> QED
      BY <2>1, <2>2
  <1> QED
    BY <1>2, <1>4, <1>5 DEF z

(* The claims of an outer sum-check, at its point. *)
ClaimsOf(w, sent) ==
  LET z == Join(w.W, w.u, w.X)
      x == sent.outer.point
  IN  /\ x \in [1 .. num_rounds_x -> Field]
      /\ sent.claims.Az = Extension(Multiply(S.A, z), x)
      /\ sent.claims.Bz = Extension(Multiply(S.B, z), x)
      /\ sent.claims.Cz = Extension(WithError(w.u, Multiply(S.C, z), w.E), x)
OuterHolds(sent, tau, x) ==
  Verified(sent.outer, 0, x) /\ sent.outer.value = OuterValue(tau, sent.claims, x)

(* The prover's outer sum-check, and its challenges. *)
LEMMA OuterSumIs ==
  ASSUME NEW b, NEW Az, NEW Bz, NEW Cz, NEW tau, NEW x, NEW fresh
  PROVE  LET outer == Outer(b, Az, Bz, Cz, tau, x, fresh)
             T == Latest(OuterStart(b, tau), num_rounds_x)
             X == Latest(OuterRounds(b, tau, x), num_rounds_x)
         IN  /\ outer.claims = [Az |-> Extension(Az, X), Bz |-> Extension(Bz, X), Cz |-> Extension(Cz, X)]
             /\ outer.sum = SumCheckOf(OuterTotal(EvalsFromPoints(T), Az, Bz, Cz), X,
                                       OuterValue(T, outer.claims, X))
  BY DEF Outer, OuterTotal, OuterStart, OuterRounds

LEMMA OuterHoldsIfSatisfied ==
  ASSUME IsShape(S), NEW w, IsRelaxed(w, S),
         NEW tau \in [1 .. num_rounds_x -> Field], NEW x \in [1 .. num_rounds_x -> Field], NEW sent,
         LET z == Join(w.W, w.u, w.X)
             Az == Multiply(S.A, z)
             Bz == Multiply(S.B, z)
             Cz == WithError(w.u, Multiply(S.C, z), w.E)
         IN  /\ sent.claims = [Az |-> Extension(Az, x), Bz |-> Extension(Bz, x), Cz |-> Extension(Cz, x)]
             /\ sent.outer = SumCheckOf(OuterTotal(EvalsFromPoints(tau), Az, Bz, Cz), x,
                                        OuterValue(tau, sent.claims, x))
  PROVE  ClaimsOf(w, sent) /\ OuterHolds(sent, tau, x)
  <1> DEFINE z == Join(w.W, w.u, w.X)
             Az == Multiply(S.A, z)
             Bz == Multiply(S.B, z)
             Cz == WithError(w.u, Multiply(S.C, z), w.E)
             total == OuterTotal(EvalsFromPoints(tau), Az, Bz, Cz)
  <1>1. /\ sent.claims = [Az |-> Extension(Az, x), Bz |-> Extension(Bz, x), Cz |-> Extension(Cz, x)]
        /\ sent.outer = SumCheckOf(total, x, OuterValue(tau, sent.claims, x))
    BY Zenon
  <1>2. /\ num_rounds_x \in Nat /\ S.num_cons = PowerOfTwo[num_rounds_x] /\ S.num_cons \in Nat
    BY ShapeTypes, ShapeSizes
  <1>3. EvalsFromPoints(tau) \in Vectors(S.num_cons)
    BY <1>2, EvalsSize
  <1>4. z \in Vectors(Columns(S)) /\ w.u \in Field /\ w.E = Excess(S, z, w.u)
    BY AssignmentIs
  <1> HIDE DEF z
  <1>5. /\ Multiply(S.A, z) = Product(S.A, z) /\ Product(S.A, z) \in Vectors(S.num_cons)
        /\ Multiply(S.B, z) = Product(S.B, z) /\ Product(S.B, z) \in Vectors(S.num_cons)
        /\ Multiply(S.C, z) = Product(S.C, z)
    BY <1>4, ShapeTypes, ProductIs
  <1>6. Cz \in Vectors(S.num_cons) /\ \A i \in 0 .. S.num_cons - 1 : Times(Az[i], Bz[i]) = Cz[i]
    BY <1>4, <1>5, RelaxedHolds
  <1>7. Az \in Vectors(S.num_cons) /\ Bz \in Vectors(S.num_cons)
    BY <1>5
  <1> HIDE DEF Az, Bz, Cz
  <1>8. total = 0
    BY <1>2, <1>3, <1>6, <1>7, OuterTotalIsZero
  <1> HIDE DEF total
  <1>9. sent.outer.point = x /\ sent.outer.total = 0 /\ sent.outer.value = OuterValue(tau, sent.claims, x)
    BY <1>1, <1>8 DEF SumCheckOf
  <1>10. OuterHolds(sent, tau, x)
    BY <1>9 DEF OuterHolds, Verified
  <1>11. sent.claims.Az = Extension(Az, x) /\ sent.claims.Bz = Extension(Bz, x) /\ sent.claims.Cz = Extension(Cz, x)
    BY <1>1
  <1>12. ClaimsOf(w, sent)
    BY <1>9, <1>11, Zenon DEF ClaimsOf, z, Az, Bz, Cz
  <1> QED
    BY <1>10, <1>12

(* What the verifier checks after the rounds of the inner sum-check, and    *)
(* what the prover sends, for the challenge r and the point y.              *)
InnerHolds(V, sent, r, y) ==
  LET x == sent.outer.point
      eval_W == DirectEvaluation(sent.open_W, Tail(y))
      eval_E == DirectEvaluation(sent.open_E, x)
  IN  /\ DirectOpens(V.comm_E, sent.open_E, x)
      /\ Verified(sent.inner, Joint(sent.claims, eval_E, r), y)
      /\ DirectOpens(V.comm_W, sent.open_W, Tail(y))
      /\ sent.inner.value = Times(EvalABC(x, y, V.u, r), EvalZ(eval_W, V.u, V.X, y))
InnerSent(w, sent, r, y) ==
  LET x == sent.outer.point
      N == 2 * num_vars_padded
  IN  /\ sent.open_W = prove_direct(w.W, w.r_W, Tail(y))
      /\ sent.open_E = prove_direct(w.E, w.r_E, x)
      /\ sent.inner = Inner(Padded(BoundColumns(x, w.u, r), N), Padded(Join(w.W, w.u, w.X), N), y)

(* The direct openings of the witness and of its error. *)
LEMMA DirectOpeningsHold ==
  ASSUME IsShape(S), NEW w, IsRelaxed(w, S), CommittedWitness(w, S.num_vars),
         CommittedError(w.E, w.r_E, S.num_cons),
         NEW x \in [1 .. num_rounds_x -> Field], NEW y \in [1 .. num_rounds_y -> Field]
  PROVE  /\ DirectOpens(Commit(w.W, w.r_W), prove_direct(w.W, w.r_W, Tail(y)), Tail(y))
         /\ DirectEvaluation(prove_direct(w.W, w.r_W, Tail(y)), Tail(y))
              = Extension(Padded(w.W, num_vars_padded), Others(y, num_rounds_y - 1))
         /\ DirectOpens(Commit(w.E, w.r_E), prove_direct(w.E, w.r_E, x), x)
         /\ DirectEvaluation(prove_direct(w.E, w.r_E, x), x) = Extension(w.E, x)
  <1>1. PICK a, b, m, n : a = num_rounds_x /\ b = num_rounds_y - 1 /\ m = S.num_cons /\ n = S.num_vars
    OBVIOUS
  <1>2. /\ a \in Nat /\ b \in Nat /\ num_rounds_y = b + 1 /\ m = PowerOfTwo[a] /\ m > 0
        /\ num_vars_padded = PowerOfTwo[b] /\ n > 0 /\ n <= PowerOfTwo[b] /\ m \in Nat /\ n \in Nat
    BY <1>1, ShapeSizes, ShapeTypes
  <1>3. /\ w.W \in Vectors(n) /\ w.r_W \in Vectors(NumRows(n))
        /\ w.E \in Vectors(m) /\ w.r_E \in Vectors(NumRows(m))
    BY <1>1 DEF CommittedWitness, CommittedError
  <1>4. PICK p : p = Tail(y)
    OBVIOUS
  <1>5. p \in [1 .. b -> Field] /\ p = Others(y, b)
    <2>1. y \in [1 .. b + 1 -> Field]
      BY <1>2
    <2> QED
      BY <1>2, <1>4, <2>1, OthersAre
  <1>6. /\ DirectOpens(Commit(w.W, w.r_W), prove_direct(w.W, w.r_W, p), p)
        /\ DirectEvaluation(prove_direct(w.W, w.r_W, p), p) = Extension(Padded(w.W, PowerOfTwo[b]), p)
    BY <1>2, <1>3, <1>5, DirectOpeningHolds
  <1>7. m <= PowerOfTwo[a] /\ x \in [1 .. a -> Field]
    BY <1>1, <1>2
  <1>8. /\ DirectOpens(Commit(w.E, w.r_E), prove_direct(w.E, w.r_E, x), x)
        /\ DirectEvaluation(prove_direct(w.E, w.r_E, x), x) = Extension(Padded(w.E, PowerOfTwo[a]), x)
    BY <1>2, <1>3, <1>7, DirectOpeningHolds
  <1>9. Padded(w.E, PowerOfTwo[a]) = w.E
    <2>1. PICK e : e = w.E
      OBVIOUS
    <2>2. e \in Vectors(m)
      BY <1>3, <2>1
    <2>3. Padded(e, m) = e
      BY <1>2, <2>2, PaddedSame
    <2> QED
      BY <1>2, <2>1, <2>3
  <1> QED
    BY <1>1, <1>2, <1>4, <1>5, <1>6, <1>8, <1>9

(* The joined claims are the total of the inner sum-check. *)
LEMMA InnerTotalHolds ==
  ASSUME IsShape(S), NEW w, IsRelaxed(w, S), NEW sent, ClaimsOf(w, sent), NEW r \in Field
  PROVE  LET x == sent.outer.point
             N == 2 * num_vars_padded
         IN  InnerTotal(Padded(BoundColumns(x, w.u, r), N), Padded(Join(w.W, w.u, w.X), N))
               = Joint(sent.claims, Extension(w.E, x), r)
  <1> DEFINE x == sent.outer.point
             T == EvalsFromPoints(x)
             z == Join(w.W, w.u, w.X)
             u == w.u
             bc == BoundColumns(x, u, r)
             N == 2 * num_vars_padded
             C == Columns(S)
             e == Extension(w.E, x)
             claims == sent.claims
  <1>1. PICK a : a = num_rounds_x
    OBVIOUS
  <1>2. /\ a \in Nat /\ PowerOfTwo[a] = S.num_cons /\ S.num_cons \in Nat /\ C \in Nat
        /\ C <= N /\ N \in Nat
    <2>1. PowerOfTwo[num_rounds_y - 1] \in Nat
      BY ShapeSizes, PowerIsPositive
    <2> QED
      BY <1>1, <2>1, ShapeSizes, ShapeTypes DEF Columns
  <1>3. z \in Vectors(C) /\ u \in Field /\ w.E \in Vectors(S.num_cons)
    BY AssignmentIs
  <1>4. /\ x \in [1 .. a -> Field]
        /\ claims.Az = Extension(Multiply(S.A, z), x)
        /\ claims.Bz = Extension(Multiply(S.B, z), x)
        /\ claims.Cz = Extension(WithError(u, Multiply(S.C, z), w.E), x)
    BY <1>1, Zenon DEF ClaimsOf
  <1>5. /\ S.A \in [0 .. S.num_cons - 1 -> Vectors(C)] /\ S.B \in [0 .. S.num_cons - 1 -> Vectors(C)]
        /\ S.C \in [0 .. S.num_cons - 1 -> Vectors(C)]
    BY ShapeTypes
  <1> HIDE DEF x, z, u, N
  <1>6. /\ Multiply(S.A, z) = Product(S.A, z) /\ Multiply(S.B, z) = Product(S.B, z)
        /\ Multiply(S.C, z) = Product(S.C, z)
    BY <1>3, <1>5, ProductIs
  <1>7. /\ claims.Az = Weigh(T, S.A, z) /\ claims.Bz = Weigh(T, S.B, z) /\ Weigh(T, S.C, z) \in Field
    BY <1>2, <1>3, <1>4, <1>5, <1>6, ClaimIs
  <1>8. Minus(claims.Cz, e) = Times(u, Weigh(T, S.C, z))
    <2>1. PICK E : E = w.E
      OBVIOUS
    <2>2. E \in Vectors(S.num_cons)
      BY <1>3, <2>1
    <2>3. Minus(Extension(WithError(u, Product(S.C, z), E), x), Extension(E, x)) = Times(u, Weigh(T, S.C, z))
      BY <1>2, <1>3, <1>4, <2>2, ErrorClaimIs
    <2> QED
      BY <1>4, <1>6, <2>1, <2>3
  <1>9. T \in Vectors(S.num_cons)
    BY <1>2, <1>4, EvalsSize
  <1> HIDE DEF T, claims, e, C
  <1>10. Joint(claims, e, r) = JoinedWeights(T, z, u, r)
    BY <1>3, <1>7, <1>8, JointIs
  <1>11. bc \in Vectors(C) /\ Dot(bc, z, C) = JoinedWeights(T, z, u, r)
    <2>1. EvalsFromPoints(x) \in Vectors(S.num_cons) /\ z \in Vectors(Columns(S))
      BY <1>3, <1>9 DEF T, C
    <2>2. /\ BoundColumns(x, u, r) \in Vectors(Columns(S))
          /\ Dot(BoundColumns(x, u, r), z, Columns(S)) = JoinedWeights(EvalsFromPoints(x), z, u, r)
      BY <1>3, <2>1, BoundColumnsAre
    <2> QED
      BY <2>2 DEF T, C
  <1> HIDE DEF bc
  <1>12. InnerTotal(Padded(bc, N), Padded(z, N)) = Dot(bc, z, C)
    BY <1>2, <1>3, <1>11, InnerTotalIs
  <1>13. InnerTotal(Padded(bc, N), Padded(z, N)) = Joint(claims, e, r)
    BY <1>10, <1>11, <1>12
  <1> QED
    BY <1>13, Zenon DEF bc, claims, e, x, z, u, N

(* The product of the evaluations at the point is what the verifier finds   *)
(* from the shape and from the evaluation of the witness.                   *)
LEMMA InnerValueHolds ==
  ASSUME IsShape(S), NEW w, IsRelaxed(w, S), NEW x \in [1 .. num_rounds_x -> Field], NEW r \in Field,
         NEW y \in [1 .. num_rounds_y -> Field]
  PROVE  LET N == 2 * num_vars_padded
             eval_W == Extension(Padded(w.W, num_vars_padded), Others(y, num_rounds_y - 1))
         IN  /\ Extension(Padded(BoundColumns(x, w.u, r), N), y) = EvalABC(x, y, w.u, r)
             /\ Extension(Padded(Join(w.W, w.u, w.X), N), y) = EvalZ(eval_W, w.u, w.X, y)
  <1>1. PICK b, n, k, C, l : b = num_rounds_y - 1 /\ n = S.num_vars /\ k = S.num_io /\ C = Columns(S)
                            /\ l = num_rounds_y
    OBVIOUS
  <1>2. /\ b \in Nat /\ l = b + 1 /\ l \in Nat /\ n \in Nat /\ k \in Nat /\ C = n + 1 + k /\ C = n + (1 + k)
        /\ num_vars_padded = PowerOfTwo[b] /\ 2 * num_vars_padded = PowerOfTwo[l]
        /\ n <= PowerOfTwo[b] /\ C <= PowerOfTwo[l] /\ C \in Nat
        /\ n + 1 + k <= 2 * PowerOfTwo[b]
    <2>1. /\ num_rounds_y - 1 \in Nat /\ num_rounds_y = (num_rounds_y - 1) + 1
          /\ num_vars_padded = PowerOfTwo[num_rounds_y - 1]
          /\ 2 * num_vars_padded = PowerOfTwo[num_rounds_y]
          /\ S.num_vars <= num_vars_padded /\ S.num_vars + 1 + S.num_io <= 2 * num_vars_padded
      BY ShapeSizes
    <2>2. S.num_vars \in Nat /\ S.num_io \in Nat /\ Columns(S) = S.num_vars + 1 + S.num_io
      BY ShapeTypes DEF Columns
    <2>3. /\ b \in Nat /\ l = b + 1 /\ num_vars_padded = PowerOfTwo[b] /\ 2 * num_vars_padded = PowerOfTwo[l]
          /\ n <= num_vars_padded /\ n + 1 + k <= 2 * num_vars_padded
          /\ n \in Nat /\ k \in Nat /\ C = n + 1 + k
      BY <1>1, <2>1, <2>2
    <2>4. l \in Nat /\ C = n + (1 + k) /\ C \in Nat
      BY <2>3
    <2> QED
      BY <2>3, <2>4
  <1> DEFINE z == Join(w.W, w.u, w.X)
             bc == BoundColumns(x, w.u, r)
             T == EvalsFromPoints(y)
             first == FirstPart(T, C)
             L == PowerOfTwo[l]
  <1>3. z \in Vectors(C) /\ w.u \in Field
    BY <1>1, AssignmentIs
  <1>4. w.W \in Vectors(n) /\ w.X \in Vectors(k)
    BY <1>1 DEF IsRelaxed
  <1>5. EvalsFromPoints(x) \in Vectors(S.num_cons)
    <2>1. num_rounds_x \in Nat /\ S.num_cons = PowerOfTwo[num_rounds_x]
      BY ShapeSizes
    <2> QED
      BY <2>1, EvalsSize
  <1> HIDE DEF z
  <1>6. y \in [1 .. l -> Field]
    BY <1>1
  <1>7. first \in Vectors(C) /\ Extension(Padded(z, L), y) = Dot(z, T, C)
    BY <1>2, <1>3, <1>6, PaddedEvaluates
  <1> HIDE DEF first
  <1>8. bc \in Vectors(C) /\ Dot(bc, first, C) = JoinedWeights(EvalsFromPoints(x), first, w.u, r)
    <2>1. first \in Vectors(Columns(S))
      BY <1>1, <1>7
    <2>2. PICK u : u = w.u
      OBVIOUS
    <2>3. u \in Field
      BY <1>3, <2>2
    <2>4. /\ BoundColumns(x, u, r) \in Vectors(Columns(S))
          /\ Dot(BoundColumns(x, u, r), first, Columns(S)) = JoinedWeights(EvalsFromPoints(x), first, u, r)
      BY <1>5, <2>1, <2>3, BoundColumnsAre
    <2> QED
      BY <1>1, <2>2, <2>4
  <1>9. EvalABC(x, y, w.u, r) = JoinedWeights(EvalsFromPoints(x), first, w.u, r)
    <2>1. FirstPart(EvalsFromPoints(y), Columns(S)) \in Vectors(Columns(S))
      BY <1>1, <1>7 DEF first
    <2>2. EvalABC(x, y, w.u, r)
            = JoinedWeights(EvalsFromPoints(x), FirstPart(EvalsFromPoints(y), Columns(S)), w.u, r)
      BY <1>5, <2>1, EvalABCIs
    <2> QED
      BY <1>1, <2>2 DEF first
  <1>10. Extension(Padded(bc, L), y) = Dot(bc, first, C)
    <2> HIDE DEF bc
    <2> QED
      BY <1>2, <1>6, <1>8, PaddedEvaluates DEF first
  <1>11. Extension(Padded(bc, L), y) = EvalABC(x, y, w.u, r)
    BY <1>8, <1>9, <1>10
  <1> DEFINE eval_W == Extension(Padded(w.W, PowerOfTwo[b]), Others(y, b))
  <1>12. EvalZ(eval_W, w.u, w.X, y) = Dot(z, T, C)
    <2>1. PICK W, u, X : W = w.W /\ u = w.u /\ X = w.X
      OBVIOUS
    <2>2. W \in Vectors(n) /\ u \in Field /\ X \in Vectors(k) /\ y \in [1 .. b + 1 -> Field]
      BY <1>2, <1>3, <1>4, <1>6, <2>1
    <2>3. EvalZAt(Extension(Padded(W, PowerOfTwo[b]), Others(y, b)), u, X, y, n)
            = Dot(Join(W, u, X), EvalsFromPoints(y), n + (1 + k))
      BY <1>2, <2>2, EvalZAtIs
    <2>4. EvalZ(eval_W, u, X, y) = EvalZAt(eval_W, u, X, y, S.num_vars)
      <3> HIDE DEF eval_W
      <3> QED
        BY EvalZIs
    <2> QED
      BY <1>1, <1>2, <2>1, <2>3, <2>4 DEF z
  <1>13. Extension(Padded(z, L), y) = EvalZ(eval_W, w.u, w.X, y)
    BY <1>7, <1>12
  <1>14. L = 2 * num_vars_padded /\ PowerOfTwo[b] = num_vars_padded /\ b = num_rounds_y - 1
    BY <1>1, <1>2
  <1> HIDE DEF L
  <1> QED
    BY <1>11, <1>13, <1>14 DEF bc, z, eval_W

(* The openings and the inner sum-check of a satisfied witness are accepted *)
(* for every challenge and at every point, when the claims of the outer one *)
(* are evaluations of its products (spartan_relaxed.rs:258-308).            *)
THEOREM InnerHoldsIfSatisfied ==
  ASSUME IsShape(S), NEW w, IsRelaxed(w, S), CommittedWitness(w, S.num_vars),
         CommittedError(w.E, w.r_E, S.num_cons), NEW sent, ClaimsOf(w, sent),
         NEW r \in Field, NEW y \in [1 .. num_rounds_y -> Field], InnerSent(w, sent, r, y)
  PROVE  InnerHolds(Instance(w), sent, r, y)
  <1> DEFINE x == sent.outer.point
             N == 2 * num_vars_padded
             bc == Padded(BoundColumns(x, w.u, r), N)
             z == Padded(Join(w.W, w.u, w.X), N)
             eval_W == DirectEvaluation(sent.open_W, Tail(y))
             eval_E == DirectEvaluation(sent.open_E, x)
  <1>1. /\ sent.open_W = prove_direct(w.W, w.r_W, Tail(y))
        /\ sent.open_E = prove_direct(w.E, w.r_E, x)
        /\ sent.inner = Inner(bc, z, y)
    BY Zenon DEF InnerSent
  <1>2. x \in [1 .. num_rounds_x -> Field]
    BY Zenon DEF ClaimsOf
  <1> HIDE DEF x
  <1>3. /\ DirectOpens(Commit(w.W, w.r_W), prove_direct(w.W, w.r_W, Tail(y)), Tail(y))
        /\ DirectEvaluation(prove_direct(w.W, w.r_W, Tail(y)), Tail(y))
             = Extension(Padded(w.W, num_vars_padded), Others(y, num_rounds_y - 1))
        /\ DirectOpens(Commit(w.E, w.r_E), prove_direct(w.E, w.r_E, x), x)
        /\ DirectEvaluation(prove_direct(w.E, w.r_E, x), x) = Extension(w.E, x)
    BY <1>2, DirectOpeningsHold
  <1>4. eval_W = Extension(Padded(w.W, num_vars_padded), Others(y, num_rounds_y - 1))
        /\ eval_E = Extension(w.E, x)
        /\ DirectOpens(Commit(w.W, w.r_W), sent.open_W, Tail(y))
        /\ DirectOpens(Commit(w.E, w.r_E), sent.open_E, x)
    BY <1>1, <1>3
  <1> HIDE DEF eval_W, eval_E
  <1>5. InnerTotal(bc, z) = Joint(sent.claims, eval_E, r)
    BY <1>4, InnerTotalHolds DEF x
  <1>6. Extension(bc, y) = EvalABC(x, y, w.u, r) /\ Extension(z, y) = EvalZ(eval_W, w.u, w.X, y)
    BY <1>2, <1>4, InnerValueHolds
  <1> HIDE DEF bc, z
  <1>7. sent.inner.total = InnerTotal(bc, z) /\ sent.inner.point = y
        /\ sent.inner.value = Times(Extension(bc, y), Extension(z, y))
    BY <1>1 DEF Inner, SumCheckOf, InnerTotal
  <1>8. /\ Verified(sent.inner, Joint(sent.claims, eval_E, r), y)
        /\ sent.inner.value = Times(EvalABC(x, y, w.u, r), EvalZ(eval_W, w.u, w.X, y))
    BY <1>5, <1>6, <1>7 DEF Verified
  <1>9. /\ Instance(w).comm_W = Commit(w.W, w.r_W) /\ Instance(w).comm_E = Commit(w.E, w.r_E)
        /\ Instance(w).u = w.u /\ Instance(w).X = w.X
    BY DEF Instance
  <1> QED
    BY <1>4, <1>8, <1>9 DEF InnerHolds, x, eval_W, eval_E

(* What the verifier checks of an opening, for the challenge r.             *)
OpenHolds(comm, point, comm_eval, sent, r) ==
  /\ Size(comm) = PointRows(point) /\ Size(comm_eval) > 0
  /\ IpaHolds(BoundCommitment(comm, point), comm_eval[0], ColumnWeights(point), sent.messages,
              sent.answer, r)

(* A commitment to one value. *)
LEMMA ScalarCommit ==
  ASSUME NEW a \in Field, NEW r
  PROVE  Commit(Scalar(a), r)[0] = Row(Scalar(a), r[0]) /\ Size(Commit(Scalar(a), r)) = 1
  <1> DEFINE v == Scalar(a)
  <1>1. v \in Vectors(1)
    BY ScalarIs
  <1>2. NumRows(1) = 1
    BY WidthFacts, CeilingIs DEF NumRows
  <1> HIDE DEF v
  <1>3. DOMAIN v = 0 .. 1 - 1 /\ 1 \in Nat
    BY <1>1, VectorSize
  <1>4. Commit(v, r) = [i \in 0 .. NumRows(1) - 1 |-> CommittedRow(v, r, i)]
    BY <1>3, CommitIs
  <1>5. Commit(v, r)[0] = CommittedRow(v, r, 0)
    <2>1. 0 \in 0 .. NumRows(1) - 1
      BY <1>2
    <2> QED
      BY <1>4, <2>1
  <1>6. CommittedRow(v, r, 0) = Row(v, r[0])
    <2>1. \A j \in 0 .. Width - 1 : 0 * Width + j = j
      BY WidthFacts
    <2>2. [j \in 0 .. Width - 1 |-> At(v, 0 * Width + j)] = [j \in 0 .. Width - 1 |-> At(v, j)]
      BY <2>1
    <2> QED
      BY <2>2, Zenon DEF CommittedRow, Row, Padded
  <1>7. Size(Commit(v, r)) = 1
    BY <1>2, <1>3, CommitSize
  <1> QED
    BY <1>5, <1>6, <1>7 DEF v

(* A mask of the length of the combined row. *)
LEMMA MaskIs ==
  ASSUME NEW l \in Nat, NEW point \in [1 .. l -> Field], NEW c \in Nat, ColumnWeights(point) \in Vectors(c),
         NEW mask \in Masks(Size(ColumnWeights(point)))
  PROVE  IsMask(mask, c)
  <1>1. PICK a, b \in Nat : PointParted(point, l, a, b)
    BY PointIsParted
  <1>2. ColumnWeights(point) = EvalsFromPoints(RestOf(point, a, b))
        /\ (PowerOfTwo[b] = Width \/ PowerOfTwo[b] < Width) /\ a + b = l
    BY <1>1 DEF PointParted
  <1>3. RestOf(point, a, b) \in [1 .. b -> Field]
    <2>1. point \in [1 .. a + b -> Field]
      BY <1>2, Zenon
    <2> QED
      BY <2>1, PointParts
  <1>4. Size(ColumnWeights(point)) = PowerOfTwo[b] /\ Size(ColumnWeights(point)) = c
    <2>1. ColumnWeights(point) \in Vectors(PowerOfTwo[b]) /\ PowerOfTwo[b] \in Nat
      BY <1>2, <1>3, EvalsSize, PowerIsPositive
    <2> QED
      BY <2>1, VectorSize
  <1> DEFINE w == Log2(Width)
  <1>5. w \in Nat /\ Width = PowerOfTwo[w] /\ Width \in Nat
    <2>1. Width \in Nat /\ Width = PowerOfTwo[w]
      BY WidthAssumption DEF NextPowerOfTwo
    <2> QED
      BY <2>1, Logarithm
  <1> HIDE DEF w
  <1>6. b \in 0 .. w
    <2>1. ~(w < b)
      <3> SUFFICES ASSUME w < b PROVE FALSE
        OBVIOUS
      <3>1. PowerOfTwo[w] < PowerOfTwo[b] /\ PowerOfTwo[b] \in Nat
        BY <1>5, PowerIncreases, PowerIsPositive
      <3> QED
        BY <1>2, <1>5, <3>1
    <2> QED
      BY <1>5, <2>1
  <1>7. c \in {PowerOfTwo[k] : k \in 0 .. Log2(Width)}
    BY <1>4, <1>6 DEF w
  <1>8. Masks(c) \subseteq [d : Vectors(c), r_delta : Field, r_beta : Field]
    BY <1>7, AnswersAssumption
  <1> QED
    BY <1>4, <1>8 DEF IsMask

(* The blind of the evaluation that is opened. *)
LEMMA EvalBlindIs ==
  ASSUME IsMain(job.main), NEW d, HasCore => LastAnswer(d) \in Field
  PROVE  ZkClaim(PartWeights(d)).r_eval \in Vectors(1)
  <1> DEFINE blinds == job.main.eval_blinds
             r1 == blinds[1]
             r2 == blinds[2]
             x == Scalar(0)
             w == PartWeights(d)
  <1>1. blinds = Parts(r1, r2) /\ r1 \in Vectors(1) /\ (HasCore => r2 \in Vectors(1))
    BY EvalBlindsAre
  <1>2. NumRows(1) = 1 /\ 1 \in Nat
    BY WidthFacts, CeilingIs DEF NumRows
  <1>3. ZkClaim(w).r_eval = fold_blinds(blinds, w)
    BY DEF ZkClaim
  <1>4. x \in Vectors(1)
    BY Constants, ScalarIs
  <1> HIDE DEF blinds, r1, r2, x
  <1>5. PartsFolded(x, r1, x, r2, 1, PartWeights(d))
    BY <1>1, <1>2, <1>4, PartsFold DEF IsOpening
  <1>6. fold_blinds(Parts(r1, r2), w) \in Vectors(1)
    BY <1>2, <1>5 DEF PartsFolded, IsOpening
  <1> QED
    BY <1>1, <1>3, <1>6

(* The opening of the claim of the provers is accepted, for every challenge *)
(* and mask (hyrax_pc.rs:387-548, ipa.rs:139-222).                          *)
THEOREM ClaimOpens ==
  ASSUME IsMain(job.main), NEW d, HasCore => LastAnswer(d) \in Field,
         NEW q, q = ZkClaim(PartWeights(d)), q.comm_eval = Commit(Scalar(Extension(q.W, q.point)), q.r_eval),
         NEW mask \in Masks(Size(ColumnWeights(q.point))), NEW r \in Field, NEW sent,
         sent.messages = IpaMessages(mask, ColumnWeights(q.point)),
         sent.answer = IpaAnswer(mask, BoundRow(q.W, q.r_W, q.point), q.r_eval[0], r)
  PROVE  OpenHolds(q.comm, q.point, q.comm_eval, sent, r)
  <1>1. ClaimCommitted(PartWeights(d))
    BY ZkClaimIs
  <1>2. IsOpening(q.W, q.r_W, MainSize) /\ q.comm = Commit(q.W, q.r_W)
    BY <1>1, Zenon DEF ClaimCommitted
  <1>3. q.point = job.main.point
    BY DEF ZkClaim
  <1>4. q.r_eval \in Vectors(1)
    BY EvalBlindIs
  <1>5. PICK l, W, blinds, point, r_c : l = Len(job.main.point) /\ W = q.W /\ blinds = q.r_W /\ point = q.point
                                        /\ r_c = q.r_eval[0]
    OBVIOUS
  <1>6. /\ l \in Nat /\ point \in [1 .. l -> Field] /\ Len(point) = l
        /\ W \in Vectors(PowerOfTwo[l]) /\ blinds \in Vectors(NumRows(PowerOfTwo[l]))
    BY <1>2, <1>3, <1>5, StepsAre DEF MainSize, IsOpening
  <1>7. PowerOfTwo[l] \in Nat /\ PowerOfTwo[l] > 0 /\ r_c \in Field
    BY <1>4, <1>5, <1>6, PowerIsPositive, VectorSize
  <1> DEFINE row == BoundRow(W, blinds, point)
             b_vec == ColumnWeights(point)
             a == Extension(W, point)
  <1>8. BoundCommitment(Commit(W, blinds), point) = Row(row.v, row.blind)
    BY <1>6, <1>7, BoundCommitmentIs
  <1>9. PICK c \in Nat : /\ row.v \in Vectors(c) /\ b_vec \in Vectors(c)
                         /\ Dot(row.v, b_vec, c) = Extension(Padded(W, PowerOfTwo[l]), point)
    BY <1>6, <1>7, BoundRowEvaluates
  <1>10. Padded(W, PowerOfTwo[l]) = W
    BY <1>6, <1>7, PaddedSame
  <1>11. IsMask(mask, c)
    BY <1>5, <1>6, <1>9, MaskIs
  <1>12. row.blind \in Field
    <2>1. PICK v, e : row = [v |-> v, blind |-> e] /\ e = SumOf([i \in 0 .. LeastOf(Size(RowWeights(point)), Size(blinds)) - 1 |->
                         Times(RowWeights(point)[i], blinds[i])])
      BY Zenon DEF BoundRow
    <2>2. PICK rows, k \in Nat : PointSplit(point, l, rows, k)
      BY <1>6, PointIsSplit
    <2>3. rows \in Nat /\ RowWeights(point) \in Vectors(rows) /\ blinds \in Vectors(rows)
      BY <1>6, <2>2 DEF PointSplit
    <2>4. Size(RowWeights(point)) = rows /\ Size(blinds) = rows
      BY <2>3, VectorSize
    <2>5. LeastOf(rows, rows) = rows
      BY <2>3 DEF LeastOf
    <2> DEFINE s == [i \in 0 .. rows - 1 |-> Times(RowWeights(point)[i], blinds[i])]
    <2>6. s \in Vectors(rows)
      BY <2>3, VectorSize, FieldClosed DEF Vectors
    <2>7. e = SumOf(s)
      BY <2>1, <2>4, <2>5
    <2> HIDE DEF s
    <2>8. e \in Field
      BY <2>3, <2>6, <2>7, SumInField
    <2> QED
      BY <2>1, <2>8
  <1>13. row = [v |-> row.v, blind |-> row.blind]
    BY DEF BoundRow
  <1> HIDE DEF row, b_vec
  <1> DEFINE v == row.v
             e == row.blind
  <1> HIDE DEF v, e
  <1>14. IpaHolds(Row(v, e), Row(Scalar(Dot(v, b_vec, c)), r_c), b_vec, IpaMessages(mask, b_vec),
                  IpaAnswer(mask, [v |-> v, blind |-> e], r_c, r), r)
    BY <1>7, <1>9, <1>11, <1>12, ArgumentHolds DEF v, e
  <1>15. a \in Field /\ a = Dot(v, b_vec, c)
    BY <1>6, <1>9, <1>10, ExtensionInField DEF v
  <1> HIDE DEF a
  <1>16. q.comm_eval[0] = Row(Scalar(a), r_c) /\ Size(q.comm_eval) = 1
    <2>1. q.comm_eval = Commit(Scalar(a), q.r_eval)
      BY <1>5 DEF a
    <2> QED
      BY <1>5, <1>15, <2>1, ScalarCommit
  <1>17. Size(q.comm) = PointRows(point)
    <2>1. Size(Commit(W, blinds)) = NumRows(PowerOfTwo[l])
      BY <1>6, <1>7, VectorSize, CommitSize
    <2> QED
      BY <1>2, <1>5, <1>6, <2>1 DEF PointRows
  <1>18. IpaHolds(BoundCommitment(q.comm, q.point), q.comm_eval[0], ColumnWeights(q.point), sent.messages,
                  sent.answer, r)
    <2>1. BoundCommitment(q.comm, q.point) = Row(v, e)
      BY <1>2, <1>5, <1>8 DEF v, e, row
    <2>2. sent.messages = IpaMessages(mask, b_vec) /\ ColumnWeights(q.point) = b_vec
      BY <1>5 DEF b_vec
    <2>3. sent.answer = IpaAnswer(mask, [v |-> v, blind |-> e], r_c, r)
      <3>1. sent.answer = IpaAnswer(mask, row, r_c, r)
        BY <1>5 DEF row
      <3>2. row = [v |-> v, blind |-> e]
        BY <1>13, Zenon DEF v, e
      <3> QED
        BY <3>1, <3>2, Zenon
    <2> QED
      BY <1>14, <1>15, <1>16, <2>1, <2>2, <2>3
  <1>19. Size(q.comm_eval) > 0
    BY <1>16
  <1> QED
    BY <1>5, <1>17, <1>18, <1>19 DEF OpenHolds

(* The opening of the claim: the row the verifier finds is that of the      *)
(* prover.                                                                  *)
LEMMA OpenedRowIs ==
  ASSUME NEW l \in Nat, NEW point \in [1 .. l -> Field], NEW W, NEW r, IsOpening(W, r, PowerOfTwo[l])
  PROVE  BoundCommitment(Commit(W, r), point)
           = Row(BoundRow(W, r, point).v, BoundRow(W, r, point).blind)
  <1>1. PowerOfTwo[l] \in Nat /\ PowerOfTwo[l] > 0
    BY PowerIsPositive
  <1> QED
    BY <1>1, BoundCommitmentIs DEF IsOpening

-----------------------------------------------------------------------------
(* Every step leads from one channel to the next, and over all that is      *)
(* known later it leads from the one to the other again.  The steps are     *)
(* those of the provers and of the verifiers, with the messages of a proof. *)

(* The outer sum-check from b. *)
OuterTaken(sent, b, d) ==
  \E tau, x \in [1 .. num_rounds_x -> Field], fresh \in Field :
    d = OuterEnd(b, sent.claims, tau, x, fresh)
OuterAgain(sent, c, d) ==
  /\ LeadsTo(c, d)
  /\ LastAnswer(d) \in Field
  /\ \A e : Extends(d, e) =>
       /\ LastAnswer(On(d, e)) = LastAnswer(d)
       /\ \A f : OuterTaken(sent, On(c, e), f) => f = On(d, e)

LEMMA OuterRepeats ==
  ASSUME StageInv, NEW c, ChannelOK(c), NEW sent, NEW d, OuterTaken(sent, c, d)
  PROVE  OuterAgain(sent, c, d)
  <1> DEFINE n == num_rounds_x
             claims == sent.claims
  <1>0. n \in Nat
    BY Sizes DEF StageInv
  <1>1. PICK tau \in [1 .. n -> Field], x \in [1 .. n -> Field], fresh \in Field :
          d = OuterEnd(c, claims, tau, x, fresh)
    BY DEF OuterTaken
  <1> HIDE DEF n, claims
  <1>2. OuterKept(c, claims, tau, x, fresh, n)
    BY <1>0, OuterFacts
  <1>3. /\ AsksFor(c, d, {})
        /\ \A e : Extends(d, e) =>
             \A other_tau, other_x \in [1 .. n -> Field] : \A other :
               OuterEnd(On(c, e), claims, other_tau, other_x, other) = On(d, e)
    BY <1>1, <1>2, Zenon DEF OuterKept
  <1>4. /\ Follows(c, d) /\ ChannelOK(d) /\ LastAnswer(d) \in Field
        /\ \A e : Extends(d, e) => LastAnswer(On(d, e)) = LastAnswer(d)
    BY <1>3 DEF AsksFor, Follows, Extends
  <1>5. ASSUME NEW e, Extends(d, e), NEW f, OuterTaken(sent, On(c, e), f) PROVE f = On(d, e)
    <2>1. PICK other_tau \in [1 .. n -> Field], other_x \in [1 .. n -> Field], other \in Field :
            f = OuterEnd(On(c, e), claims, other_tau, other_x, other)
      BY <1>5 DEF OuterTaken, n, claims
    <2> QED
      BY <1>3, <1>5, <2>1
  <1> QED
    BY <1>4, <1>5 DEF OuterAgain, LeadsTo

RelaxedTaken(sent, c, d) == OuterTaken(sent, Opened(c, FoldedU(sent, c), FoldedX(sent, c)), d)
RelaxedAgain(sent, c, d) ==
  /\ LeadsTo(c, d)
  /\ LastAnswer(d) \in Field
  /\ \A e : Extends(d, e) =>
       /\ LastAnswer(On(d, e)) = LastAnswer(d)
       /\ \A f : RelaxedTaken(sent, On(c, e), f) => f = On(d, e)

LEMMA RelaxedRepeats ==
  ASSUME StageInv, NEW c, ChannelOK(c), NEW sent, NEW d, RelaxedTaken(sent, c, d),
         \A e : Extends(c, e) => LastAnswer(On(c, e)) = LastAnswer(c)
  PROVE  RelaxedAgain(sent, c, d)
  <1> DEFINE u == FoldedU(sent, c)
             X == FoldedX(sent, c)
             b == Opened(c, u, X)
  <1>1. OuterTaken(sent, b, d)
    BY DEF RelaxedTaken
  <1>2. ChannelOK(b) /\ Follows(c, b) /\ \A e : Opened(On(c, e), u, X) = On(b, e)
    <2> HIDE DEF u, X
    <2> QED
      BY OpenedRepeats
  <1> HIDE DEF b
  <1>3. OuterAgain(sent, b, d)
    BY <1>1, <1>2, OuterRepeats
  <1>4. /\ ChannelOK(d) /\ Follows(b, d) /\ LastAnswer(d) \in Field
        /\ \A e : Extends(d, e) => LastAnswer(On(d, e)) = LastAnswer(d)
        /\ \A e : Extends(d, e) => \A f : OuterTaken(sent, On(b, e), f) => f = On(d, e)
    BY <1>3 DEF OuterAgain, LeadsTo
  <1>5. Follows(c, d)
    BY <1>2, <1>4, FollowsTransitive
  <1>6. ASSUME NEW e, Extends(d, e), NEW f, RelaxedTaken(sent, On(c, e), f) PROVE f = On(d, e)
    <2>1. Extends(c, d)
      BY <1>5 DEF Follows
    <2>2. Extends(c, e)
      BY <1>6, <2>1, ExtendsTransitive
    <2>3. LastAnswer(On(c, e)) = LastAnswer(c)
      BY <2>2
    <2>4. FoldedU(sent, On(c, e)) = u /\ FoldedX(sent, On(c, e)) = X
      BY <2>3, Zenon DEF FoldedU, FoldedX
    <2>5. OuterTaken(sent, Opened(On(c, e), u, X), f)
      BY <1>6, <2>4, Zenon DEF RelaxedTaken
    <2>6. OuterTaken(sent, On(b, e), f)
      BY <1>2, <2>5
    <2> QED
      BY <1>4, <1>6, <2>6
  <1> QED
    BY <1>4, <1>5, <1>6 DEF RelaxedAgain, LeadsTo

(* The inner sum-check and the direct openings. *)
InnerTaken(sent, c, d) ==
  \E y \in [1 .. num_rounds_y -> Field] : d = InnerEnd(c, y, sent.open_W.v, sent.open_E.v)
InnerAgain(sent, c, d) ==
  /\ LeadsTo(c, d)
  /\ \A e : Extends(d, e) => \A f : InnerTaken(sent, On(c, e), f) => f = On(d, e)

LEMMA InnerRepeats ==
  ASSUME StageInv, NEW c, ChannelOK(c), NEW sent, NEW d, InnerTaken(sent, c, d)
  PROVE  InnerAgain(sent, c, d)
  <1> DEFINE n == num_rounds_y
             v == sent.open_W.v
             w == sent.open_E.v
  <1>0. n \in Nat
    BY Sizes DEF StageInv
  <1>1. PICK y \in [1 .. n -> Field] : d = InnerEnd(c, y, v, w)
    BY DEF InnerTaken
  <1> HIDE DEF n, v, w
  <1>2. InnerKept(c, y, v, w, n)
    BY <1>0, InnerFacts
  <1>3. /\ Follows(c, d)
        /\ \A e : \A other \in [1 .. n -> Field] : Extends(d, e) => InnerEnd(On(c, e), other, v, w) = On(d, e)
    BY <1>1, <1>2, Zenon DEF InnerKept
  <1>4. ChannelOK(d)
    BY <1>3 DEF Follows, Extends
  <1>5. ASSUME NEW e, Extends(d, e), NEW f, InnerTaken(sent, On(c, e), f) PROVE f = On(d, e)
    <2>1. PICK other \in [1 .. n -> Field] : f = InnerEnd(On(c, e), other, v, w)
      BY <1>5 DEF InnerTaken, n, v, w
    <2> QED
      BY <1>3, <1>5, <2>1
  <1> QED
    BY <1>3, <1>4, <1>5 DEF InnerAgain, LeadsTo

(* Without zero knowledge, the rounds alone. *)
RoundsTaken(c, d) == \E y \in [1 .. num_rounds_y -> Field] : d = InnerRounds(c, y)
RoundsAgain(c, d) ==
  /\ LeadsTo(c, d)
  /\ \A e : Extends(d, e) =>
       /\ Latest(On(d, e), num_rounds_y) = Latest(d, num_rounds_y)
       /\ \A f : RoundsTaken(On(c, e), f) => f = On(d, e)

LEMMA RoundsRepeat ==
  ASSUME StageInv, NEW c, ChannelOK(c), NEW d, RoundsTaken(c, d)
  PROVE  RoundsAgain(c, d) /\ Latest(d, num_rounds_y) \in [1 .. num_rounds_y -> Field]
  <1> DEFINE n == num_rounds_y
  <1>0. n \in Nat
    BY Sizes DEF StageInv
  <1>1. PICK y \in [1 .. n -> Field] : d = InnerRounds(c, y)
    BY DEF RoundsTaken
  <1> HIDE DEF n
  <1>2. InnerKept(c, y, 0, 0, n)
    BY <1>0, InnerFacts
  <1>3. /\ Follows(c, d) /\ LatestKept(d, n)
        /\ \A e : \A other \in [1 .. n -> Field] : Extends(d, e) => InnerRounds(On(c, e), other) = On(d, e)
    BY <1>1, <1>2, Zenon DEF InnerKept
  <1>4. ChannelOK(d)
    BY <1>3 DEF Follows, Extends
  <1>5. Latest(d, n) \in [1 .. n -> Field] /\ \A e : Extends(d, e) => Latest(On(d, e), n) = Latest(d, n)
    BY <1>3 DEF LatestKept
  <1>6. ASSUME NEW e, Extends(d, e), NEW f, RoundsTaken(On(c, e), f) PROVE f = On(d, e)
    <2>1. PICK other \in [1 .. n -> Field] : f = InnerRounds(On(c, e), other)
      BY <1>6 DEF RoundsTaken, n
    <2> QED
      BY <1>3, <1>6, <2>1
  <1>7. RoundsAgain(c, d)
    BY <1>3, <1>4, <1>5, <1>6 DEF RoundsAgain, LeadsTo, n
  <1> QED
    BY <1>5, <1>7 DEF n

(* The combination of the claims. *)
ClaimTaken(c, d) == \E fresh \in Field : d = ClaimChallenge(c, fresh)
ClaimAgain(c, d) ==
  /\ LeadsTo(c, d)
  /\ HasCore => LastAnswer(d) \in Field
  /\ \A e : Extends(d, e) =>
       /\ PartWeights(On(d, e)) = PartWeights(d)
       /\ \A f : ClaimTaken(On(c, e), f) => f = On(d, e)

LEMMA ClaimRepeats ==
  ASSUME NEW c, ChannelOK(c), NEW d, ClaimTaken(c, d)
  PROVE  ClaimAgain(c, d)
  <1>1. PICK fresh \in Field : d = ClaimChallenge(c, fresh)
    BY DEF ClaimTaken
  <1>2. ClaimKept(c, d)
    BY <1>1, ClaimFacts
  <1>3. /\ Follows(c, d) /\ (HasCore => LastAnswer(d) \in Field)
        /\ \A e : Extends(d, e) =>
             PartWeights(On(d, e)) = PartWeights(d) /\ \A other : ClaimChallenge(On(c, e), other) = On(d, e)
    BY <1>2, Zenon DEF ClaimKept
  <1>4. ChannelOK(d)
    BY <1>3 DEF Follows, Extends
  <1>5. ASSUME NEW e, Extends(d, e), NEW f, ClaimTaken(On(c, e), f) PROVE f = On(d, e)
    <2>1. PICK other \in Field : f = ClaimChallenge(On(c, e), other)
      BY <1>5 DEF ClaimTaken
    <2> QED
      BY <1>3, <1>5, <2>1
  <1> QED
    BY <1>3, <1>4, <1>5 DEF ClaimAgain, LeadsTo

(* The opening of comm at a point. *)
OpenTaken(sent, comm, point, comm_eval, c, d) ==
  \E fresh \in Field :
    d = OpenedAt(c, comm, BoundCommitment(comm, point), comm_eval[0], sent.messages, fresh)
OpenAgain(sent, comm, point, comm_eval, c, d) ==
  /\ LeadsTo(c, d)
  /\ \A e : Extends(d, e) =>
       \A f : OpenTaken(sent, comm, point, comm_eval, On(c, e), f) => f = On(d, e)

LEMMA OpenRepeats ==
  ASSUME NEW c, ChannelOK(c), NEW sent, NEW comm, NEW point, NEW comm_eval, NEW d,
         OpenTaken(sent, comm, point, comm_eval, c, d)
  PROVE  OpenAgain(sent, comm, point, comm_eval, c, d)
  <1> DEFINE a == BoundCommitment(comm, point)
             b == comm_eval[0]
             m == sent.messages
  <1>1. PICK fresh \in Field : d = OpenedAt(c, comm, a, b, m, fresh)
    BY DEF OpenTaken
  <1> HIDE DEF a, b, m
  <1>2. OpenKept(c, d, comm, a, b, m)
    BY <1>1, OpenFacts
  <1>3. /\ AsksFor(c, d, {<<"poly_com", comm>>} \cup OpeningEntries(m))
        /\ \A e, other : Extends(d, e) => OpenedAt(On(c, e), comm, a, b, m, other) = On(d, e)
    BY <1>2 DEF OpenKept
  <1>4. Follows(c, d) /\ ChannelOK(d)
    BY <1>3 DEF AsksFor, Follows, Extends
  <1>5. ASSUME NEW e, Extends(d, e), NEW f, OpenTaken(sent, comm, point, comm_eval, On(c, e), f)
        PROVE  f = On(d, e)
    <2>1. PICK other \in Field : f = OpenedAt(On(c, e), comm, a, b, m, other)
      BY <1>5 DEF OpenTaken, a, b, m
    <2> QED
      BY <1>3, <1>5, <2>1
  <1> QED
    BY <1>4, <1>5 DEF OpenAgain, LeadsTo

(* The instance, from the public values to the last commitment.             *)
InstanceTaken(sent, c, d) ==
  LET n == Len(job.early)
  IN  \E fresh \in [1 .. job.num_challenges -> Field] :
        d = Put(Challenged(Put(Put(c, "vk", "digest"), "public_values", sent.public_values),
                           SubSeq(sent.comms, 1, n), fresh),
                sent.comms[n + 1].label, sent.comms[n + 1].comm)
InstanceAgain(sent, c, d) ==
  /\ LeadsTo(c, d)
  /\ \A e : Extends(d, e) => \A f : InstanceTaken(sent, On(c, e), f) => f = On(d, e)

LEMMA InstanceRepeats ==
  ASSUME StageInv, ~job.zk, NEW c, ChannelOK(c), NEW sent, NEW d, InstanceTaken(sent, c, d),
         IsSequence(SubSeq(sent.comms, 1, Len(job.early)))
  PROVE  InstanceAgain(sent, c, d)
  <1> DEFINE n == Len(job.early)
             k == job.num_challenges
             public == sent.public_values
             comms == SubSeq(sent.comms, 1, n)
             label == sent.comms[n + 1].label
             comm == sent.comms[n + 1].comm
             begun(ch) == Put(Put(ch, "vk", "digest"), "public_values", public)
             a == begun(c)
  <1>0. k \in Nat
    BY Sizes DEF StageInv
  <1>1. PICK fresh \in [1 .. k -> Field] : d = Put(Challenged(a, comms, fresh), label, comm)
    BY DEF InstanceTaken
  <1>2. IsSequence(comms)
    OBVIOUS
  <1> HIDE DEF k, public, comms, label, comm
  <1>3. PutsTwo(c, a, "vk", "digest", "public_values", public)
    BY PutTwoFacts
  <1>4. ChannelOK(a) /\ Follows(c, a) /\ \A e : begun(On(c, e)) = On(a, e)
    BY <1>3 DEF PutsTwo
  <1> HIDE DEF a, begun
  <1> DEFINE b == Challenged(a, comms, fresh)
  <1>5. ChallengedKept(a, comms, fresh, k)
    BY <1>0, <1>2, <1>4, ChallengedFacts
  <1>6. /\ Follows(a, b)
        /\ \A e : \A other \in [1 .. k -> Field] : Extends(b, e) => Challenged(On(a, e), comms, other) = On(b, e)
    BY <1>5, Zenon DEF ChallengedKept
  <1>7. ChannelOK(b)
    BY <1>6 DEF Follows, Extends
  <1> HIDE DEF b
  <1>8. Absorbs(b, d, <<label, comm>>) /\ \A e : Put(On(b, e), label, comm) = On(d, e)
    BY <1>1, <1>7, PutFacts DEF b
  <1>9. Follows(b, d) /\ ChannelOK(d)
    BY <1>8 DEF Absorbs, Follows, Extends
  <1>10. Follows(c, d)
    BY <1>4, <1>6, <1>7, <1>9, FollowsTransitive
  <1>11. ASSUME NEW e, Extends(d, e), NEW f, InstanceTaken(sent, On(c, e), f) PROVE f = On(d, e)
    <2>1. PICK other \in [1 .. k -> Field] : f = Put(Challenged(begun(On(c, e)), comms, other), label, comm)
      BY <1>11 DEF InstanceTaken, k, public, comms, label, comm, begun
    <2>2. Extends(b, d)
      BY <1>9 DEF Follows
    <2>3. Extends(b, e)
      BY <1>7, <1>11, <2>2, ExtendsTransitive
    <2>4. Challenged(begun(On(c, e)), comms, other) = On(b, e)
      BY <1>4, <1>6, <2>3
    <2> QED
      BY <1>8, <2>1, <2>4
  <1> QED
    BY <1>9, <1>10, <1>11 DEF InstanceAgain, LeadsTo

-----------------------------------------------------------------------------
(* The steps of both provers in their order                                 *)

(* The commitment that is opened, as the verifier finds it. *)
ZkComm(weights) == fold_commitments(Parts(fold_commitments(StepComms, Weights), CoreComm), weights)
PlainComm(sent) == Joined([i \in DOMAIN sent.comms |-> sent.comms[i].comm])
ScalarComm(sent) == Commit(Scalar(sent.eval_W), sent.blind_eval_W)

ZkOpenTaken(sent, c, d) ==
  OpenTaken(sent, ZkComm(PartWeights(c)), job.main.point,
            fold_commitments(sent.evals, PartWeights(c)), c, d)
PlainOpenTaken(sent, c, d) ==
  OpenTaken(sent, PlainComm(sent), Tail(Latest(c, num_rounds_y)), ScalarComm(sent), c, d)

Steps == IF job.zk THEN 5 ELSE 4

(* Step i leads from c to d. *)
Taken(i, sent, c, d) ==
  \/ job.zk /\ i = 1 /\ FoldTaken(sent, c, d)
  \/ job.zk /\ i = 2 /\ RelaxedTaken(sent, c, d)
  \/ job.zk /\ i = 3 /\ InnerTaken(sent, c, d)
  \/ job.zk /\ i = 4 /\ ClaimTaken(c, d)
  \/ job.zk /\ i = 5 /\ ZkOpenTaken(sent, c, d)
  \/ ~job.zk /\ i = 1 /\ InstanceTaken(sent, c, d)
  \/ ~job.zk /\ i = 2 /\ OuterTaken(sent, c, d)
  \/ ~job.zk /\ i = 3 /\ RoundsTaken(c, d)
  \/ ~job.zk /\ i = 4 /\ PlainOpenTaken(sent, c, d)

(* The challenges that later steps use are the same when more is known.     *)
Steady(i, c) ==
  /\ job.zk /\ i \in {1, 2} =>
       /\ LastAnswer(c) \in Field
       /\ \A e : Extends(c, e) => LastAnswer(On(c, e)) = LastAnswer(c)
  /\ job.zk /\ i = 4 =>
       /\ HasCore => LastAnswer(c) \in Field
       /\ \A e : Extends(c, e) => PartWeights(On(c, e)) = PartWeights(c)
  /\ ~job.zk /\ i = 3 =>
       /\ Latest(c, num_rounds_y) \in [1 .. num_rounds_y -> Field]
       /\ \A e : Extends(c, e) => Latest(On(c, e), num_rounds_y) = Latest(c, num_rounds_y)

(* Taken over all that is known later, step i leads to the same channel.    *)
Again(i, sent, c, d) ==
  /\ LeadsTo(c, d)
  /\ \A e : Extends(d, e) => \A f : Taken(i, sent, On(c, e), f) => f = On(d, e)

LEMMA ZkOpenRepeats ==
  ASSUME NEW c, ChannelOK(c), NEW sent, NEW d, ZkOpenTaken(sent, c, d),
         \A e : Extends(c, e) => PartWeights(On(c, e)) = PartWeights(c)
  PROVE  /\ LeadsTo(c, d)
         /\ \A e : Extends(d, e) => \A f : ZkOpenTaken(sent, On(c, e), f) => f = On(d, e)
  <1> DEFINE comm == ZkComm(PartWeights(c))
             point == job.main.point
             evals == fold_commitments(sent.evals, PartWeights(c))
  <1>1. OpenTaken(sent, comm, point, evals, c, d)
    BY Zenon DEF ZkOpenTaken
  <1> HIDE DEF comm, point, evals
  <1>2. OpenAgain(sent, comm, point, evals, c, d)
    BY <1>1, OpenRepeats
  <1>3. /\ LeadsTo(c, d)
        /\ \A e : Extends(d, e) => \A f : OpenTaken(sent, comm, point, evals, On(c, e), f) => f = On(d, e)
    BY <1>2 DEF OpenAgain
  <1>4. ASSUME NEW e, Extends(d, e), NEW f, ZkOpenTaken(sent, On(c, e), f) PROVE f = On(d, e)
    <2>1. Extends(c, e)
      BY <1>3, <1>4, ExtendsTransitive DEF LeadsTo, Follows
    <2>2. PartWeights(On(c, e)) = PartWeights(c)
      BY <2>1
    <2>3. OpenTaken(sent, comm, point, evals, On(c, e), f)
      BY <1>4, <2>2, Zenon DEF ZkOpenTaken, comm, point, evals
    <2> QED
      BY <1>3, <1>4, <2>3
  <1> QED
    BY <1>3, <1>4

LEMMA PlainOpenRepeats ==
  ASSUME NEW c, ChannelOK(c), NEW sent, NEW d, PlainOpenTaken(sent, c, d),
         \A e : Extends(c, e) => Latest(On(c, e), num_rounds_y) = Latest(c, num_rounds_y)
  PROVE  /\ LeadsTo(c, d)
         /\ \A e : Extends(d, e) => \A f : PlainOpenTaken(sent, On(c, e), f) => f = On(d, e)
  <1> DEFINE comm == PlainComm(sent)
             point == Tail(Latest(c, num_rounds_y))
             evals == ScalarComm(sent)
  <1>1. OpenTaken(sent, comm, point, evals, c, d)
    BY Zenon DEF PlainOpenTaken
  <1> HIDE DEF comm, point, evals
  <1>2. OpenAgain(sent, comm, point, evals, c, d)
    BY <1>1, OpenRepeats
  <1>3. /\ LeadsTo(c, d)
        /\ \A e : Extends(d, e) => \A f : OpenTaken(sent, comm, point, evals, On(c, e), f) => f = On(d, e)
    BY <1>2 DEF OpenAgain
  <1>4. ASSUME NEW e, Extends(d, e), NEW f, PlainOpenTaken(sent, On(c, e), f) PROVE f = On(d, e)
    <2>1. Extends(c, e)
      BY <1>3, <1>4, ExtendsTransitive DEF LeadsTo, Follows
    <2>2. Latest(On(c, e), num_rounds_y) = Latest(c, num_rounds_y)
      BY <2>1
    <2>3. OpenTaken(sent, comm, point, evals, On(c, e), f)
      BY <1>4, <2>2, Zenon DEF PlainOpenTaken, comm, point, evals
    <2> QED
      BY <1>3, <1>4, <2>3
  <1> QED
    BY <1>3, <1>4

(* Every step repeats itself. *)
LEMMA StepRepeats ==
  ASSUME StageInv, NEW i, NEW c, ChannelOK(c), NEW sent, NEW d, Taken(i, sent, c, d), Steady(i - 1, c)
  PROVE  Again(i, sent, c, d) /\ Steady(i, d)
  <1>1. CASE job.zk /\ i = 1 /\ FoldTaken(sent, c, d)
    <2>1. FoldAgain(sent, c, d)
      BY <1>1, FoldRepeats
    <2>2. \A f, g : Taken(i, sent, f, g) => FoldTaken(sent, f, g)
      BY <1>1 DEF Taken
    <2> QED
      BY <1>1, <2>1, <2>2 DEF FoldAgain, Again, Steady
  <1>2. CASE job.zk /\ i = 2 /\ RelaxedTaken(sent, c, d)
    <2>1. \A e : Extends(c, e) => LastAnswer(On(c, e)) = LastAnswer(c)
      BY <1>2 DEF Steady
    <2>2. RelaxedAgain(sent, c, d)
      BY <1>2, <2>1, RelaxedRepeats
    <2>3. \A f, g : Taken(i, sent, f, g) => RelaxedTaken(sent, f, g)
      BY <1>2 DEF Taken
    <2> QED
      BY <1>2, <2>2, <2>3 DEF RelaxedAgain, Again, Steady
  <1>3. CASE job.zk /\ i = 3 /\ InnerTaken(sent, c, d)
    <2>1. InnerAgain(sent, c, d)
      BY <1>3, InnerRepeats
    <2>2. \A f, g : Taken(i, sent, f, g) => InnerTaken(sent, f, g)
      BY <1>3 DEF Taken
    <2> QED
      BY <1>3, <2>1, <2>2 DEF InnerAgain, Again, Steady
  <1>4. CASE job.zk /\ i = 4 /\ ClaimTaken(c, d)
    <2>1. ClaimAgain(c, d)
      BY <1>4, ClaimRepeats
    <2>2. \A f, g : Taken(i, sent, f, g) => ClaimTaken(f, g)
      BY <1>4 DEF Taken
    <2> QED
      BY <1>4, <2>1, <2>2 DEF ClaimAgain, Again, Steady
  <1>5. CASE job.zk /\ i = 5 /\ ZkOpenTaken(sent, c, d)
    <2>1. \A e : Extends(c, e) => PartWeights(On(c, e)) = PartWeights(c)
      BY <1>5 DEF Steady
    <2>2. /\ LeadsTo(c, d)
          /\ \A e : Extends(d, e) => \A f : ZkOpenTaken(sent, On(c, e), f) => f = On(d, e)
      BY <1>5, <2>1, ZkOpenRepeats
    <2>3. \A f, g : Taken(i, sent, f, g) => ZkOpenTaken(sent, f, g)
      BY <1>5 DEF Taken
    <2> QED
      BY <1>5, <2>2, <2>3 DEF Again, Steady
  <1>6. CASE ~job.zk /\ i = 1 /\ InstanceTaken(sent, c, d)
    <2>1. IsSequence(SubSeq(sent.comms, 1, Len(job.early)))
      <3> DEFINE s == sent.comms
                 n == Len(job.early)
      <3>1. n \in Nat /\ 0 \in Nat /\ 0 + 1 = 1 /\ 0 + n = n
        BY <1>6, EarlyFacts
      <3> HIDE DEF s, n
      <3>2. CutFrom(SubSeq(s, 0 + 1, 0 + n), s, 0, n)
        BY <3>1, Cut
      <3>3. IsSequence(SubSeq(s, 1, n))
        BY <3>1, <3>2 DEF CutFrom
      <3> QED
        BY <3>3 DEF s, n
    <2>2. InstanceAgain(sent, c, d)
      BY <1>6, <2>1, InstanceRepeats
    <2>3. \A f, g : Taken(i, sent, f, g) => InstanceTaken(sent, f, g)
      BY <1>6 DEF Taken
    <2> QED
      BY <1>6, <2>2, <2>3 DEF InstanceAgain, Again, Steady
  <1>7. CASE ~job.zk /\ i = 2 /\ OuterTaken(sent, c, d)
    <2>1. OuterAgain(sent, c, d)
      BY <1>7, OuterRepeats
    <2>2. \A f, g : Taken(i, sent, f, g) => OuterTaken(sent, f, g)
      BY <1>7 DEF Taken
    <2> QED
      BY <1>7, <2>1, <2>2 DEF OuterAgain, Again, Steady
  <1>8. CASE ~job.zk /\ i = 3 /\ RoundsTaken(c, d)
    <2>1. RoundsAgain(c, d) /\ Latest(d, num_rounds_y) \in [1 .. num_rounds_y -> Field]
      BY <1>8, RoundsRepeat
    <2>2. \A f, g : Taken(i, sent, f, g) => RoundsTaken(f, g)
      BY <1>8 DEF Taken
    <2> QED
      BY <1>8, <2>1, <2>2 DEF RoundsAgain, Again, Steady
  <1>9. CASE ~job.zk /\ i = 4 /\ PlainOpenTaken(sent, c, d)
    <2>1. \A e : Extends(c, e) => Latest(On(c, e), num_rounds_y) = Latest(c, num_rounds_y)
      BY <1>9 DEF Steady
    <2>2. /\ LeadsTo(c, d)
          /\ \A e : Extends(d, e) => \A f : PlainOpenTaken(sent, On(c, e), f) => f = On(d, e)
      BY <1>9, <2>1, PlainOpenRepeats
    <2>3. \A f, g : Taken(i, sent, f, g) => PlainOpenTaken(sent, f, g)
      BY <1>9 DEF Taken
    <2> QED
      BY <1>9, <2>2, <2>3 DEF Again, Steady
  <1> QED
    BY <1>1, <1>2, <1>3, <1>4, <1>5, <1>6, <1>7, <1>8, <1>9 DEF Taken

(* h gives the channel after each of the first k steps. *)
Played(h, sent, k) ==
  /\ h[0] = NewChannel(<<>>, <<>>)
  /\ \A i \in 1 .. k : Taken(i, sent, h[i - 1], h[i])

LEMMA PlayedFacts ==
  ASSUME StageInv, NEW k \in Nat, NEW h, NEW sent, Played(h, sent, k)
  PROVE  /\ \A i \in 0 .. k : ChannelOK(h[i]) /\ Steady(i, h[i]) /\ Extends(h[i], h[k])
         /\ \A i \in 1 .. k : Again(i, sent, h[i - 1], h[i])
  <1> DEFINE N == {i \in Nat : i <= k => ChannelOK(h[i]) /\ Steady(i, h[i])}
  <1>1. h[0] = NewChannel(<<>>, <<>>) /\ \A i \in 1 .. k : Taken(i, sent, h[i - 1], h[i])
    BY DEF Played
  <1>2. 0 \in N
    <2>1. ChannelOK(h[0])
      BY <1>1, StartOK
    <2>2. Steady(0, h[0])
      BY DEF Steady
    <2> QED
      BY <2>1, <2>2
  <1>3. ASSUME NEW i \in 1 .. k, ChannelOK(h[i - 1]), Steady(i - 1, h[i - 1])
        PROVE  Again(i, sent, h[i - 1], h[i]) /\ Steady(i, h[i]) /\ ChannelOK(h[i])
    <2> DEFINE c == h[i - 1]
               d == h[i]
    <2>1. Taken(i, sent, c, d) /\ ChannelOK(c) /\ Steady(i - 1, c)
      BY <1>1, <1>3
    <2> HIDE DEF c, d
    <2>2. Again(i, sent, c, d) /\ Steady(i, d)
      BY <2>1, StepRepeats
    <2> QED
      BY <2>2 DEF Again, LeadsTo, c, d
  <1>4. ASSUME NEW i \in Nat, i \in N PROVE i + 1 \in N
    <2>1. CASE ~(i + 1 <= k)
      BY <2>1
    <2>2. CASE i + 1 <= k
      <3> DEFINE j == i + 1
      <3>1. j \in 1 .. k /\ j - 1 = i /\ i <= k /\ j \in Nat
        BY <2>2
      <3>2. ChannelOK(h[i]) /\ Steady(i, h[i])
        BY <1>4, <3>1
      <3> HIDE DEF j
      <3>3. ChannelOK(h[j]) /\ Steady(j, h[j])
        BY <1>3, <3>1, <3>2
      <3>4. j \in N
        BY <3>1, <3>3
      <3> QED
        BY <3>4 DEF j
    <2> QED
      BY <2>1, <2>2
  <1> HIDE DEF N
  <1>5. \A i \in Nat : i \in N
    BY <1>2, <1>4, NatSetInduction
  <1>6. \A i \in 0 .. k : ChannelOK(h[i]) /\ Steady(i, h[i])
    BY <1>5 DEF N
  <1>7. \A i \in 1 .. k : Again(i, sent, h[i - 1], h[i])
    <2>1. \A i \in 1 .. k : i - 1 \in 0 .. k
      OBVIOUS
    <2> QED
      BY <1>3, <1>6, <2>1
  <1> DEFINE M == {j \in Nat : j <= k => Extends(h[k - j], h[k])}
  <1>8. 0 \in M
    <2>1. k - 0 = k /\ k \in 0 .. k
      OBVIOUS
    <2>2. Extends(h[k], h[k])
      BY <1>6, <2>1, ExtendsReflexive
    <2> QED
      BY <2>1, <2>2
  <1>9. ASSUME NEW j \in Nat, j \in M PROVE j + 1 \in M
    <2>1. CASE ~(j + 1 <= k)
      BY <2>1
    <2>2. CASE j + 1 <= k
      <3> DEFINE i == k - j
                 c == h[i - 1]
                 d == h[i]
      <3>1. i \in 1 .. k /\ i - 1 \in 0 .. k /\ k - (j + 1) = i - 1 /\ j <= k
        BY <2>2
      <3>2. Extends(d, h[k])
        BY <1>9, <3>1
      <3> HIDE DEF i
      <3>3. Again(i, sent, c, d) /\ ChannelOK(c)
        BY <1>6, <1>7, <3>1
      <3> HIDE DEF c, d
      <3>4. Extends(c, d)
        BY <3>3 DEF Again, LeadsTo, Follows
      <3>5. Extends(c, h[k])
        BY <3>2, <3>3, <3>4, ExtendsTransitive
      <3>6. Extends(h[k - (j + 1)], h[k])
        BY <3>1, <3>5 DEF c
      <3> QED
        BY <3>6
    <2> QED
      BY <2>1, <2>2
  <1> HIDE DEF M
  <1>10. \A j \in Nat : j \in M
    BY <1>8, <1>9, NatSetInduction
  <1>11. ASSUME NEW i \in 0 .. k PROVE Extends(h[i], h[k])
    <2> DEFINE j == k - i
    <2>1. j \in Nat /\ j <= k /\ k - j = i
      OBVIOUS
    <2> HIDE DEF j
    <2>2. Extends(h[k - j], h[k])
      BY <1>10, <2>1 DEF M
    <2> QED
      BY <2>1, <2>2
  <1> QED
    BY <1>6, <1>7, <1>11

(* The job does not change, and so neither does what a step may lead to.    *)
LEMMA JobKept ==
  ASSUME job' = job
  PROVE  /\ num_rounds_x' = num_rounds_x /\ num_rounds_y' = num_rounds_y
         /\ HasCore' = HasCore
         /\ \A c : PartWeights(c)' = PartWeights(c)
         /\ \A w : ZkComm(w)' = ZkComm(w)
         /\ MainSize' = MainSize
  <1>1. num_rounds_x' = num_rounds_x /\ num_rounds_y' = num_rounds_y
    BY DEF num_rounds_x, num_rounds_y, num_vars_padded, S
  <1>2. HasCore' = HasCore
    BY DEF HasCore
  <1>3. \A c : PartWeights(c)' = PartWeights(c)
    BY DEF PartWeights, HasCore
  <1>4. \A a, b : Parts(a, b)' = Parts(a, b)
    BY DEF Parts, HasCore
  <1>5. StepComms' = StepComms /\ Weights' = Weights /\ CoreComm' = CoreComm
    BY DEF StepComms, Weights, CoreComm, Core
  <1>6. MainSize' = MainSize
    BY DEF MainSize
  <1>7. ASSUME NEW w PROVE ZkComm(w)' = ZkComm(w)
    <2> DEFINE a == fold_commitments(StepComms, Weights)
    <2>1. a' = a
      BY <1>5
    <2>2. Parts(a, CoreComm)' = Parts(a, CoreComm)
      BY <1>4, <1>5, <2>1
    <2> QED
      BY <2>2 DEF ZkComm
  <1> QED
    BY <1>1, <1>2, <1>3, <1>6, <1>7

LEMMA TakenKept ==
  ASSUME job' = job, NEW i, NEW sent, NEW c, NEW d, Taken(i, sent, c, d)
  PROVE  Taken(i, sent, c, d)'
  <1>0. /\ num_rounds_x' = num_rounds_x /\ num_rounds_y' = num_rounds_y
        /\ \A w : ZkComm(w)' = ZkComm(w)
        /\ PartWeights(c)' = PartWeights(c)
    BY JobKept
  <1>1. job.zk /\ i = 1 /\ FoldTaken(sent, c, d) => Taken(i, sent, c, d)'
    BY DEF Taken, FoldTaken
  <1>2. job.zk /\ i = 2 /\ RelaxedTaken(sent, c, d) => Taken(i, sent, c, d)'
    BY <1>0 DEF Taken, RelaxedTaken, OuterTaken, FoldedU, FoldedX
  <1>3. job.zk /\ i = 3 /\ InnerTaken(sent, c, d) => Taken(i, sent, c, d)'
    BY <1>0 DEF Taken, InnerTaken
  <1>4. job.zk /\ i = 4 /\ ClaimTaken(c, d) => Taken(i, sent, c, d)'
    BY DEF Taken, ClaimTaken, ClaimChallenge, HasCore
  <1>5. job.zk /\ i = 5 /\ ZkOpenTaken(sent, c, d) => Taken(i, sent, c, d)'
    <2> SUFFICES ASSUME job.zk, i = 5, ZkOpenTaken(sent, c, d) PROVE ZkOpenTaken(sent, c, d)'
      BY DEF Taken
    <2>1. ZkComm(PartWeights(c))' = ZkComm(PartWeights(c))
      BY <1>0
    <2> QED
      BY <1>0, <2>1 DEF ZkOpenTaken, OpenTaken
  <1>6. ~job.zk /\ i = 1 /\ InstanceTaken(sent, c, d) => Taken(i, sent, c, d)'
    BY DEF Taken, InstanceTaken
  <1>7. ~job.zk /\ i = 2 /\ OuterTaken(sent, c, d) => Taken(i, sent, c, d)'
    BY <1>0 DEF Taken, OuterTaken
  <1>8. ~job.zk /\ i = 3 /\ RoundsTaken(c, d) => Taken(i, sent, c, d)'
    BY <1>0 DEF Taken, RoundsTaken
  <1>9. ~job.zk /\ i = 4 /\ PlainOpenTaken(sent, c, d) => Taken(i, sent, c, d)'
    BY <1>0 DEF Taken, PlainOpenTaken, OpenTaken
  <1> QED
    BY <1>1, <1>2, <1>3, <1>4, <1>5, <1>6, <1>7, <1>8, <1>9 DEF Taken

(* The messages of the first k steps are the same in q. *)
SameSent(p, q, k) ==
  /\ job.zk /\ k >= 1 => q.random_U = p.random_U /\ q.U2 = p.U2 /\ q.comm_T = p.comm_T
  /\ ~job.zk /\ k >= 1 => q.public_values = p.public_values /\ q.comms = p.comms
  /\ k >= 2 => q.claims = p.claims
  /\ job.zk /\ k >= 3 => q.open_W = p.open_W /\ q.open_E = p.open_E

LEMMA SentKept ==
  ASSUME NEW k \in Nat, k < Steps, NEW p, NEW q, SameSent(p, q, k),
         NEW i \in 1 .. k, NEW c, NEW d, Taken(i, p, c, d)
  PROVE  Taken(i, q, c, d)
  <1>1. job.zk => ~(i = 5)
    BY DEF Steps
  <1>2. ~job.zk => ~(i = 4)
    BY DEF Steps
  <1>3. job.zk /\ i = 1 /\ FoldTaken(p, c, d) => Taken(i, q, c, d)
    BY DEF SameSent, Taken, FoldTaken
  <1>4. job.zk /\ i = 2 /\ RelaxedTaken(p, c, d) => Taken(i, q, c, d)
    BY DEF SameSent, Taken, RelaxedTaken, OuterTaken, FoldedU, FoldedX
  <1>5. job.zk /\ i = 3 /\ InnerTaken(p, c, d) => Taken(i, q, c, d)
    BY DEF SameSent, Taken, InnerTaken
  <1>6. job.zk /\ i = 4 /\ ClaimTaken(c, d) => Taken(i, q, c, d)
    BY DEF Taken
  <1>7. ~job.zk /\ i = 1 /\ InstanceTaken(p, c, d) => Taken(i, q, c, d)
    BY DEF SameSent, Taken, InstanceTaken
  <1>8. ~job.zk /\ i = 2 /\ OuterTaken(p, c, d) => Taken(i, q, c, d)
    BY DEF SameSent, Taken, OuterTaken
  <1>9. ~job.zk /\ i = 3 /\ RoundsTaken(c, d) => Taken(i, q, c, d)
    BY DEF Taken
  <1> QED
    BY <1>1, <1>2, <1>3, <1>4, <1>5, <1>6, <1>7, <1>8, <1>9 DEF Taken

(* One step more: g goes on from h. *)
GoesOn(g, h, sent, k, d) ==
  Played(g, sent, k + 1) /\ g[k + 1] = d /\ \A i \in 0 .. k : g[i] = h[i]
LEMMA PlayOn ==
  ASSUME NEW k \in Nat, k < Steps, NEW p, NEW q, SameSent(p, q, k),
         NEW h, Played(h, p, k), NEW d, Taken(k + 1, q, h[k], d)
  PROVE  \E g : GoesOn(g, h, q, k, d)
  <1> DEFINE g == [i \in 0 .. k + 1 |-> IF i = k + 1 THEN d ELSE h[i]]
  <1>1. h[0] = NewChannel(<<>>, <<>>) /\ \A i \in 1 .. k : Taken(i, p, h[i - 1], h[i])
    BY DEF Played
  <1>2. \A i \in 1 .. k : Taken(i, q, h[i - 1], h[i])
    BY <1>1, SentKept
  <1>3. g[0] = h[0] /\ g[k + 1] = d /\ g[k] = h[k] /\ \A i \in 0 .. k : g[i] = h[i]
    OBVIOUS
  <1> HIDE DEF g
  <1>4. ASSUME NEW i \in 1 .. k + 1 PROVE Taken(i, q, g[i - 1], g[i])
    <2>1. CASE i = k + 1
      <3>1. i - 1 = k
        BY <2>1
      <3> QED
        BY <1>3, <2>1, <3>1
    <2>2. CASE i # k + 1
      <3>1. i \in 1 .. k /\ i - 1 \in 0 .. k /\ i \in 0 .. k
        BY <2>2
      <3> QED
        BY <1>2, <1>3, <3>1
    <2> QED
      BY <2>1, <2>2
  <1>5. Played(g, q, k + 1)
    BY <1>1, <1>3, <1>4 DEF Played
  <1> QED
    BY <1>3, <1>5 DEF GoesOn

LEMMA PlayedKept ==
  ASSUME job' = job, NEW h, NEW sent, NEW k, Played(h, sent, k)
  PROVE  Played(h, sent, k)'
  BY TakenKept DEF Played

(* What was noted of each step of the prover with zero knowledge, from c to *)
(* d: what it made of its challenges, and that the messages it sent pass    *)
(* the check of the verifier over whatever is known later.  w is the folded *)
(* witness and q the claim.                                                 *)
FoldNoted(w, sent, c) ==
  \E r_T \in Blinds(NumRows(S.num_cons)) :
    LET T == CrossTerm(RandomWitness, job.regular)
    IN  /\ w = FoldWitness(RandomWitness, job.regular, T, r_T, LastAnswer(c))
        /\ sent.random_U = Instance(RandomWitness) /\ sent.U2 = RegularInstance
        /\ sent.comm_T = Commit(T, r_T)

(* What the outer sum-check finds, over what e knows. *)
OuterPasses(w, sent, c, e) ==
  \A tau, x \in [1 .. num_rounds_x -> Field] :
    LET b == Opened(On(c, e), w.u, w.X)
    IN  OuterHolds(sent, Latest(OuterStart(b, tau), num_rounds_x),
                   Latest(OuterRounds(b, tau, x), num_rounds_x))
OuterNoted(w, sent, c, d) ==
  ClaimsOf(w, sent) /\ \A e : Extends(d, e) => OuterPasses(w, sent, c, e)

InnerPasses(w, sent, c, e) ==
  \A y \in [1 .. num_rounds_y -> Field] :
    InnerHolds(Instance(w), sent, LastAnswer(On(c, e)),
               Latest(InnerRounds(On(c, e), y), num_rounds_y))
InnerNoted(w, sent, c, d) == \A e : Extends(d, e) => InnerPasses(w, sent, c, e)

ClaimNoted(q, sent, d) ==
  /\ q = ZkClaim(PartWeights(d))
  /\ sent.evals = Parts(EvalRow(1, FoldedSteps.W), EvalRow(2, Core.W))

OpenNoted(q, sent, c, d) ==
  \A e : Extends(d, e) =>
    \A f : OpenTaken(sent, q.comm, q.point, q.comm_eval, On(c, e), f) =>
             OpenHolds(q.comm, q.point, q.comm_eval, sent, LastAnswer(f))

Note(i, w, q, sent, c, d) ==
  /\ i = 1 => FoldNoted(w, sent, d)
  /\ i = 2 => OuterNoted(w, sent, c, d)
  /\ i = 3 => InnerNoted(w, sent, c, d)
  /\ i = 4 => ClaimNoted(q, sent, d)
  /\ i = 5 => OpenNoted(q, sent, c, d)
Noted(h, w, q, sent, k) == job.zk => \A i \in 1 .. k : Note(i, w, q, sent, h[i - 1], h[i])

LEMMA NotesOfJob ==
  ASSUME job' = job
  PROVE  /\ RandomWitness' = RandomWitness /\ RegularInstance' = RegularInstance /\ S' = S
         /\ CrossTerm(RandomWitness, job.regular)' = CrossTerm(RandomWitness, job.regular)
         /\ \A c : ZkClaim(PartWeights(c))' = ZkClaim(PartWeights(c))
         /\ Parts(EvalRow(1, FoldedSteps.W), EvalRow(2, Core.W))'
              = Parts(EvalRow(1, FoldedSteps.W), EvalRow(2, Core.W))
  <1>1. S' = S /\ RandomWitness' = RandomWitness /\ RegularInstance' = RegularInstance
    BY DEF RandomWitness, RegularInstance, S
  <1>2. CrossTerm(RandomWitness, job.regular)' = CrossTerm(RandomWitness, job.regular)
    BY <1>1 DEF CrossTerm
  <1>3. FoldedSteps' = FoldedSteps
    BY DEF FoldedSteps, Weights, StepComms, Truncated
  <1>4. Core' = Core /\ CoreComm' = CoreComm /\ HasCore' = HasCore
    BY DEF Core, CoreComm, HasCore
  <1>5. \A k, w : EvalRow(k, w)' = EvalRow(k, w)
    BY DEF EvalRow, Evaluation
  <1>6. \A a, b : Parts(a, b)' = Parts(a, b)
    BY <1>4 DEF Parts
  <1>7. Parts(EvalRow(1, FoldedSteps.W), EvalRow(2, Core.W))' = Parts(EvalRow(1, FoldedSteps.W), EvalRow(2, Core.W))
    BY <1>3, <1>4, <1>5, <1>6
  <1>8. ASSUME NEW c PROVE ZkClaim(PartWeights(c))' = ZkClaim(PartWeights(c))
    <2>1. PartWeights(c)' = PartWeights(c)
      BY JobKept
    <2> QED
      BY <1>3, <1>4, <1>6, <1>7, <2>1 DEF ZkClaim
  <1> QED
    BY <1>1, <1>2, <1>7, <1>8

(* What the verifier checks is a matter of the job, too. *)
LEMMA ChecksOfJob ==
  ASSUME job' = job
  PROVE  /\ \A w, sent : ClaimsOf(w, sent) => ClaimsOf(w, sent)'
         /\ \A w, sent, c, e : OuterPasses(w, sent, c, e) => OuterPasses(w, sent, c, e)'
         /\ \A w, sent, c, e : InnerPasses(w, sent, c, e) => InnerPasses(w, sent, c, e)'
  <1>1. S' = S /\ num_rounds_x' = num_rounds_x /\ num_rounds_y' = num_rounds_y
    BY JobKept DEF S
  <1>2. ASSUME NEW w, NEW sent, ClaimsOf(w, sent) PROVE ClaimsOf(w, sent)'
    BY <1>1, <1>2 DEF ClaimsOf
  <1>3. ASSUME NEW w, NEW sent, NEW c, NEW e, OuterPasses(w, sent, c, e) PROVE OuterPasses(w, sent, c, e)'
    BY <1>1, <1>3 DEF OuterPasses, OuterHolds
  <1>4. \A x, y, u, r : EvalABC(x, y, u, r)' = EvalABC(x, y, u, r)
    BY <1>1 DEF EvalABC
  <1>5. \A a, u, X, y : EvalZ(a, u, X, y)' = EvalZ(a, u, X, y)
    BY <1>1 DEF EvalZ
  <1>6. \A V, sent, r, y : InnerHolds(V, sent, r, y)' = InnerHolds(V, sent, r, y)
    BY <1>4, <1>5 DEF InnerHolds
  <1>7. ASSUME NEW w, NEW sent, NEW c, NEW e, InnerPasses(w, sent, c, e) PROVE InnerPasses(w, sent, c, e)'
    BY <1>1, <1>6, <1>7 DEF InnerPasses
  <1> QED
    BY <1>2, <1>3, <1>7

LEMMA NoteKept ==
  ASSUME job' = job, NEW i, NEW w, NEW q, NEW sent, NEW c, NEW d, Note(i, w, q, sent, c, d)
  PROVE  Note(i, w, q, sent, c, d)'
  <1> DEFINE T == CrossTerm(RandomWitness, job.regular)
             e == Parts(EvalRow(1, FoldedSteps.W), EvalRow(2, Core.W))
             z == ZkClaim(PartWeights(d))
  <1>1. /\ T' = T /\ e' = e /\ z' = z
        /\ RandomWitness' = RandomWitness /\ RegularInstance' = RegularInstance /\ S' = S
    BY NotesOfJob
  <1> HIDE DEF T, e, z
  <1>2. FoldNoted(w, sent, d) => FoldNoted(w, sent, d)'
    BY <1>1 DEF FoldNoted, T
  <1>3. OuterNoted(w, sent, c, d) => OuterNoted(w, sent, c, d)'
    BY ChecksOfJob DEF OuterNoted
  <1>4. InnerNoted(w, sent, c, d) => InnerNoted(w, sent, c, d)'
    BY ChecksOfJob DEF InnerNoted
  <1>5. ClaimNoted(q, sent, d) => ClaimNoted(q, sent, d)'
    BY <1>1 DEF ClaimNoted, e, z
  <1>6. OpenNoted(q, sent, c, d) => OpenNoted(q, sent, c, d)'
    BY DEF OpenNoted, OpenTaken, OpenHolds
  <1> QED
    BY <1>2, <1>3, <1>4, <1>5, <1>6 DEF Note

LEMMA NotesKept ==
  ASSUME job' = job, NEW h, NEW w, NEW q, NEW sent, NEW k, Noted(h, w, q, sent, k)
  PROVE  Noted(h, w, q, sent, k)'
  BY NoteKept DEF Noted

(* What was noted of the first k steps stays true when these are the same.  *)
Remembers(k, w, q, sent, v, p, more) ==
  /\ k >= 1 => /\ v = w
               /\ more.random_U = sent.random_U /\ more.U2 = sent.U2 /\ more.comm_T = sent.comm_T
  /\ k >= 2 => more.outer = sent.outer /\ more.claims = sent.claims
  /\ k >= 3 => more.inner = sent.inner /\ more.open_W = sent.open_W /\ more.open_E = sent.open_E
  /\ k >= 4 => p = q /\ more.evals = sent.evals

LEMMA NoteRemains ==
  ASSUME NEW k \in Nat, k < 5, NEW w, NEW q, NEW sent, NEW v, NEW p, NEW more,
         Remembers(k, w, q, sent, v, p, more), NEW i \in 1 .. k, NEW c, NEW d, Note(i, w, q, sent, c, d)
  PROVE  Note(i, v, p, more, c, d)
  <1>1. i # 5
    OBVIOUS
  <1>2. i = 1 => FoldNoted(v, more, d)
    BY DEF Note, Remembers, FoldNoted
  <1>3. i = 2 => OuterNoted(v, more, c, d)
    <2> SUFFICES ASSUME i = 2 PROVE OuterNoted(v, more, c, d)
      OBVIOUS
    <2>1. v = w /\ more.outer = sent.outer /\ more.claims = sent.claims /\ OuterNoted(w, sent, c, d)
      BY DEF Note, Remembers
    <2>2. ClaimsOf(w, more)
      BY <2>1, Zenon DEF OuterNoted, ClaimsOf
    <2>3. \A e : OuterPasses(w, sent, c, e) => OuterPasses(w, more, c, e)
      BY <2>1, Zenon DEF OuterPasses, OuterHolds
    <2> QED
      BY <2>1, <2>2, <2>3 DEF OuterNoted
  <1>4. i = 3 => InnerNoted(v, more, c, d)
    <2> SUFFICES ASSUME i = 3 PROVE InnerNoted(v, more, c, d)
      OBVIOUS
    <2>1. /\ v = w /\ more.outer = sent.outer /\ more.claims = sent.claims /\ InnerNoted(w, sent, c, d)
          /\ more.inner = sent.inner /\ more.open_W = sent.open_W /\ more.open_E = sent.open_E
      BY DEF Note, Remembers
    <2>2. \A V, r, y : InnerHolds(V, sent, r, y) => InnerHolds(V, more, r, y)
      BY <2>1, Zenon DEF InnerHolds
    <2>3. \A e : InnerPasses(w, sent, c, e) => InnerPasses(w, more, c, e)
      BY <2>2, Zenon DEF InnerPasses
    <2> QED
      BY <2>1, <2>3 DEF InnerNoted
  <1>5. i = 4 => ClaimNoted(p, more, d)
    BY DEF Note, Remembers, ClaimNoted
  <1> QED
    BY <1>1, <1>2, <1>3, <1>4, <1>5 DEF Note

(* g goes on from h by d, and its step is noted. *)
LEMMA NotedOn ==
  ASSUME NEW k \in Nat, k < Steps, NEW h, NEW g, NEW d, NEW w, NEW q, NEW sent, NEW v, NEW p, NEW more,
         Noted(h, w, q, sent, k), g[k + 1] = d, \A i \in 0 .. k : g[i] = h[i],
         job.zk => Remembers(k, w, q, sent, v, p, more) /\ Note(k + 1, v, p, more, h[k], d)
  PROVE  Noted(g, v, p, more, k + 1)
  <1> SUFFICES ASSUME job.zk, NEW i \in 1 .. k + 1 PROVE Note(i, v, p, more, g[i - 1], g[i])
    BY DEF Noted
  <1>1. CASE i = k + 1
    <2>1. i - 1 = k /\ g[k] = h[k]
      BY <1>1
    <2> QED
      BY <1>1, <2>1
  <1>2. CASE i # k + 1
    <2>1. i \in 1 .. k /\ i \in 0 .. k /\ i - 1 \in 0 .. k
      BY <1>2
    <2>2. Note(i, w, q, sent, h[i - 1], h[i])
      BY <2>1 DEF Noted
    <2>3. g[i - 1] = h[i - 1] /\ g[i] = h[i] /\ k < 5
      BY <2>1 DEF Steps
    <2> QED
      BY <2>1, <2>2, <2>3, NoteRemains
  <1> QED
    BY <1>1, <1>2

(* The step after the first k, to d, keeps what is noted and notes its own. *)
Records(k, d) ==
  job.zk => /\ Remembers(k, folded, claim, proof, folded', claim', proof')
            /\ Note(k + 1, folded', claim', proof', channel, d)

(* What follows from what was noted when the fold was made. *)
LEMMA NotedFold ==
  ASSUME StageInv, job.zk, NEW w, NEW sent, NEW c, FoldNoted(w, sent, c), LastAnswer(c) \in Field
  PROVE  /\ IsRelaxed(w, S) /\ CommittedWitness(w, S.num_vars)
         /\ CommittedError(w.E, w.r_E, S.num_cons)
         /\ FoldInstance(sent.random_U, sent.U2, sent.comm_T, LastAnswer(c)) = Instance(w)
  <1> DEFINE W1 == RandomWitness
             W2 == job.regular
             T == CrossTerm(W1, W2)
             r == LastAnswer(c)
             shape == S
             n == S.num_vars
             m == S.num_cons
  <1>1. IsShape(shape) /\ IsFold(S, job.random, job.regular)
    BY JobsAssumption DEF StageInv, S
  <1>2. /\ IsRelaxed(W1, shape) /\ IsRegular(W2, shape)
        /\ CommittedWitness(W1, n) /\ CommittedWitness(W2, n) /\ CommittedError(W1.E, W1.r_E, m)
    BY <1>1, RandomIs
  <1>3. PICK r_T \in Blinds(NumRows(S.num_cons)) :
          /\ w = FoldWitness(W1, W2, T, r_T, r)
          /\ sent.random_U = Instance(W1) /\ sent.U2 = RegularInstance
          /\ sent.comm_T = Commit(T, r_T)
    BY Zenon DEF FoldNoted
  <1>4. r_T \in Vectors(NumRows(m))
    BY <1>3, AnswersAssumption DEF StageInv, S
  <1>5. RegularInstance = [comm_W |-> Commit(W2.W, W2.r_W), X |-> W2.X]
    BY Zenon DEF RegularInstance
  <1>6. n \in Nat /\ m \in Nat /\ n = shape.num_vars /\ m = shape.num_cons
    <2>1. shape.num_vars \in Nat /\ shape.num_cons \in Nat
      <3> HIDE DEF shape
      <3> QED
        BY <1>1, ShapeTypes
    <2> QED
      BY <2>1
  <1>7. r \in Field /\ shape = S
    OBVIOUS
  <1> HIDE DEF W1, W2, r, shape, n, m
  <1>8. T \in Vectors(m)
    <2>1. CrossTerm(W1, W2) \in Vectors(shape.num_cons)
      BY <1>1, <1>2, <1>7, CrossTermIs
    <2> QED
      BY <1>6, <2>1
  <1>9. IsRelaxed(w, S)
    <2>1. IsRelaxed(FoldWitness(W1, W2, CrossTerm(W1, W2), r_T, r), S)
      BY <1>1, <1>2, <1>7, FoldOfSatisfiedIsSatisfied
    <2> QED
      BY <1>3, <2>1
  <1> HIDE DEF T
  <1>10. FoldInstance(sent.random_U, sent.U2, sent.comm_T, r) = Instance(w)
    <2>1. CommittedError(T, r_T, m)
      BY <1>4, <1>8 DEF CommittedError
    <2>2. FoldInstance(Instance(W1), [comm_W |-> Commit(W2.W, W2.r_W), X |-> W2.X], Commit(T, r_T), r)
            = Instance(FoldWitness(W1, W2, T, r_T, r))
      BY <1>2, <1>6, <1>7, <2>1, FoldedInstanceIsOfFoldedWitness
    <2> QED
      BY <1>3, <1>5, <2>2
  <1>11. CommittedWitness(w, S.num_vars) /\ CommittedError(w.E, w.r_E, S.num_cons)
    <2>1. PICK a, b, e, f, N, M :
            /\ a = W1.r_W /\ b = W2.r_W /\ e = W1.E /\ f = W1.r_E /\ N = NumRows(n) /\ M = NumRows(m)
      OBVIOUS
    <2>2. PICK x, y : x = W1.W /\ y = W2.W
      OBVIOUS
    <2>3. N \in Nat /\ M \in Nat
      BY <1>6, <2>1, WidthFacts
    <2>4. a \in Vectors(N) /\ b \in Vectors(N) /\ e \in Vectors(m) /\ f \in Vectors(M)
          /\ r_T \in Vectors(M) /\ x \in Vectors(n) /\ y \in Vectors(n)
      BY <1>2, <1>4, <2>1, <2>2 DEF CommittedWitness, CommittedError
    <2>5. fold_vectors(<<a, b>>, <<1, r>>) \in Vectors(N) /\ fold_vectors(<<f, r_T>>, <<1, r>>) \in Vectors(M)
          /\ Scaled(x, y, r) \in Vectors(n) /\ Scaled(e, T, r) \in Vectors(m)
      BY <1>6, <1>7, <1>8, <2>3, <2>4, FoldOfTwo
    <2>6. /\ w.W = Scaled(x, y, r) /\ w.E = Scaled(e, T, r)
          /\ w.r_W = fold_vectors(<<a, b>>, <<1, r>>) /\ w.r_E = fold_vectors(<<f, r_T>>, <<1, r>>)
      BY <1>3, <2>1, <2>2 DEF FoldWitness, fold_blinds
    <2> QED
      BY <2>1, <2>5, <2>6 DEF CommittedWitness, CommittedError, n, m
  <1> QED
    BY <1>9, <1>10, <1>11 DEF r

(* Where the prover is after k steps, and the verifier on the same proof:   *)
(* the same transcript, over all that the prover asked.                     *)
ProverAt(k) == \E h : Played(h, proof, k) /\ channel = h[k] /\ Noted(h, folded, claim, proof, k)
VerifierAtOf(k, h) ==
  /\ Played(h, proof, Steps) /\ Noted(h, folded, claim, proof, Steps)
  /\ channel = On(h[k], h[Steps])
  /\ proof.asked = Len(h[Steps].oracle)
VerifierAt(k) == \E h : VerifierAtOf(k, h)

LEMMA StepsFacts == Steps \in Nat /\ (job.zk => Steps = 5) /\ (~job.zk => Steps = 4)
  BY DEF Steps

LEMMA ProverStep ==
  ASSUME job' = job, NEW k \in Nat, k < Steps, ProverAt(k), SameSent(proof, proof', k),
         Taken(k + 1, proof', channel, channel'), Records(k, channel')
  PROVE  ProverAt(k + 1)'
  <1>1. PICK p, q, c, d, w, v, a, b : /\ p = proof /\ q = proof' /\ c = channel /\ d = channel'
                                      /\ w = folded /\ v = folded' /\ a = claim /\ b = claim'
    OBVIOUS
  <1>2. PICK h : Played(h, p, k) /\ c = h[k] /\ Noted(h, w, a, p, k)
    BY <1>1 DEF ProverAt
  <1>3. SameSent(p, q, k) /\ Taken(k + 1, q, h[k], d)
    BY <1>1, <1>2
  <1>4. PICK g : Played(g, q, k + 1) /\ g[k + 1] = d /\ \A i \in 0 .. k : g[i] = h[i]
    <2>1. \E g : GoesOn(g, h, q, k, d)
      BY <1>2, <1>3, PlayOn
    <2> QED
      BY <2>1 DEF GoesOn
  <1>5. Played(g, q, k + 1)'
    BY <1>4, PlayedKept
  <1>6. job.zk => Remembers(k, w, a, p, v, b, q) /\ Note(k + 1, v, b, q, h[k], d)
    BY <1>1, <1>2 DEF Records
  <1>7. Noted(g, v, b, q, k + 1)
    BY <1>2, <1>4, <1>6, NotedOn
  <1>8. Noted(g, v, b, q, k + 1)'
    BY <1>7, NotesKept
  <1> QED
    BY <1>1, <1>4, <1>5, <1>8 DEF ProverAt

(* The last question of the prover is the last it asked.                    *)
LEMMA ProverEnds ==
  ASSUME StageInv, job' = job, NEW k \in Nat, k + 1 = Steps, ProverAt(k), SameSent(proof, proof', k),
         NEW d, Taken(k + 1, proof', channel, d),
         channel' = NewChannel(d.oracle, d.answers), proof'.asked = Len(d.oracle),
         Records(k, d)
  PROVE  VerifierAt(0)'
  <1>1. PICK p, q, c, w, v, a, b : /\ p = proof /\ q = proof' /\ c = channel
                                   /\ w = folded /\ v = folded' /\ a = claim /\ b = claim'
    OBVIOUS
  <1>2. PICK h : Played(h, p, k) /\ c = h[k] /\ Noted(h, w, a, p, k)
    BY <1>1 DEF ProverAt
  <1>3. SameSent(p, q, k) /\ Taken(k + 1, q, h[k], d) /\ k < Steps
    BY <1>1, <1>2, StepsFacts
  <1>4. PICK g : Played(g, q, k + 1) /\ g[k + 1] = d /\ \A i \in 0 .. k : g[i] = h[i]
    <2>1. \E g : GoesOn(g, h, q, k, d)
      BY <1>2, <1>3, PlayOn
    <2> QED
      BY <2>1 DEF GoesOn
  <1>5. Played(g, q, Steps)' /\ Steps' = Steps
    <2>1. Steps' = Steps
      BY DEF Steps
    <2>2. Played(g, q, k + 1)'
      BY <1>4, PlayedKept
    <2> QED
      BY <2>1, <2>2
  <1>6. channel' = On(g[0], g[Steps])
    <2>1. g[0] = NewChannel(<<>>, <<>>)
      BY <1>4 DEF Played
    <2>2. g[0].t = NewTranscript
      BY <2>1 DEF NewChannel
    <2>3. On(g[0], d) = NewChannel(d.oracle, d.answers)
      BY <2>2, Zenon DEF On, NewChannel
    <2> QED
      BY <1>4, <2>3
  <1>7. Noted(g, v, b, q, Steps)'
    <2>1. job.zk => Remembers(k, w, a, p, v, b, q) /\ Note(k + 1, v, b, q, h[k], d)
      BY <1>1, <1>2 DEF Records
    <2>2. Noted(g, v, b, q, k + 1)
      BY <1>2, <1>3, <1>4, <2>1, NotedOn
    <2>3. Noted(g, v, b, q, k + 1)'
      BY <2>2, NotesKept
    <2> QED
      BY <1>5, <2>3
  <1>8. VerifierAtOf(0, g)'
    BY <1>1, <1>4, <1>5, <1>6, <1>7 DEF VerifierAtOf
  <1> QED
    BY <1>8 DEF VerifierAt

(* The verifier takes every step as the prover did, and asks nothing new.   *)
LEMMA VerifierStep ==
  ASSUME StageInv, job' = job, proof' = proof, folded' = folded, claim' = claim, NEW k \in Nat, k < Steps, VerifierAt(k),
         Taken(k + 1, proof, channel, channel')
  PROVE  VerifierAt(k + 1)' /\ Len(channel'.oracle) = proof'.asked
  <1>1. PICK p, c, d, n, w, q : p = proof /\ c = channel /\ d = channel' /\ n = Steps /\ w = folded /\ q = claim
    OBVIOUS
  <1>2. PICK h : VerifierAtOf(k, h)
    BY DEF VerifierAt
  <1>3. Played(h, p, n) /\ c = On(h[k], h[n]) /\ p.asked = Len(h[n].oracle) /\ Noted(h, w, q, p, n)
    BY <1>1, <1>2 DEF VerifierAtOf
  <1>4. n \in Nat /\ k + 1 \in 1 .. n /\ k + 1 \in 0 .. n /\ (k + 1) - 1 = k
    BY <1>1, StepsFacts
  <1>5. /\ Extends(h[k + 1], h[n])
        /\ Again(k + 1, p, h[(k + 1) - 1], h[k + 1])
    BY <1>3, <1>4, PlayedFacts
  <1>6. Taken(k + 1, p, On(h[k], h[n]), d)
    BY <1>1, <1>3
  <1>7. d = On(h[k + 1], h[n])
    BY <1>4, <1>5, <1>6 DEF Again
  <1>8. d.oracle = h[n].oracle
    BY <1>7 DEF On
  <1>9. Played(h, p, n)' /\ Steps' = n
    BY <1>1, <1>3, PlayedKept DEF Steps
  <1>10. Noted(h, w, q, p, n)'
    BY <1>3, NotesKept
  <1>11. VerifierAtOf(k + 1, h)'
    BY <1>1, <1>3, <1>7, <1>9, <1>10 DEF VerifierAtOf
  <1> QED
    BY <1>1, <1>3, <1>8, <1>11 DEF VerifierAt

-----------------------------------------------------------------------------
(* What each side holds that goes into a later challenge, in every state    *)

(* What is opened: q is a claim of the prover or what the verifier found.   *)
ZkClaimed(q, sent, c) ==
  /\ q.comm = ZkComm(PartWeights(c))
  /\ q.point = job.main.point
  /\ q.comm_eval = fold_commitments(sent.evals, PartWeights(c))
PlainClaimed(q, sent, c) ==
  /\ q.comm = PlainComm(sent)
  /\ q.point = Tail(Latest(c, num_rounds_y))
  /\ q.comm_eval = ScalarComm(sent)
Claimed(q, sent, c) ==
  /\ job.zk => ZkClaimed(q, sent, c)
  /\ ~job.zk => PlainClaimed(q, sent, c)

(* The commitment of a claim opens to its witness and blinds. *)
Openable(q) == \E x \in Nat : IsOpening(q.W, q.r_W, x) /\ q.comm = Commit(q.W, q.r_W)
IsPoint(point) == Len(point) \in Nat /\ point \in [1 .. Len(point) -> Field]
FoldHeld(w, sent, c) == w.u = FoldedU(sent, c) /\ w.X = FoldedX(sent, c)

HeldInv ==
  /\ stage = "outer" => FoldHeld(folded, proof, channel)
  /\ stage = "verify_outer" =>
       /\ FoldHeld(U, proof, channel)
       /\ U = FoldInstance(proof.random_U, proof.U2, proof.comm_T, LastAnswer(channel))
  /\ stage \in {"plain_outer", "plain_inner"} => Openable(claim) /\ claim.comm = PlainComm(proof)
  /\ stage = "open" =>
       Openable(claim) /\ IsPoint(claim.point) /\ Claimed(claim, proof, channel)
  /\ stage = "verify_open" => Claimed(U, proof, channel)

(* How far each side is. *)
PlayInv ==
  /\ stage \in {"fold", "instance"} => ProverAt(0)
  /\ stage \in {"outer", "plain_outer"} => ProverAt(1)
  /\ stage \in {"inner", "plain_inner"} => ProverAt(2)
  /\ stage = "combine" => ProverAt(3)
  /\ stage = "open" => ProverAt(Steps - 1)
  /\ stage \in {"verify_fold", "verify_instance"} => VerifierAt(0)
  /\ stage \in {"verify_outer", "verify_plain_outer"} => VerifierAt(1)
  /\ stage \in {"verify_inner", "verify_plain_inner"} => VerifierAt(2)
  /\ stage = "verify_combine" => VerifierAt(3)
  /\ stage = "verify_open" => VerifierAt(Steps - 1)
  /\ stage \in {"accepted", "rejected"} => Len(channel.oracle) = proof.asked

FairInv == ArgumentInv /\ PlayInv /\ HeldInv

LEMMA HeldKept ==
  ASSUME job' = job, NEW q, NEW sent, NEW c, Claimed(q, sent, c)
  PROVE  Claimed(q, sent, c)'
  <1>1. /\ num_rounds_y' = num_rounds_y
        /\ \A w : ZkComm(w)' = ZkComm(w)
        /\ PartWeights(c)' = PartWeights(c)
    BY JobKept
  <1>2. ZkComm(PartWeights(c))' = ZkComm(PartWeights(c))
    BY <1>1
  <1> QED
    BY <1>1, <1>2 DEF Claimed, ZkClaimed, PlainClaimed

(* What the prover with zero knowledge has noted, and what is noted of it.  *)
ZkHas(h, w, q, sent, k) ==
  /\ \A i \in 1 .. k : Note(i, w, q, sent, h[i - 1], h[i])
  /\ \A i \in 0 .. k : ChannelOK(h[i]) /\ Steady(i, h[i]) /\ Extends(h[i], h[k])

LEMMA ZkProverHas ==
  ASSUME StageInv, job.zk, NEW k \in Nat, ProverAt(k)
  PROVE  \E h : ZkHas(h, folded, claim, proof, k) /\ channel = h[k]
  <1>1. PICK h : Played(h, proof, k) /\ channel = h[k] /\ Noted(h, folded, claim, proof, k)
    BY DEF ProverAt
  <1>2. \A i \in 0 .. k : ChannelOK(h[i]) /\ Steady(i, h[i]) /\ Extends(h[i], h[k])
    BY <1>1, PlayedFacts
  <1> QED
    BY <1>1, <1>2 DEF Noted, ZkHas

LEMMA ZkVerifierHas ==
  ASSUME StageInv, job.zk, NEW k \in Nat, VerifierAt(k)
  PROVE  \E h : ZkHas(h, folded, claim, proof, 5) /\ channel = On(h[k], h[5])
  <1>1. PICK h : VerifierAtOf(k, h)
    BY DEF VerifierAt
  <1>2. Played(h, proof, 5) /\ Noted(h, folded, claim, proof, 5) /\ channel = On(h[k], h[5]) /\ 5 \in Nat
    BY <1>1, StepsFacts DEF VerifierAtOf
  <1>3. \A i \in 0 .. 5 : ChannelOK(h[i]) /\ Steady(i, h[i]) /\ Extends(h[i], h[5])
    BY <1>2, PlayedFacts
  <1> QED
    BY <1>2, <1>3 DEF Noted, ZkHas

(* The folded witness is satisfied as soon as the fold is noted. *)
LEMMA ZkHasFold ==
  ASSUME StageInv, job.zk, NEW h, NEW w, NEW q, NEW sent, NEW k \in Nat, k >= 1, ZkHas(h, w, q, sent, k)
  PROVE  /\ IsShape(S)
         /\ LastAnswer(h[1]) \in Field
         /\ \A e : Extends(h[1], e) => LastAnswer(On(h[1], e)) = LastAnswer(h[1])
         /\ IsRelaxed(w, S) /\ CommittedWitness(w, S.num_vars)
         /\ CommittedError(w.E, w.r_E, S.num_cons)
         /\ FoldNoted(w, sent, h[1])
         /\ FoldInstance(sent.random_U, sent.U2, sent.comm_T, LastAnswer(h[1])) = Instance(w)
  <1>1. 1 \in 1 .. k /\ 1 \in 0 .. k
    OBVIOUS
  <1>2. FoldNoted(w, sent, h[1]) /\ Steady(1, h[1])
    BY <1>1 DEF ZkHas, Note
  <1>3. /\ LastAnswer(h[1]) \in Field
        /\ \A e : Extends(h[1], e) => LastAnswer(On(h[1], e)) = LastAnswer(h[1])
    BY <1>2 DEF Steady
  <1>4. PICK c : c = h[1]
    OBVIOUS
  <1>5. /\ IsRelaxed(w, S) /\ CommittedWitness(w, S.num_vars)
        /\ CommittedError(w.E, w.r_E, S.num_cons)
        /\ FoldInstance(sent.random_U, sent.U2, sent.comm_T, LastAnswer(c)) = Instance(w)
    BY <1>2, <1>3, <1>4, NotedFold
  <1>6. IsShape(S)
    BY JobsAssumption DEF StageInv, S
  <1> QED
    BY <1>2, <1>3, <1>4, <1>5, <1>6

(* The outer sum-check of a satisfied witness passes later. *)
OuterSent(w, sent, c, d, tau, x, fresh) ==
  LET z == Join(w.W, w.u, w.X)
      b == Opened(c, w.u, w.X)
      outer == Outer(b, Multiply(S.A, z), Multiply(S.B, z), WithError(w.u, Multiply(S.C, z), w.E),
                     tau, x, fresh)
  IN  d = OuterEnd(b, sent.claims, tau, x, fresh) /\ sent.claims = outer.claims /\ sent.outer = outer.sum

LEMMA OuterNotes ==
  ASSUME IsShape(S), NEW w, IsRelaxed(w, S), NEW c, ChannelOK(c), NEW d, NEW sent,
         NEW tau \in [1 .. num_rounds_x -> Field], NEW x \in [1 .. num_rounds_x -> Field], NEW fresh \in Field,
         OuterSent(w, sent, c, d, tau, x, fresh)
  PROVE  OuterNoted(w, sent, c, d)
  <1> DEFINE z == Join(w.W, w.u, w.X)
             b == Opened(c, w.u, w.X)
             Az == Multiply(S.A, z)
             Bz == Multiply(S.B, z)
             Cz == WithError(w.u, Multiply(S.C, z), w.E)
             n == num_rounds_x
             start == OuterStart(b, tau)
             rounds == OuterRounds(b, tau, x)
             T == Latest(start, n)
             X == Latest(rounds, n)
             claims == sent.claims
  <1>1. /\ d = OuterEnd(b, claims, tau, x, fresh)
        /\ claims = Outer(b, Az, Bz, Cz, tau, x, fresh).claims
        /\ sent.outer = Outer(b, Az, Bz, Cz, tau, x, fresh).sum
    BY Zenon DEF OuterSent
  <1>2. ChannelOK(b) /\ \A e : Opened(On(c, e), w.u, w.X) = On(b, e)
    <2>1. PICK u, Y : u = w.u /\ Y = w.X
      OBVIOUS
    <2>2. ChannelOK(Opened(c, u, Y)) /\ \A e : Opened(On(c, e), u, Y) = On(Opened(c, u, Y), e)
      BY OpenedRepeats
    <2> QED
      BY <2>1, <2>2
  <1>3. n \in Nat /\ tau \in [1 .. n -> Field] /\ x \in [1 .. n -> Field]
    BY ShapeSizes
  <1> HIDE DEF z, b, n, claims
  <1>4. OuterKept(b, claims, tau, x, fresh, n)
    BY <1>2, <1>3, OuterFacts
  <1>5. /\ LatestKept(start, n) /\ LatestKept(rounds, n)
        /\ \A e : Extends(d, e) =>
             /\ Extends(start, e) /\ Extends(rounds, e)
             /\ \A other_tau, other_x \in [1 .. n -> Field] :
                  /\ OuterStart(On(b, e), other_tau) = On(start, e)
                  /\ OuterRounds(On(b, e), other_tau, other_x) = On(rounds, e)
    BY <1>1, <1>4, Zenon DEF OuterKept
  <1> HIDE DEF Az, Bz, Cz
  <1>6. /\ claims = [Az |-> Extension(Az, X), Bz |-> Extension(Bz, X), Cz |-> Extension(Cz, X)]
        /\ sent.outer = SumCheckOf(OuterTotal(EvalsFromPoints(T), Az, Bz, Cz), X, OuterValue(T, claims, X))
    <2> DEFINE o == Outer(b, Az, Bz, Cz, tau, x, fresh)
    <2>1. /\ o.claims = [Az |-> Extension(Az, X), Bz |-> Extension(Bz, X), Cz |-> Extension(Cz, X)]
          /\ o.sum = SumCheckOf(OuterTotal(EvalsFromPoints(T), Az, Bz, Cz), X, OuterValue(T, o.claims, X))
      BY OuterSumIs DEF n
    <2>2. claims = o.claims /\ sent.outer = o.sum
      BY <1>1, Zenon
    <2> HIDE DEF o, T, X
    <2> QED
      BY <2>1, <2>2
  <1> HIDE DEF start, rounds
  <1>7. /\ T \in [1 .. n -> Field] /\ X \in [1 .. n -> Field]
        /\ \A e : Extends(start, e) => Latest(On(start, e), n) = T
        /\ \A e : Extends(rounds, e) => Latest(On(rounds, e), n) = X
    BY <1>5 DEF LatestKept
  <1> HIDE DEF T, X
  <1>8. ClaimsOf(w, sent) /\ OuterHolds(sent, T, X)
    <2>1. T \in [1 .. num_rounds_x -> Field] /\ X \in [1 .. num_rounds_x -> Field]
      BY <1>7 DEF n
    <2>2. /\ sent.claims = [Az |-> Extension(Az, X), Bz |-> Extension(Bz, X), Cz |-> Extension(Cz, X)]
          /\ sent.outer = SumCheckOf(OuterTotal(EvalsFromPoints(T), Az, Bz, Cz), X,
                                     OuterValue(T, sent.claims, X))
      BY <1>6, Zenon DEF claims
    <2> QED
      BY <2>1, <2>2, OuterHoldsIfSatisfied, Zenon DEF Az, Bz, Cz, z
  <1>9. ASSUME NEW e, Extends(d, e) PROVE OuterPasses(w, sent, c, e)
    <2>1. ASSUME NEW t \in [1 .. n -> Field], NEW y \in [1 .. n -> Field]
          PROVE  OuterHolds(sent, Latest(OuterStart(On(b, e), t), n), Latest(OuterRounds(On(b, e), t, y), n))
      <3>1. OuterStart(On(b, e), t) = On(start, e) /\ OuterRounds(On(b, e), t, y) = On(rounds, e)
            /\ Extends(start, e) /\ Extends(rounds, e)
        BY <1>5, <1>9, <2>1
      <3>2. Latest(OuterStart(On(b, e), t), n) = T /\ Latest(OuterRounds(On(b, e), t, y), n) = X
        BY <1>7, <3>1
      <3> QED
        BY <1>8, <3>2
    <2>2. Opened(On(c, e), w.u, w.X) = On(b, e)
      BY <1>2
    <2> QED
      BY <2>1, <2>2, Zenon DEF OuterPasses, n
  <1> QED
    BY <1>8, <1>9 DEF OuterNoted

LEMMA InnerNotes ==
  ASSUME IsShape(S), NEW w, IsRelaxed(w, S), CommittedWitness(w, S.num_vars),
         CommittedError(w.E, w.r_E, S.num_cons), NEW sent, ClaimsOf(w, sent),
         NEW c, ChannelOK(c), LastAnswer(c) \in Field,
         \A e : Extends(c, e) => LastAnswer(On(c, e)) = LastAnswer(c),
         NEW y \in [1 .. num_rounds_y -> Field], NEW d, d = InnerEnd(c, y, sent.open_W.v, sent.open_E.v),
         InnerSent(w, sent, LastAnswer(c), Latest(InnerRounds(c, y), num_rounds_y))
  PROVE  InnerNoted(w, sent, c, d)
  <1> DEFINE n == num_rounds_y
             rounds == InnerRounds(c, y)
             Y == Latest(rounds, n)
             r == LastAnswer(c)
             v_W == sent.open_W.v
             v_E == sent.open_E.v
  <1>1. n \in Nat /\ y \in [1 .. n -> Field]
    BY ShapeSizes
  <1>2. d = InnerEnd(c, y, v_W, v_E)
    OBVIOUS
  <1> HIDE DEF n, v_W, v_E
  <1>3. InnerKept(c, y, v_W, v_E, n)
    BY <1>1, InnerFacts
  <1>4. /\ LatestKept(rounds, n) /\ Follows(c, d)
        /\ \A e : \A other \in [1 .. n -> Field] : Extends(rounds, e) => InnerRounds(On(c, e), other) = On(rounds, e)
        /\ \A e : \A other \in [1 .. n -> Field] : Extends(d, e) => Extends(rounds, e)
    BY <1>2, <1>3, Zenon DEF InnerKept
  <1> HIDE DEF rounds
  <1>5. Y \in [1 .. n -> Field] /\ \A e : Extends(rounds, e) => Latest(On(rounds, e), n) = Y
    BY <1>4 DEF LatestKept
  <1>6. InnerSent(w, sent, r, Y)
    BY DEF n, rounds
  <1> HIDE DEF Y, r
  <1>7. InnerHolds(Instance(w), sent, r, Y)
    <2>1. r \in Field /\ Y \in [1 .. num_rounds_y -> Field]
      BY <1>5 DEF r, n
    <2> QED
      BY <1>6, <2>1, InnerHoldsIfSatisfied
  <1>8. ASSUME NEW e, Extends(d, e) PROVE InnerPasses(w, sent, c, e)
    <2>1. Extends(c, e)
      BY <1>4, <1>8, ExtendsTransitive DEF Follows
    <2>2. LastAnswer(On(c, e)) = r
      BY <2>1 DEF r
    <2>3. ASSUME NEW other \in [1 .. n -> Field]
          PROVE  InnerHolds(Instance(w), sent, LastAnswer(On(c, e)), Latest(InnerRounds(On(c, e), other), n))
      <3>1. Extends(rounds, e) /\ InnerRounds(On(c, e), other) = On(rounds, e)
        BY <1>4, <1>8, <2>3
      <3>2. Latest(InnerRounds(On(c, e), other), n) = Y
        BY <1>5, <3>1
      <3> QED
        BY <1>7, <2>2, <3>2
    <2> QED
      BY <2>3, Zenon DEF InnerPasses, n
  <1> QED
    BY <1>8 DEF InnerNoted

LEMMA OpenNotes ==
  ASSUME IsMain(job.main), NEW c, ChannelOK(c), HasCore => LastAnswer(c) \in Field,
         NEW q, q = ZkClaim(PartWeights(c)),
         NEW mask \in Masks(Size(ColumnWeights(q.point))), NEW fresh \in Field, NEW sent, NEW d,
         d = OpenedAt(c, q.comm, BoundCommitment(q.comm, q.point), q.comm_eval[0], sent.messages, fresh),
         sent.messages = IpaMessages(mask, ColumnWeights(q.point)),
         sent.answer = IpaAnswer(mask, BoundRow(q.W, q.r_W, q.point), q.r_eval[0], LastAnswer(d))
  PROVE  OpenNoted(q, sent, c, d)
  <1> DEFINE comm == q.comm
             a == BoundCommitment(q.comm, q.point)
             b == q.comm_eval[0]
             m == sent.messages
             r == LastAnswer(d)
  <1>1. d = OpenedAt(c, comm, a, b, m, fresh)
    OBVIOUS
  <1> HIDE DEF comm, a, b, m
  <1>2. OpenKept(c, d, comm, a, b, m)
    BY <1>1, OpenFacts
  <1>3. /\ r \in Field /\ \A e : Extends(d, e) => LastAnswer(On(d, e)) = r
        /\ \A e, other : Extends(d, e) => OpenedAt(On(c, e), comm, a, b, m, other) = On(d, e)
    BY <1>2 DEF OpenKept, AsksFor
  <1>4. q.comm_eval = Commit(Scalar(Extension(q.W, q.point)), q.r_eval)
    <2> DEFINE k == PartWeights(c)
               evals == fold_commitments(Parts(EvalRow(1, FoldedSteps.W), EvalRow(2, Core.W)), k)
    <2>1. evals = Commit(Scalar(Extension(ZkClaim(k).W, job.main.point)), ZkClaim(k).r_eval)
      BY ClaimEvaluates
    <2>2. q = ZkClaim(k)
      OBVIOUS
    <2> HIDE DEF k
    <2>3. ZkClaim(k).comm_eval = evals /\ ZkClaim(k).point = job.main.point
      BY DEF ZkClaim
    <2> QED
      BY <2>1, <2>2, <2>3
  <1> HIDE DEF r
  <1>5. OpenHolds(q.comm, q.point, q.comm_eval, sent, r)
    <2>1. sent.answer = IpaAnswer(mask, BoundRow(q.W, q.r_W, q.point), q.r_eval[0], r)
      BY DEF r
    <2> QED
      BY <1>3, <1>4, <2>1, ClaimOpens
  <1>6. ASSUME NEW e, Extends(d, e), NEW f, OpenTaken(sent, q.comm, q.point, q.comm_eval, On(c, e), f)
        PROVE  OpenHolds(q.comm, q.point, q.comm_eval, sent, LastAnswer(f))
    <2>1. PICK other \in Field : f = OpenedAt(On(c, e), comm, a, b, m, other)
      BY <1>6 DEF OpenTaken, comm, a, b, m
    <2>2. f = On(d, e) /\ LastAnswer(f) = r
      BY <1>3, <1>6, <2>1
    <2> QED
      BY <1>5, <2>2
  <1> QED
    BY <1>6 DEF OpenNoted

LEMMA FoldPlays ==
  ASSUME FairInv, FoldProve
  PROVE  ProverAt(1)' /\ FoldHeld(folded, proof, channel)'
  <1>1. StageInv /\ job.zk /\ job' = job /\ ProverAt(0)
    BY DEF FairInv, ArgumentInv, PlayInv, FoldProve, StageInv, ZkStages
  <1>2. PICK r_T \in Blinds(NumRows(S.num_cons)), fresh \in Field : FoldDone(r_T, fresh)
    BY <1>1, FoldProveIs
  <1> DEFINE comm_T == Commit(CrossTerm(RandomWitness, job.regular), r_T)
  <1>3. /\ channel' = FoldChallenge(channel, Instance(RandomWitness), RegularInstance, comm_T, fresh)
        /\ proof'.random_U = Instance(RandomWitness) /\ proof'.U2 = RegularInstance
        /\ proof'.comm_T = comm_T
        /\ folded' = FoldWitness(RandomWitness, job.regular, CrossTerm(RandomWitness, job.regular), r_T,
                                 LastAnswer(channel'))
    BY <1>2, Zenon DEF FoldDone
  <1> HIDE DEF comm_T
  <1>4. FoldTaken(proof', channel, channel')
    BY <1>3, Zenon DEF FoldTaken
  <1>5. Taken(0 + 1, proof', channel, channel') /\ 0 \in Nat /\ 0 + 1 = 1 /\ 0 < Steps
    BY <1>1, <1>4, StepsFacts DEF Taken
  <1>6. SameSent(proof, proof', 0)
    BY DEF SameSent
  <1>7. ProverAt(1)'
    <2>1. PICK d : d = channel'
      OBVIOUS
    <2>2. FoldNoted(folded', proof', d)
      BY <1>3, <2>1, Zenon DEF FoldNoted, comm_T
    <2>3. Records(0, d)
      BY <2>2 DEF Records, Remembers, Note
    <2> QED
      BY <1>1, <1>5, <1>6, <2>1, <2>3, ProverStep
  <1>8. /\ Instance(RandomWitness).u = RandomWitness.u /\ Instance(RandomWitness).X = RandomWitness.X
        /\ RegularInstance.X = job.regular.X
    BY DEF Instance, RegularInstance
  <1>9. /\ folded'.u = Plus(RandomWitness.u, LastAnswer(channel'))
        /\ folded'.X = Scaled(RandomWitness.X, job.regular.X, LastAnswer(channel'))
    BY <1>3 DEF FoldWitness
  <1>10. folded'.u = FoldedU(proof', channel') /\ folded'.X = FoldedX(proof', channel')
    BY <1>3, <1>8, <1>9 DEF FoldedU, FoldedX
  <1> QED
    BY <1>7, <1>10 DEF FoldHeld

LEMMA OuterPlays ==
  ASSUME FairInv, OuterProve
  PROVE  ProverAt(2)'
  <1>1. /\ StageInv /\ FieldsInv /\ job.zk /\ job' = job /\ folded' = folded /\ ProverAt(1)
        /\ FoldHeld(folded, proof, channel) /\ DOMAIN proof = FoldFields
    BY DEF FairInv, ArgumentInv, PlayInv, HeldInv, OuterProve, StageInv, ZkStages, FieldsInv
  <1> DEFINE z == Join(folded.W, folded.u, folded.X)
             b == Opened(channel, folded.u, folded.X)
  <1>2. OuterDone(b, Multiply(S.A, z), Multiply(S.B, z), RelaxedCz(z))
    BY <1>1, OuterProveIs
  <1>3. PICK tau \in [1 .. num_rounds_x -> Field], x \in [1 .. num_rounds_x -> Field], fresh \in Field :
          OuterWith(b, Multiply(S.A, z), Multiply(S.B, z), RelaxedCz(z), tau, x, fresh)
    BY <1>2 DEF OuterDone
  <1>4. channel' = OuterEnd(b, proof'.claims, tau, x, fresh)
    <2> HIDE DEF b
    <2> QED
      BY <1>3, Zenon DEF OuterWith
  <1>5. \A f \in FoldFields : proof'[f] = proof[f]
    <2> HIDE DEF b, z
    <2> QED
      BY <1>1, <1>3 DEF OuterWith, Grows
  <1>6. proof'.random_U = proof.random_U /\ proof'.U2 = proof.U2 /\ proof'.comm_T = proof.comm_T
    BY <1>5 DEF FoldFields
  <1>7. b = Opened(channel, FoldedU(proof', channel), FoldedX(proof', channel))
    BY <1>1, <1>6, Zenon DEF FoldHeld, FoldedU, FoldedX
  <1> HIDE DEF b, z
  <1>8. RelaxedTaken(proof', channel, channel')
    <2>1. OuterTaken(proof', b, channel')
      BY <1>3, <1>4 DEF OuterTaken
    <2> QED
      BY <1>7, <2>1, Zenon DEF RelaxedTaken
  <1>9. Taken(1 + 1, proof', channel, channel') /\ 1 \in Nat /\ 1 + 1 = 2 /\ 1 < Steps
    BY <1>1, <1>8, StepsFacts DEF Taken
  <1>10. SameSent(proof, proof', 1)
    BY <1>1, <1>6 DEF SameSent
  <1>11. PICK p, d : p = proof' /\ d = channel'
    OBVIOUS
  <1>12. OuterNoted(folded, p, channel, d)
    <2>1. PICK h : ZkHas(h, folded, claim, proof, 1) /\ channel = h[1]
      BY <1>1, ZkProverHas
    <2>2. IsShape(S) /\ IsRelaxed(folded, S)
      BY <1>1, <2>1, ZkHasFold
    <2>3. ChannelOK(channel)
      BY <2>1 DEF ZkHas
    <2>4. RelaxedCz(z) = WithError(folded.u, Multiply(S.C, z), folded.E)
      BY Zenon DEF RelaxedCz, WithError
    <2>5. OuterWith(b, Multiply(S.A, z), Multiply(S.B, z), WithError(folded.u, Multiply(S.C, z), folded.E),
                    tau, x, fresh)
      BY <1>3, <2>4
    <2>6. OuterSent(folded, p, channel, d, tau, x, fresh)
      BY <1>4, <1>11, <2>5, Zenon DEF OuterSent, OuterWith, b, z
    <2> QED
      BY <2>2, <2>3, <2>6, OuterNotes
  <1>13. Records(1, channel')
    BY <1>1, <1>6, <1>11, <1>12 DEF Records, Remembers, Note
  <1> QED
    BY <1>1, <1>9, <1>10, <1>13, ProverStep

LEMMA InnerPlays ==
  ASSUME FairInv, InnerProve
  PROVE  ProverAt(3)'
  <1>1. /\ StageInv /\ FieldsInv /\ job.zk /\ job' = job /\ folded' = folded /\ ProverAt(2)
        /\ DOMAIN proof = FoldFields \cup OuterFields
    BY DEF FairInv, ArgumentInv, PlayInv, InnerProve, StageInv, ZkStages, FieldsInv
  <1>2. PICK y \in [1 .. num_rounds_y -> Field] :
          /\ channel' = InnerEnd(channel, y, proof'.open_W.v, proof'.open_E.v)
          /\ \E g : Grows(proof, proof', g)
          /\ LET rounds == InnerRounds(channel, y)
                 yy == Latest(rounds, num_rounds_y)
                 r_x == proof.outer.point
                 poly_ABC == Padded(BoundColumns(r_x, folded.u, LastAnswer(channel)), 2 * num_vars_padded)
                 poly_z == Padded(Join(folded.W, folded.u, folded.X), 2 * num_vars_padded)
             IN  /\ proof'.inner = Inner(poly_ABC, poly_z, yy)
                 /\ proof'.open_W = prove_direct(folded.W, folded.r_W, Tail(yy))
                 /\ proof'.open_E = prove_direct(folded.E, folded.r_E, r_x)
    BY <1>1, InnerProveIs, Zenon
  <1>3. InnerTaken(proof', channel, channel')
    BY <1>2 DEF InnerTaken
  <1>4. \A f \in FoldFields \cup OuterFields : proof'[f] = proof[f]
    BY <1>1, <1>2 DEF Grows
  <1>5. SameSent(proof, proof', 2)
    BY <1>1, <1>4 DEF SameSent, FoldFields, OuterFields
  <1>6. Taken(2 + 1, proof', channel, channel') /\ 2 \in Nat /\ 2 + 1 = 3 /\ 2 < Steps
    BY <1>1, <1>3, StepsFacts DEF Taken
  <1>7. PICK p, d, Y : p = proof' /\ d = channel' /\ Y = Latest(InnerRounds(channel, y), num_rounds_y)
    OBVIOUS
  <1>8. /\ p.outer = proof.outer /\ p.claims = proof.claims
        /\ p.random_U = proof.random_U /\ p.U2 = proof.U2 /\ p.comm_T = proof.comm_T
    BY <1>4, <1>7 DEF FoldFields, OuterFields
  <1>9. InnerNoted(folded, p, channel, d)
    <2>1. PICK h : ZkHas(h, folded, claim, proof, 2) /\ channel = h[2]
      BY <1>1, ZkProverHas
    <2>2. /\ IsShape(S) /\ IsRelaxed(folded, S) /\ CommittedWitness(folded, S.num_vars)
          /\ CommittedError(folded.E, folded.r_E, S.num_cons)
      BY <1>1, <2>1, ZkHasFold
    <2>3. 2 \in 1 .. 2 /\ 2 \in 0 .. 2
      OBVIOUS
    <2>4. ChannelOK(channel) /\ Steady(2, channel) /\ Note(2, folded, claim, proof, h[2 - 1], channel)
      BY <2>1, <2>3 DEF ZkHas
    <2>5. /\ LastAnswer(channel) \in Field
          /\ \A e : Extends(channel, e) => LastAnswer(On(channel, e)) = LastAnswer(channel)
      BY <1>1, <2>4 DEF Steady
    <2>6. ClaimsOf(folded, proof)
      BY <2>4 DEF Note, OuterNoted
    <2>7. ClaimsOf(folded, p)
      BY <1>8, <2>6, Zenon DEF ClaimsOf
    <2>8. InnerSent(folded, p, LastAnswer(channel), Y)
      BY <1>2, <1>7, <1>8, Zenon DEF InnerSent
    <2>9. d = InnerEnd(channel, y, p.open_W.v, p.open_E.v)
      BY <1>2, <1>7
    <2> QED
      BY <1>7, <2>2, <2>4, <2>5, <2>7, <2>8, <2>9, InnerNotes
  <1>10. Records(2, channel')
    BY <1>1, <1>7, <1>8, <1>9 DEF Records, Remembers, Note
  <1> QED
    BY <1>1, <1>5, <1>6, <1>10, ProverStep

LEMMA CombinePlays ==
  ASSUME FairInv, Combine
  PROVE  /\ ProverAt(Steps - 1)'
         /\ Openable(claim)' /\ IsPoint(claim.point)' /\ Claimed(claim, proof, channel)'
  <1>1. /\ StageInv /\ FieldsInv /\ job.zk /\ job' = job /\ folded' = folded /\ ProverAt(3) /\ ChannelOK(channel)
        /\ DOMAIN proof = FoldFields \cup OuterFields \cup InnerFields
    BY DEF FairInv, ArgumentInv, BoundInv, PlayInv, Combine, StageInv, ZkStages, FieldsInv
  <1>2. IsMain(job.main)
    BY <1>1, JobsAssumption DEF StageInv
  <1> DEFINE evals == Parts(EvalRow(1, FoldedSteps.W), EvalRow(2, Core.W))
  <1>3. /\ \E fresh \in Field : channel' = ClaimChallenge(channel, fresh)
        /\ claim' = ZkClaim(PartWeights(channel'))
        /\ Grows(proof, proof', [evals |-> evals]) /\ proof'.evals = evals
    BY <1>1, CombineIs
  <1>4. claim'.point = job.main.point /\ claim'.comm_eval = fold_commitments(proof'.evals, PartWeights(channel'))
    BY <1>3, Zenon DEF ZkClaim
  <1> HIDE DEF evals
  <1>4a. PICK last : last = channel'
    OBVIOUS
  <1>4b. ClaimNoted(claim', proof', last)
    BY <1>3, <1>4a, Zenon DEF ClaimNoted, evals
  <1>5. ClaimTaken(channel, channel')
    BY <1>3 DEF ClaimTaken
  <1>6. \A f \in FoldFields \cup OuterFields \cup InnerFields : proof'[f] = proof[f]
    BY <1>1, <1>3 DEF Grows
  <1>7. SameSent(proof, proof', 3)
    BY <1>1, <1>6 DEF SameSent, FoldFields, OuterFields, InnerFields
  <1>8. Taken(3 + 1, proof', channel, channel') /\ 3 \in Nat /\ 3 + 1 = 4 /\ 3 < Steps /\ Steps - 1 = 4
    BY <1>1, <1>5, StepsFacts DEF Taken
  <1>9. ProverAt(4)'
    <2>1. /\ proof'.random_U = proof.random_U /\ proof'.U2 = proof.U2 /\ proof'.comm_T = proof.comm_T
          /\ proof'.outer = proof.outer /\ proof'.claims = proof.claims
          /\ proof'.inner = proof.inner /\ proof'.open_W = proof.open_W /\ proof'.open_E = proof.open_E
      BY <1>6 DEF FoldFields, OuterFields, InnerFields
    <2>2. Records(3, last)
      BY <1>1, <1>4b, <2>1 DEF Records, Remembers, Note
    <2> QED
      BY <1>1, <1>7, <1>8, <1>4a, <2>2, ProverStep
  <1>10. (Steps - 1)' = 4
    BY <1>1 DEF Steps
  <1>11. ClaimCommitted(PartWeights(channel'))
    <2>1. PICK d : d = channel'
      OBVIOUS
    <2>2. HasCore => LastAnswer(d) \in Field
      BY <1>1, <1>5, <2>1, ClaimRepeats DEF ClaimAgain
    <2>3. ClaimCommitted(PartWeights(d))
      BY <1>2, <2>2, ZkClaimIs
    <2> QED
      BY <2>1, <2>3
  <1>12. /\ IsOpening(claim'.W, claim'.r_W, MainSize)
         /\ claim'.comm = Commit(claim'.W, claim'.r_W)
         /\ claim'.comm = ZkComm(PartWeights(channel'))
    BY <1>3, <1>11, Zenon DEF ClaimCommitted, ZkComm
  <1>13. MainSize \in Nat /\ Len(job.main.point) \in Nat /\ job.main.point \in [1 .. Len(job.main.point) -> Field]
    BY <1>2, StepsAre
  <1>14. Openable(claim)'
    BY <1>12, <1>13 DEF Openable
  <1>15. IsPoint(claim.point)'
    BY <1>4, <1>13 DEF IsPoint
  <1>16. PICK q, p, d : q = claim' /\ p = proof' /\ d = channel'
    OBVIOUS
  <1>17. Claimed(q, p, d)
    BY <1>1, <1>4, <1>12, <1>16 DEF Claimed, ZkClaimed
  <1>18. Claimed(q, p, d)'
    BY <1>1, <1>17, HeldKept
  <1>19. Claimed(claim, proof, channel)'
    BY <1>16, <1>18
  <1> QED
    BY <1>9, <1>10, <1>14, <1>15, <1>19

(* The combined row that is absorbed is that of the commitment. *)
LEMMA OpenPlays ==
  ASSUME FairInv, Open
  PROVE  VerifierAt(0)'
  <1>1. /\ StageInv /\ FieldsInv /\ job' = job /\ folded' = folded /\ claim' = claim /\ ProverAt(Steps - 1)
        /\ Size(claim.W) = PowerOfTwo[Len(claim.point)]
        /\ Openable(claim) /\ IsPoint(claim.point) /\ Claimed(claim, proof, channel)
    BY DEF FairInv, ArgumentInv, PlayInv, HeldInv, Open
  <1>2. PICK mask \in Masks(Size(ColumnWeights(claim.point))), fresh \in Field : OpenDone(mask, fresh)
    BY <1>1, OpenIs
  <1> DEFINE row == BoundRow(claim.W, claim.r_W, claim.point)
             m == IpaMessages(mask, ColumnWeights(claim.point))
             d == OpenedAt(channel, claim.comm, Row(row.v, row.blind), claim.comm_eval[0], m, fresh)
  <1>3. /\ channel' = NewChannel(d.oracle, d.answers)
        /\ \E g : Grows(proof, proof', g)
        /\ proof'.messages = m /\ proof'.asked = Len(d.oracle)
        /\ proof'.answer = IpaAnswer(mask, row, claim.r_eval[0], LastAnswer(d))
    BY <1>2, Zenon DEF OpenDone
  <1>4. Row(row.v, row.blind) = BoundCommitment(claim.comm, claim.point)
    <2>1. PICK x \in Nat : IsOpening(claim.W, claim.r_W, x) /\ claim.comm = Commit(claim.W, claim.r_W)
      BY <1>1 DEF Openable
    <2>2. Size(claim.W) = x
      BY <2>1, VectorSize DEF IsOpening
    <2> DEFINE point == claim.point
               l == Len(point)
    <2>3. l \in Nat /\ point \in [1 .. l -> Field] /\ IsOpening(claim.W, claim.r_W, PowerOfTwo[l])
      BY <1>1, <2>1, <2>2 DEF IsPoint
    <2>4. BoundCommitment(Commit(claim.W, claim.r_W), point)
            = Row(BoundRow(claim.W, claim.r_W, point).v, BoundRow(claim.W, claim.r_W, point).blind)
      <3> HIDE DEF l, point
      <3> QED
        BY <2>3, OpenedRowIs
    <2> QED
      BY <2>1, <2>4
  <1>5. d = OpenedAt(channel, claim.comm, BoundCommitment(claim.comm, claim.point), claim.comm_eval[0],
                     proof'.messages, fresh)
    BY <1>3, <1>4
  <1> HIDE DEF row, m, d
  <1>6. OpenTaken(proof', claim.comm, claim.point, claim.comm_eval, channel, d)
    BY <1>5 DEF OpenTaken
  <1>7. \A f \in DOMAIN proof : proof'[f] = proof[f]
    BY <1>3 DEF Grows
  <1>8. Steps - 1 \in Nat /\ (Steps - 1) + 1 = Steps /\ (job.zk => Steps - 1 = 4) /\ (~job.zk => Steps - 1 = 3)
    BY StepsFacts
  <1>9. Taken((Steps - 1) + 1, proof', channel, d) /\ SameSent(proof, proof', Steps - 1)
    <2>1. CASE job.zk
      <3>1. DOMAIN proof = FoldFields \cup OuterFields \cup InnerFields \cup {"evals"}
        BY <1>1, <2>1 DEF FieldsInv, Open
      <3>2. /\ proof'.random_U = proof.random_U /\ proof'.U2 = proof.U2 /\ proof'.comm_T = proof.comm_T
            /\ proof'.claims = proof.claims /\ proof'.open_W = proof.open_W /\ proof'.open_E = proof.open_E
            /\ proof'.evals = proof.evals
        BY <1>7, <3>1 DEF FoldFields, OuterFields, InnerFields
      <3>3. SameSent(proof, proof', Steps - 1)
        BY <2>1, <3>2 DEF SameSent
      <3>4. ZkClaimed(claim, proof, channel)
        BY <1>1, <2>1 DEF Claimed
      <3>5. ZkOpenTaken(proof', channel, d)
        BY <1>6, <3>2, <3>4, Zenon DEF ZkClaimed, ZkOpenTaken
      <3> QED
        BY <1>8, <2>1, <3>3, <3>5, StepsFacts DEF Taken
    <2>2. CASE ~job.zk
      <3>1. DOMAIN proof = InstanceFields \cup OuterFields \cup PlainInnerFields
        BY <1>1, <2>2 DEF FieldsInv, Open
      <3>2. /\ proof'.public_values = proof.public_values /\ proof'.comms = proof.comms
            /\ proof'.claims = proof.claims
            /\ proof'.eval_W = proof.eval_W /\ proof'.blind_eval_W = proof.blind_eval_W
        BY <1>7, <3>1 DEF InstanceFields, OuterFields, PlainInnerFields
      <3>3. SameSent(proof, proof', Steps - 1)
        BY <2>2, <3>2 DEF SameSent
      <3>4. PlainClaimed(claim, proof, channel)
        BY <1>1, <2>2 DEF Claimed
      <3>5. PlainComm(proof') = PlainComm(proof) /\ ScalarComm(proof') = ScalarComm(proof)
        BY <3>2 DEF PlainComm, ScalarComm
      <3>6. PlainOpenTaken(proof', channel, d)
        BY <1>6, <3>4, <3>5, Zenon DEF PlainClaimed, PlainOpenTaken
      <3> QED
        BY <1>8, <2>2, <3>3, <3>6, StepsFacts DEF Taken
    <2> QED
      BY <2>1, <2>2
  <1>10. channel' = NewChannel(d.oracle, d.answers) /\ proof'.asked = Len(d.oracle)
    BY <1>3
  <1>11. Records(Steps - 1, d)
    <2> SUFFICES ASSUME job.zk PROVE Records(4, d)
      BY <1>8 DEF Records
    <2>1. DOMAIN proof = FoldFields \cup OuterFields \cup InnerFields \cup {"evals"}
      BY <1>1 DEF FieldsInv, Open
    <2>2. /\ proof'.random_U = proof.random_U /\ proof'.U2 = proof.U2 /\ proof'.comm_T = proof.comm_T
          /\ proof'.outer = proof.outer /\ proof'.claims = proof.claims
          /\ proof'.inner = proof.inner /\ proof'.open_W = proof.open_W /\ proof'.open_E = proof.open_E
          /\ proof'.evals = proof.evals
      BY <1>7, <2>1 DEF FoldFields, OuterFields, InnerFields
    <2>3. PICK h : ZkHas(h, folded, claim, proof, 4) /\ channel = h[4]
      BY <1>1, <1>8, ZkProverHas
    <2>4. 4 \in 1 .. 4 /\ 4 \in 0 .. 4
      OBVIOUS
    <2>5. ChannelOK(channel) /\ Steady(4, channel) /\ Note(4, folded, claim, proof, h[4 - 1], channel)
      BY <2>3, <2>4 DEF ZkHas
    <2>6. (HasCore => LastAnswer(channel) \in Field) /\ claim = ZkClaim(PartWeights(channel))
      BY <2>5 DEF Steady, Note, ClaimNoted
    <2>7. IsMain(job.main)
      BY <1>1, JobsAssumption DEF StageInv
    <2>8. PICK q, p : q = claim /\ p = proof'
      OBVIOUS
    <2>9. /\ mask \in Masks(Size(ColumnWeights(q.point)))
          /\ d = OpenedAt(channel, q.comm, BoundCommitment(q.comm, q.point), q.comm_eval[0], p.messages, fresh)
          /\ p.messages = IpaMessages(mask, ColumnWeights(q.point))
          /\ p.answer = IpaAnswer(mask, BoundRow(q.W, q.r_W, q.point), q.r_eval[0], LastAnswer(d))
      BY <1>3, <1>5, <2>8 DEF m, row
    <2>10. OpenNoted(q, p, channel, d)
      BY <2>5, <2>6, <2>7, <2>8, <2>9, OpenNotes
    <2> QED
      BY <1>1, <2>2, <2>8, <2>10 DEF Records, Remembers, Note
  <1> QED
    BY <1>1, <1>8, <1>9, <1>10, <1>11, ProverEnds

-----------------------------------------------------------------------------
(* The segments of the prover without zero knowledge fill whole rows up to  *)
(* the last, and so their commitments joined are one commitment.            *)

SegmentVectors(challenges) ==
  [i \in 1 .. Len(job.early) + 1 |-> IF i > Len(job.early) THEN job.rest[challenges] ELSE job.early[i].W]
SegmentBlinds ==
  [i \in 1 .. Len(job.early) + 1 |-> IF i > Len(job.early) THEN job.r_rest ELSE job.early[i].r_W]

LEMMA EarlyRows ==
  ASSUME StageInv, ~job.zk, NEW i \in 1 .. Len(job.early)
  PROVE  \E q \in Nat : IsOpening(job.early[i].W, job.early[i].r_W, q * Width)
  <1> DEFINE q == Size(job.early[i].r_W)
  <1>1. q \in Nat /\ job.early[i].W \in Vectors(q * Width) /\ job.early[i].r_W \in Vectors(q)
    BY EarlyFacts, SegmentsAssumption, Zenon DEF StageInv
  <1> HIDE DEF q
  <1>2. Width \in Nat \ {0}
    BY WidthFacts
  <1>3. q * Width \in Nat /\ q * Width <= q * Width /\ q * Width < q * Width + Width
    BY <1>1, <1>2
  <1>4. NumRows(q * Width) = q
    BY <1>1, <1>2, <1>3, CeilingIs DEF NumRows
  <1> QED
    BY <1>1, <1>4 DEF IsOpening

LEMMA SegmentsFill ==
  ASSUME StageInv, ~job.zk, NEW challenges \in [1 .. job.num_challenges -> Field], NEW comms,
         comms = Append(EarlyComms, [label |-> "comm_W_rest", comm |-> Commit(job.rest[challenges], job.r_rest)])
  PROVE  SegmentsOf([i \in DOMAIN comms |-> comms[i].comm], SegmentVectors(challenges), SegmentBlinds,
                    Len(job.early))
  <1> DEFINE n == Len(job.early)
             rest == job.rest[challenges]
             last == [label |-> "comm_W_rest", comm |-> Commit(rest, job.r_rest)]
             C == [i \in DOMAIN comms |-> comms[i].comm]
             W == SegmentVectors(challenges)
             r == SegmentBlinds
  <1>1. /\ n \in Nat /\ IsSequence(EarlyComms) /\ Len(EarlyComms) = n
        /\ \A i \in 1 .. n : EarlyComms[i].comm = Commit(job.early[i].W, job.early[i].r_W)
    <2>1. n \in Nat /\ IsSequence(EarlyComms) /\ Len(EarlyComms) = n
      BY EarlyFacts
    <2>2. ASSUME NEW i \in 1 .. n PROVE EarlyComms[i].comm = Commit(job.early[i].W, job.early[i].r_W)
      <3> DEFINE c == Commit(job.early[i].W, job.early[i].r_W)
                 label == job.early[i].label
      <3>1. EarlyComms[i] = [label |-> label, comm |-> c]
        BY EarlyFacts, Zenon
      <3> HIDE DEF c, label
      <3>2. EarlyComms[i].comm = c
        BY <3>1
      <3> QED
        BY <3>2 DEF c
    <2> QED
      BY <2>1, <2>2
  <1>2. /\ IsSequence(comms) /\ Len(comms) = n + 1
        /\ \A i \in 1 .. n : comms[i] = EarlyComms[i]
        /\ comms[n + 1] = last
    <2> HIDE DEF last
    <2>1. comms = Append(EarlyComms, last)
      BY DEF last
    <2> HIDE DEF n
    <2> QED
      BY <1>1, <2>1, Appended
  <1>3. DOMAIN comms = 1 .. n + 1
    BY <1>2, SequenceFacts
  <1>4. last.comm = Commit(rest, job.r_rest)
    OBVIOUS
  <1> HIDE DEF last
  <1>5. DOMAIN C = 1 .. n + 1 /\ \A i \in 1 .. n + 1 : C[i] = comms[i].comm
    BY <1>3
  <1>6. /\ DOMAIN W = 1 .. n + 1 /\ DOMAIN r = 1 .. n + 1
        /\ \A i \in 1 .. n : W[i] = job.early[i].W /\ r[i] = job.early[i].r_W
        /\ W[n + 1] = rest /\ r[n + 1] = job.r_rest
    BY <1>1 DEF SegmentVectors, SegmentBlinds
  <1>7. \A i \in 1 .. n : \E q \in Nat : IsOpening(job.early[i].W, job.early[i].r_W, q * Width)
    BY EarlyRows
  <1>8. \E x \in Nat : IsOpening(rest, job.r_rest, x)
    <2> DEFINE x == Size(rest)
               pair == [W |-> rest, r_W |-> job.r_rest]
    <2>1. x \in Nat /\ IsWitness(pair, x)
      BY SegmentsAssumption, Zenon DEF StageInv
    <2>2. pair.W = rest /\ pair.r_W = job.r_rest
      OBVIOUS
    <2> HIDE DEF x, pair
    <2> QED
      BY <2>1, <2>2 DEF IsWitness, IsOpening
  <1> HIDE DEF n, rest, C, W, r
  <1>9. ASSUME NEW i \in 1 .. n + 1 PROVE C[i] = Commit(W[i], r[i])
    <2>1. CASE i = n + 1
      BY <1>2, <1>4, <1>5, <1>6, <2>1
    <2>2. CASE i # n + 1
      <3>1. i \in 1 .. n
        BY <1>1, <2>2
      <3> QED
        BY <1>1, <1>2, <1>5, <1>6, <3>1 DEF n
    <2> QED
      BY <2>1, <2>2
  <1>10. \A i \in 1 .. n : \E q \in Nat : IsOpening(W[i], r[i], q * Width)
    BY <1>6, <1>7 DEF n
  <1>11. \E x \in Nat : IsOpening(W[n + 1], r[n + 1], x)
    BY <1>6, <1>8
  <1>12. SegmentsOf(C, W, r, n)
    BY <1>5, <1>6, <1>9, <1>10, <1>11 DEF SegmentsOf
  <1> QED
    BY <1>12 DEF n, C, W, r

LEMMA InstancePlays ==
  ASSUME FairInv, InstanceProve
  PROVE  ProverAt(1)' /\ Openable(claim)' /\ claim'.comm = PlainComm(proof')
  <1>1. StageInv /\ ~job.zk /\ job' = job /\ ProverAt(0) /\ ChannelOK(channel)
    BY DEF FairInv, ArgumentInv, BoundInv, PlayInv, InstanceProve, StageInv, PlainStages
  <1>2. PICK fresh \in [1 .. job.num_challenges -> Field] : InstanceDone(fresh)
    BY <1>1, InstanceProveIs
  <1> DEFINE n == Len(job.early)
             k == job.num_challenges
             begun == Begun(job.public)
             drawn == Challenged(begun, EarlyComms, fresh)
             challenges == Latest(drawn, k)
             rest == job.rest[challenges]
             comm_rest == Commit(rest, job.r_rest)
             last == [label |-> "comm_W_rest", comm |-> comm_rest]
             C == [i \in DOMAIN proof'.comms |-> proof'.comms[i].comm]
  <1>3. /\ channel' = Put(drawn, "comm_W_rest", comm_rest)
        /\ proof' = [public_values |-> job.public, challenges |-> challenges,
                     comms |-> Append(EarlyComms, last)]
        /\ claim' = [comm |-> Joined(C), W |-> Joined(SegmentVectors(challenges)),
                     r_W |-> Joined(SegmentBlinds)]
    BY <1>2, Zenon DEF InstanceDone, SegmentVectors, SegmentBlinds
  <1>4. k \in Nat
    BY <1>1, Sizes DEF StageInv
  <1>5. n \in Nat /\ IsSequence(EarlyComms) /\ Len(EarlyComms) = n
    BY <1>1, EarlyFacts
  <1>6. ChannelOK(begun)
    <2>1. PutsTwo(channel, begun, "vk", "digest", "public_values", job.public)
      BY <1>1, PutTwoFacts, Zenon DEF Begun
    <2> QED
      BY <2>1 DEF PutsTwo
  <1>7. challenges \in [1 .. k -> Field]
    <2> HIDE DEF begun, k
    <2>1. ChallengedKept(begun, EarlyComms, fresh, k)
      BY <1>4, <1>5, <1>6, ChallengedFacts DEF k
    <2>2. LatestKept(drawn, k)
      BY <2>1, Zenon DEF ChallengedKept
    <2> QED
      BY <2>2 DEF LatestKept
  <1> HIDE DEF challenges
  <1>8. proof'.public_values = job.public /\ proof'.comms = Append(EarlyComms, last)
    <2> HIDE DEF last
    <2> QED
      BY <1>3
  <1>9. claim'.comm = Joined(C) /\ claim'.W = Joined(SegmentVectors(challenges)) /\ claim'.r_W = Joined(SegmentBlinds)
    BY <1>3
  <1>10. claim'.comm = PlainComm(proof')
    BY <1>9, Zenon DEF PlainComm
  <1>11. Openable(claim)'
    <2>1. PICK comms : comms = proof'.comms
      OBVIOUS
    <2> DEFINE D == [i \in DOMAIN comms |-> comms[i].comm]
               W == SegmentVectors(challenges)
               r == SegmentBlinds
    <2>2. comms = Append(EarlyComms, last)
      BY <1>8, <2>1
    <2>3. SegmentsOf(D, W, r, n)
      BY <1>1, <1>7, <2>2, SegmentsFill
    <2> HIDE DEF D, W, r, n
    <2>4. PICK x \in Nat : JoinedCommitted(D, W, r, x)
      BY <1>5, <2>3, JoinedCommits
    <2>5. D = C
      BY <2>1 DEF D
    <2>6. IsOpening(claim'.W, claim'.r_W, x) /\ claim'.comm = Commit(claim'.W, claim'.r_W)
      <3> HIDE DEF C
      <3> QED
        BY <1>9, <2>4, <2>5 DEF JoinedCommitted, W, r
    <2> QED
      BY <2>6 DEF Openable
  <1>12. /\ SubSeq(proof'.comms, 1, n) = EarlyComms
         /\ proof'.comms[n + 1].label = "comm_W_rest" /\ proof'.comms[n + 1].comm = comm_rest
    <2> DEFINE comms == Append(EarlyComms, last)
    <2>1. /\ IsSequence(comms) /\ Len(comms) = n + 1
          /\ \A i \in 1 .. n : comms[i] = EarlyComms[i]
          /\ comms[n + 1] = last
      <3> HIDE DEF last, n
      <3> QED
        BY <1>5, Appended
    <2>2. last.label = "comm_W_rest" /\ last.comm = comm_rest
      OBVIOUS
    <2> HIDE DEF comms, last, comm_rest
    <2>3. SubSeq(comms, 1, n) = EarlyComms
      <3> HIDE DEF n
      <3> DEFINE t == SubSeq(comms, 1, n)
      <3>1. 0 \in Nat /\ 0 + 1 = 1 /\ 0 + n = n
        BY <1>5
      <3>2. CutFrom(SubSeq(comms, 0 + 1, 0 + n), comms, 0, n)
        BY <1>5, <3>1, Cut
      <3>3. IsSequence(t) /\ Len(t) = n /\ \A i \in 1 .. n : t[i] = comms[0 + i]
        BY <3>1, <3>2 DEF CutFrom
      <3> HIDE DEF t
      <3>4. \A i \in 1 .. n : t[i] = EarlyComms[i]
        BY <2>1, <3>3
      <3>5. t = EarlyComms
        BY <1>5, <3>3, <3>4, SameSequence
      <3> QED
        BY <3>5 DEF t
    <2>4. proof'.comms = comms
      BY <1>8 DEF comms
    <2> QED
      BY <2>1, <2>2, <2>3, <2>4
  <1>13. InstanceTaken(proof', channel, channel')
    <2>1. begun = Put(Put(channel, "vk", "digest"), "public_values", proof'.public_values)
      BY <1>8, Zenon DEF Begun
    <2>2. channel' = Put(Challenged(Put(Put(channel, "vk", "digest"), "public_values", proof'.public_values),
                                    SubSeq(proof'.comms, 1, n), fresh),
                         proof'.comms[n + 1].label, proof'.comms[n + 1].comm)
      <3> HIDE DEF begun, comm_rest
      <3> QED
        BY <1>3, <1>12, <2>1
    <2> HIDE DEF begun, comm_rest, last
    <2> QED
      BY <2>2 DEF InstanceTaken
  <1>14. Taken(0 + 1, proof', channel, channel') /\ 0 \in Nat /\ 0 + 1 = 1 /\ 0 < Steps
    BY <1>1, <1>13, StepsFacts DEF Taken
  <1>15. SameSent(proof, proof', 0)
    BY DEF SameSent
  <1>16. ProverAt(1)'
    BY <1>1, <1>14, <1>15, ProverStep DEF Records
  <1> QED
    BY <1>10, <1>11, <1>16

LEMMA PlainOuterPlays ==
  ASSUME FairInv, PlainOuterProve
  PROVE  ProverAt(2)' /\ Openable(claim)' /\ claim'.comm = PlainComm(proof')
  <1>1. /\ StageInv /\ FieldsInv /\ ~job.zk /\ job' = job /\ claim' = claim /\ ProverAt(1)
        /\ Openable(claim) /\ claim.comm = PlainComm(proof) /\ DOMAIN proof = InstanceFields
    BY DEF FairInv, ArgumentInv, PlayInv, HeldInv, PlainOuterProve, StageInv, PlainStages, FieldsInv
  <1>2. OuterDone(channel, Multiply(S.A, Z), Multiply(S.B, Z), Multiply(S.C, Z))
    BY <1>1, PlainOuterProveIs
  <1>3. PICK tau \in [1 .. num_rounds_x -> Field], x \in [1 .. num_rounds_x -> Field], fresh \in Field :
          OuterWith(channel, Multiply(S.A, Z), Multiply(S.B, Z), Multiply(S.C, Z), tau, x, fresh)
    BY <1>2 DEF OuterDone
  <1>4. channel' = OuterEnd(channel, proof'.claims, tau, x, fresh) /\ \E g : Grows(proof, proof', g)
    BY <1>3, Zenon DEF OuterWith
  <1>5. proof'.public_values = proof.public_values /\ proof'.comms = proof.comms
    BY <1>1, <1>4 DEF Grows, InstanceFields
  <1>6. OuterTaken(proof', channel, channel')
    BY <1>4 DEF OuterTaken
  <1>7. Taken(1 + 1, proof', channel, channel') /\ 1 \in Nat /\ 1 + 1 = 2 /\ 1 < Steps
    BY <1>1, <1>6, StepsFacts DEF Taken
  <1>8. SameSent(proof, proof', 1)
    BY <1>1, <1>5 DEF SameSent
  <1>9. ProverAt(2)'
    BY <1>1, <1>7, <1>8, ProverStep DEF Records
  <1>10. PlainComm(proof') = PlainComm(proof)
    BY <1>5 DEF PlainComm
  <1>11. Openable(claim)'
    BY <1>1 DEF Openable
  <1> QED
    BY <1>1, <1>9, <1>10, <1>11

(* The point that is opened leaves out the first challenge. *)
LEMMA TailIsPoint ==
  ASSUME NEW n \in Nat, n > 0, NEW y \in [1 .. n -> Field]
  PROVE  IsPoint(Tail(y))
  <1>1. IsSequence(y) /\ Len(y) = n
    BY FunctionIsSequence
  <1>2. y \in Seq(Field) /\ Len(y) = n
    <2>1. y \in Seq(Range(y)) /\ Range(y) \subseteq Field
      BY <1>1 DEF IsSequence, Range
    <2> QED
      BY <1>1, <2>1
  <1>3. y # <<>>
    BY <1>2
  <1>4. Tail(y) \in Seq(Field) /\ Len(Tail(y)) = n - 1
    BY <1>2, <1>3
  <1>5. Tail(y) \in [1 .. Len(Tail(y)) -> Field]
    BY <1>4, LenProperties, ElementOfSeq
  <1> QED
    BY <1>4, <1>5 DEF IsPoint

LEMMA PlainInnerPlays ==
  ASSUME FairInv, PlainInnerProve, stage' = "open"
  PROVE  /\ ProverAt(Steps - 1)'
         /\ Openable(claim)' /\ IsPoint(claim.point)' /\ Claimed(claim, proof, channel)'
  <1>1. /\ StageInv /\ FieldsInv /\ ~job.zk /\ job' = job /\ ProverAt(2) /\ ChannelOK(channel)
        /\ Openable(claim) /\ claim.comm = PlainComm(proof)
        /\ DOMAIN proof = InstanceFields \cup OuterFields /\ DOMAIN claim = {"comm", "W", "r_W"}
    BY DEF FairInv, ArgumentInv, BoundInv, PlayInv, HeldInv, PlainInnerProve, StageInv, PlainStages, FieldsInv
  <1>2. PICK r_y \in [1 .. num_rounds_y -> Field] : PlainInnerDone(r_y)
    BY <1>1, PlainInnerProveIs
  <1> DEFINE y == Latest(channel', num_rounds_y)
  <1>3. /\ channel' = InnerRounds(channel, r_y)
        /\ \E g : Grows(proof, proof', g)
        /\ \E g : Grows(claim, claim', g)
        /\ claim'.point = Tail(y)
        /\ claim'.comm_eval = Commit(Scalar(proof'.eval_W), proof'.blind_eval_W)
    <2>1. PlainInnerDone(r_y) /\ stage' # "failed"
      BY <1>2
    <2> QED
      BY <2>1, Zenon DEF PlainInnerDone
  <1> HIDE DEF y
  <1>4. /\ proof'.public_values = proof.public_values /\ proof'.comms = proof.comms
        /\ proof'.claims = proof.claims
    BY <1>1, <1>3 DEF Grows, InstanceFields, OuterFields
  <1>5. claim'.comm = claim.comm /\ claim'.W = claim.W /\ claim'.r_W = claim.r_W
    BY <1>1, <1>3 DEF Grows
  <1>6. RoundsTaken(channel, channel')
    BY <1>3 DEF RoundsTaken
  <1>7. Taken(2 + 1, proof', channel, channel') /\ 2 \in Nat /\ 2 + 1 = 3 /\ 2 < Steps
    BY <1>1, <1>6, StepsFacts DEF Taken
  <1>8. SameSent(proof, proof', 2)
    BY <1>1, <1>4 DEF SameSent
  <1>9. ProverAt(3)'
    BY <1>1, <1>7, <1>8, ProverStep DEF Records
  <1>10. (Steps - 1)' = 3
    BY <1>1 DEF Steps
  <1>11. y \in [1 .. num_rounds_y -> Field]
    <2>1. PICK d : d = channel'
      OBVIOUS
    <2>2. Latest(d, num_rounds_y) \in [1 .. num_rounds_y -> Field]
      BY <1>1, <1>6, <2>1, RoundsRepeat
    <2> QED
      BY <2>1, <2>2 DEF y
  <1>12. IsPoint(claim.point)'
    <2>1. num_rounds_y \in Nat /\ num_rounds_y > 0
      BY <1>1, Sizes DEF StageInv
    <2>2. IsPoint(Tail(y))
      BY <1>11, <2>1, TailIsPoint
    <2> QED
      BY <1>3, <2>2 DEF IsPoint
  <1>13. Openable(claim)'
    BY <1>1, <1>5 DEF Openable
  <1>14. claim'.comm = PlainComm(proof') /\ claim'.comm_eval = ScalarComm(proof')
    BY <1>1, <1>3, <1>4, <1>5 DEF PlainComm, ScalarComm
  <1>15. PICK q, p, d : q = claim' /\ p = proof' /\ d = channel'
    OBVIOUS
  <1>16. Claimed(q, p, d)
    BY <1>1, <1>3, <1>14, <1>15 DEF Claimed, PlainClaimed, y
  <1>17. Claimed(q, p, d)'
    BY <1>1, <1>16, HeldKept
  <1>18. Claimed(claim, proof, channel)'
    BY <1>15, <1>17
  <1> QED
    BY <1>9, <1>10, <1>12, <1>13, <1>18

-----------------------------------------------------------------------------
(* The steps of the verifiers *)

LEMMA FoldFollows ==
  ASSUME FairInv, FoldVerify
  PROVE  /\ VerifierAt(1)' /\ Len(channel'.oracle) = proof'.asked
         /\ stage' = "verify_outer" =>
              /\ FoldHeld(U, proof, channel)'
              /\ U' = FoldInstance(proof.random_U, proof.U2, proof.comm_T, LastAnswer(channel))'
  <1>1. /\ StageInv /\ job.zk /\ job' = job /\ proof' = proof /\ folded' = folded /\ claim' = claim
        /\ VerifierAt(0)
    BY DEF FairInv, ArgumentInv, PlayInv, FoldVerify, StageInv, ZkStages
  <1>2. FoldTaken(proof, channel, channel')
    BY <1>1, FoldVerifyIs DEF FoldTaken
  <1>3. Taken(0 + 1, proof, channel, channel') /\ 0 \in Nat /\ 0 + 1 = 1 /\ 0 < Steps
    BY <1>1, <1>2, StepsFacts DEF Taken
  <1>4. VerifierAt(1)' /\ Len(channel'.oracle) = proof'.asked
    BY <1>1, <1>3, VerifierStep
  <1>5. ASSUME stage' = "verify_outer"
        PROVE  /\ FoldHeld(U, proof, channel)'
               /\ U' = FoldInstance(proof.random_U, proof.U2, proof.comm_T, LastAnswer(channel))'
    <2>1. U' = FoldInstance(proof.random_U, proof.U2, proof.comm_T, LastAnswer(channel'))
      BY <1>5 DEF FoldVerify, Continue
    <2>2. U'.u = FoldedU(proof', channel') /\ U'.X = FoldedX(proof', channel')
      BY <1>1, <2>1 DEF FoldInstance, FoldedU, FoldedX
    <2> QED
      BY <1>1, <2>1, <2>2 DEF FoldHeld
  <1> QED
    BY <1>4, <1>5

LEMMA OuterFollows ==
  ASSUME FairInv, OuterVerify \/ PlainOuterVerify
  PROVE  VerifierAt(2)' /\ Len(channel'.oracle) = proof'.asked
  <1>1. /\ StageInv /\ job' = job /\ proof' = proof /\ folded' = folded /\ claim' = claim
        /\ VerifierAt(1)
    BY DEF FairInv, ArgumentInv, PlayInv, OuterVerify, PlainOuterVerify
  <1>2. 1 \in Nat /\ 1 + 1 = 2 /\ 1 < Steps
    BY StepsFacts
  <1>3. CASE OuterVerify
    <2>1. job.zk /\ FoldHeld(U, proof, channel)
      BY <1>3 DEF FairInv, ArgumentInv, HeldInv, OuterVerify, StageInv, ZkStages
    <2>2. \E tau, x \in [1 .. num_rounds_x -> Field], fresh \in Field :
            channel' = OuterEnd(Opened(channel, U.u, U.X), proof.claims, tau, x, fresh)
      BY <1>1, <1>3, OuterVerifyIs
    <2>3. RelaxedTaken(proof, channel, channel')
      BY <2>1, <2>2 DEF FoldHeld, RelaxedTaken, OuterTaken
    <2>4. Taken(1 + 1, proof, channel, channel')
      BY <2>1, <2>3 DEF Taken
    <2> QED
      BY <1>1, <1>2, <2>4, VerifierStep
  <1>4. CASE PlainOuterVerify
    <2>1. ~job.zk
      BY <1>1, <1>4 DEF PlainOuterVerify, StageInv, PlainStages
    <2>2. OuterTaken(proof, channel, channel')
      BY <1>1, <1>4, PlainOuterVerifyIs DEF OuterTaken
    <2>3. Taken(1 + 1, proof, channel, channel')
      BY <2>1, <2>2 DEF Taken
    <2> QED
      BY <1>1, <1>2, <2>3, VerifierStep
  <1> QED
    BY <1>3, <1>4

LEMMA InnerFollows ==
  ASSUME FairInv, InnerVerify
  PROVE  VerifierAt(3)' /\ Len(channel'.oracle) = proof'.asked
  <1>1. /\ StageInv /\ job.zk /\ job' = job /\ proof' = proof /\ folded' = folded /\ claim' = claim
        /\ VerifierAt(2)
    BY DEF FairInv, ArgumentInv, PlayInv, InnerVerify, StageInv, ZkStages
  <1>2. InnerTaken(proof, channel, channel')
    BY <1>1, InnerVerifyIs DEF InnerTaken
  <1>3. Taken(2 + 1, proof, channel, channel') /\ 2 \in Nat /\ 2 + 1 = 3 /\ 2 < Steps
    BY <1>1, <1>2, StepsFacts DEF Taken
  <1> QED
    BY <1>1, <1>3, VerifierStep

LEMMA CombineFollows ==
  ASSUME FairInv, CombineVerify
  PROVE  VerifierAt(Steps - 1)' /\ Claimed(U, proof, channel)'
  <1>1. /\ StageInv /\ job.zk /\ job' = job /\ proof' = proof /\ folded' = folded /\ claim' = claim
        /\ VerifierAt(3)
    BY DEF FairInv, ArgumentInv, PlayInv, CombineVerify, StageInv, ZkStages
  <1>2. ClaimTaken(channel, channel')
    BY <1>1, CombineVerifyIs DEF ClaimTaken
  <1>3. Taken(3 + 1, proof, channel, channel') /\ 3 \in Nat /\ 3 + 1 = 4 /\ 3 < Steps
    BY <1>1, <1>2, StepsFacts DEF Taken
  <1>4. VerifierAt(4)'
    BY <1>1, <1>3, VerifierStep
  <1>5. (Steps - 1)' = 4
    BY <1>1 DEF Steps
  <1>6. /\ U'.comm = ZkComm(PartWeights(channel'))
        /\ U'.point = job.main.point
        /\ U'.comm_eval = fold_commitments(proof'.evals, PartWeights(channel'))
    <2> DEFINE weights == PartWeights(channel')
               comm == fold_commitments(Parts(fold_commitments(StepComms, Weights), CoreComm), weights)
               evals == fold_commitments(proof.evals, weights)
    <2>1. U' = [comm |-> comm, point |-> job.main.point, comm_eval |-> evals]
      BY Zenon DEF CombineVerify
    <2>2. comm = ZkComm(weights)
      BY Zenon DEF ZkComm
    <2> HIDE DEF comm, evals, weights
    <2>3. U'.comm = comm /\ U'.point = job.main.point /\ U'.comm_eval = evals
      BY <2>1
    <2> QED
      BY <1>1, <2>2, <2>3, Zenon DEF evals, weights
  <1>7. PICK q, p, d : q = U' /\ p = proof' /\ d = channel'
    OBVIOUS
  <1>8. Claimed(q, p, d)
    BY <1>1, <1>6, <1>7 DEF Claimed, ZkClaimed
  <1>9. Claimed(q, p, d)'
    BY <1>1, <1>8, HeldKept
  <1>10. Claimed(U, proof, channel)'
    BY <1>7, <1>9
  <1> QED
    BY <1>4, <1>5, <1>10

LEMMA InstanceFollows ==
  ASSUME FairInv, InstanceVerify
  PROVE  VerifierAt(1)' /\ Len(channel'.oracle) = proof'.asked
  <1>1. /\ StageInv /\ ~job.zk /\ job' = job /\ proof' = proof /\ folded' = folded /\ claim' = claim
        /\ VerifierAt(0)
    BY DEF FairInv, ArgumentInv, PlayInv, InstanceVerify, StageInv, PlainStages
  <1>2. PICK fresh \in [1 .. job.num_challenges -> Field] : InstanceChecked(fresh)
    BY <1>1, InstanceVerifyIs
  <1>3. InstanceTaken(proof, channel, channel')
    BY <1>2, Zenon DEF InstanceChecked, InstanceTaken, Begun
  <1>4. Taken(0 + 1, proof, channel, channel') /\ 0 \in Nat /\ 0 + 1 = 1 /\ 0 < Steps
    BY <1>1, <1>3, StepsFacts DEF Taken
  <1> QED
    BY <1>1, <1>4, VerifierStep

LEMMA PlainInnerFollows ==
  ASSUME FairInv, PlainInnerVerify
  PROVE  /\ VerifierAt(Steps - 1)' /\ Len(channel'.oracle) = proof'.asked
         /\ Claimed(U, proof, channel)'
  <1>1. /\ StageInv /\ ~job.zk /\ job' = job /\ proof' = proof /\ folded' = folded /\ claim' = claim
        /\ VerifierAt(2)
    BY DEF FairInv, ArgumentInv, PlayInv, PlainInnerVerify, StageInv, PlainStages
  <1>2. RoundsTaken(channel, channel')
    BY <1>1, PlainInnerVerifyIs DEF RoundsTaken
  <1>3. Taken(2 + 1, proof, channel, channel') /\ 2 \in Nat /\ 2 + 1 = 3 /\ 2 < Steps
    BY <1>1, <1>2, StepsFacts DEF Taken
  <1>4. VerifierAt(3)' /\ Len(channel'.oracle) = proof'.asked
    BY <1>1, <1>3, VerifierStep
  <1>5. (Steps - 1)' = 3
    BY <1>1 DEF Steps
  <1>6. U'.comm = PlainComm(proof') /\ U'.point = Tail(Latest(channel', num_rounds_y))
        /\ U'.comm_eval = ScalarComm(proof')
    <2> DEFINE comm == Joined([i \in DOMAIN proof.comms |-> proof.comms[i].comm])
               point == Tail(Latest(channel', num_rounds_y))
               evals == Commit(Scalar(proof.eval_W), proof.blind_eval_W)
    <2>1. U' = [comm |-> comm, point |-> point, comm_eval |-> evals]
      BY Zenon DEF PlainInnerVerify
    <2>2. comm = PlainComm(proof) /\ evals = ScalarComm(proof)
      BY Zenon DEF PlainComm, ScalarComm
    <2> HIDE DEF comm, evals, point
    <2>3. U'.comm = comm /\ U'.point = point /\ U'.comm_eval = evals
      BY <2>1
    <2> QED
      BY <1>1, <2>2, <2>3, Zenon DEF point
  <1>7. PICK q, p, d : q = U' /\ p = proof' /\ d = channel'
    OBVIOUS
  <1>8. Claimed(q, p, d)
    BY <1>1, <1>6, <1>7 DEF Claimed, PlainClaimed
  <1>9. Claimed(q, p, d)'
    BY <1>1, <1>8, HeldKept
  <1>10. Claimed(U, proof, channel)'
    BY <1>7, <1>9
  <1> QED
    BY <1>4, <1>5, <1>10

LEMMA OpenFollows ==
  ASSUME FairInv, OpenVerify
  PROVE  Len(channel'.oracle) = proof'.asked
  <1>1. /\ StageInv /\ job' = job /\ proof' = proof /\ folded' = folded /\ claim' = claim
        /\ VerifierAt(Steps - 1)
        /\ Claimed(U, proof, channel)
    BY DEF FairInv, ArgumentInv, PlayInv, HeldInv, OpenVerify
  <1>2. OpenTaken(proof, U.comm, U.point, U.comm_eval, channel, channel')
    BY <1>1, OpenVerifyIs DEF OpenTaken
  <1>3. Steps - 1 \in Nat /\ (Steps - 1) + 1 = Steps /\ Steps - 1 < Steps
    BY StepsFacts
  <1>4. Taken(Steps, proof, channel, channel')
    <2>1. CASE job.zk
      <3>1. ZkClaimed(U, proof, channel)
        BY <1>1, <2>1 DEF Claimed
      <3>2. ZkOpenTaken(proof, channel, channel')
        BY <1>2, <3>1, Zenon DEF ZkClaimed, ZkOpenTaken
      <3> QED
        BY <2>1, <3>2, StepsFacts DEF Taken
    <2>2. CASE ~job.zk
      <3>1. PlainClaimed(U, proof, channel)
        BY <1>1, <2>2 DEF Claimed
      <3>2. PlainOpenTaken(proof, channel, channel')
        BY <1>2, <3>1, Zenon DEF PlainClaimed, PlainOpenTaken
      <3> QED
        BY <2>2, <3>2, StepsFacts DEF Taken
    <2> QED
      BY <2>1, <2>2
  <1> QED
    BY <1>1, <1>3, <1>4, VerifierStep

-----------------------------------------------------------------------------
(* Every step keeps both invariants                                         *)

LEMMA FairInit ==
  ASSUME Init
  PROVE  FairInv
  <1>1. ArgumentInv
    BY ArgumentInvInit
  <1>2. stage \in {"fold", "instance"} /\ channel = NewChannel(<<>>, <<>>)
    BY DEF Init
  <1>3. ProverAt(0)
    <2> DEFINE h == [i \in {0} |-> NewChannel(<<>>, <<>>)]
    <2>1. h[0] = NewChannel(<<>>, <<>>) /\ 1 .. 0 = {}
      OBVIOUS
    <2> HIDE DEF h
    <2>2. Played(h, proof, 0) /\ Noted(h, folded, claim, proof, 0)
      BY <2>1 DEF Played, Noted
    <2> QED
      BY <1>2, <2>1, <2>2 DEF ProverAt
  <1>4. PlayInv
    BY <1>2, <1>3 DEF PlayInv
  <1>5. HeldInv
    BY <1>2 DEF HeldInv
  <1> QED
    BY <1>1, <1>4, <1>5 DEF FairInv

LEMMA ProverFair ==
  ASSUME FairInv,
         \/ FoldProve \/ OuterProve \/ InnerProve \/ Combine \/ Open
         \/ InstanceProve \/ PlainOuterProve \/ PlainInnerProve
  PROVE  PlayInv' /\ HeldInv'
  <1>1. CASE FoldProve
    <2>1. stage' = "outer"
      BY <1>1 DEF FoldProve
    <2>2. ProverAt(1)' /\ FoldHeld(folded, proof, channel)'
      BY <1>1, FoldPlays
    <2> QED
      BY <2>1, <2>2 DEF PlayInv, HeldInv
  <1>2. CASE OuterProve
    <2>1. stage' = "inner"
      BY <1>2 DEF OuterProve
    <2>2. ProverAt(2)'
      BY <1>2, OuterPlays
    <2> QED
      BY <2>1, <2>2 DEF PlayInv, HeldInv
  <1>3. CASE InnerProve
    <2>1. stage' = "combine"
      BY <1>3 DEF InnerProve
    <2>2. ProverAt(3)'
      BY <1>3, InnerPlays
    <2> QED
      BY <2>1, <2>2 DEF PlayInv, HeldInv
  <1>4. CASE Combine
    <2>1. stage' = "open"
      BY <1>4 DEF Combine
    <2>2. /\ ProverAt(Steps - 1)'
          /\ Openable(claim)' /\ IsPoint(claim.point)' /\ Claimed(claim, proof, channel)'
      BY <1>4, CombinePlays
    <2> QED
      BY <2>1, <2>2 DEF PlayInv, HeldInv
  <1>5. CASE Open
    <2>1. stage' \in {"verify_fold", "verify_instance"}
      BY <1>5 DEF Open
    <2>2. VerifierAt(0)'
      BY <1>5, OpenPlays
    <2> QED
      BY <2>1, <2>2 DEF PlayInv, HeldInv
  <1>6. CASE InstanceProve
    <2>1. stage' = "plain_outer"
      BY <1>6 DEF InstanceProve
    <2>2. ProverAt(1)' /\ Openable(claim)' /\ claim'.comm = PlainComm(proof')
      BY <1>6, InstancePlays
    <2> QED
      BY <2>1, <2>2 DEF PlayInv, HeldInv
  <1>7. CASE PlainOuterProve
    <2>1. stage' = "plain_inner"
      BY <1>7 DEF PlainOuterProve
    <2>2. ProverAt(2)' /\ Openable(claim)' /\ claim'.comm = PlainComm(proof')
      BY <1>7, PlainOuterPlays
    <2> QED
      BY <2>1, <2>2 DEF PlayInv, HeldInv
  <1>8. CASE PlainInnerProve
    <2>1. CASE stage' = "open"
      <3>1. /\ ProverAt(Steps - 1)'
            /\ Openable(claim)' /\ IsPoint(claim.point)' /\ Claimed(claim, proof, channel)'
        BY <1>8, <2>1, PlainInnerPlays
      <3> QED
        BY <2>1, <3>1 DEF PlayInv, HeldInv
    <2>2. CASE stage' # "open"
      <3>1. stage' = "failed"
        BY <1>8, <2>2 DEF PlainInnerProve
      <3> QED
        BY <3>1 DEF PlayInv, HeldInv
    <2> QED
      BY <2>1, <2>2
  <1> QED
    BY <1>1, <1>2, <1>3, <1>4, <1>5, <1>6, <1>7, <1>8

LEMMA VerifierFair ==
  ASSUME FairInv,
         \/ FoldVerify \/ OuterVerify \/ InnerVerify \/ CombineVerify \/ OpenVerify
         \/ InstanceVerify \/ PlainOuterVerify \/ PlainInnerVerify
  PROVE  PlayInv' /\ HeldInv'
  <1>1. CASE FoldVerify
    <2>1. stage' \in {"verify_outer", "rejected"}
      BY <1>1 DEF FoldVerify, Continue
    <2>2. /\ VerifierAt(1)' /\ Len(channel'.oracle) = proof'.asked
          /\ stage' = "verify_outer" =>
               /\ FoldHeld(U, proof, channel)'
               /\ U' = FoldInstance(proof.random_U, proof.U2, proof.comm_T, LastAnswer(channel))'
      BY <1>1, FoldFollows
    <2> QED
      BY <2>1, <2>2 DEF PlayInv, HeldInv
  <1>2. CASE OuterVerify \/ PlainOuterVerify
    <2>1. stage' \in {"verify_inner", "verify_plain_inner", "rejected"}
      BY <1>2 DEF OuterVerify, PlainOuterVerify, Continue
    <2>2. VerifierAt(2)' /\ Len(channel'.oracle) = proof'.asked
      BY <1>2, OuterFollows
    <2> QED
      BY <2>1, <2>2 DEF PlayInv, HeldInv
  <1>3. CASE InnerVerify
    <2>1. stage' \in {"verify_combine", "rejected"}
      BY <1>3 DEF InnerVerify, Continue
    <2>2. VerifierAt(3)' /\ Len(channel'.oracle) = proof'.asked
      BY <1>3, InnerFollows
    <2> QED
      BY <2>1, <2>2 DEF PlayInv, HeldInv
  <1>4. CASE CombineVerify
    <2>1. stage' = "verify_open"
      BY <1>4 DEF CombineVerify
    <2>2. VerifierAt(Steps - 1)' /\ Claimed(U, proof, channel)'
      BY <1>4, CombineFollows
    <2> QED
      BY <2>1, <2>2 DEF PlayInv, HeldInv
  <1>5. CASE OpenVerify
    <2>1. stage' \in {"accepted", "rejected"}
      BY <1>5 DEF OpenVerify, Continue
    <2>2. Len(channel'.oracle) = proof'.asked
      BY <1>5, OpenFollows
    <2> QED
      BY <2>1, <2>2 DEF PlayInv, HeldInv
  <1>6. CASE InstanceVerify
    <2>1. stage' \in {"verify_plain_outer", "rejected"}
      BY <1>6 DEF InstanceVerify, Continue
    <2>2. VerifierAt(1)' /\ Len(channel'.oracle) = proof'.asked
      BY <1>6, InstanceFollows
    <2> QED
      BY <2>1, <2>2 DEF PlayInv, HeldInv
  <1>7. CASE PlainInnerVerify
    <2>1. stage' \in {"verify_open", "rejected"}
      BY <1>7 DEF PlainInnerVerify, Continue
    <2>2. /\ VerifierAt(Steps - 1)' /\ Len(channel'.oracle) = proof'.asked
          /\ Claimed(U, proof, channel)'
      BY <1>7, PlainInnerFollows
    <2> QED
      BY <2>1, <2>2 DEF PlayInv, HeldInv
  <1> QED
    BY <1>1, <1>2, <1>3, <1>4, <1>5, <1>6, <1>7

LEMMA FairStep ==
  ASSUME FairInv, [Next \/ PlainNext]_vars
  PROVE  FairInv'
  <1>1. ArgumentInv'
    BY ArgumentInvStep DEF FairInv
  <1>2. CASE UNCHANGED vars
    <2>1. UNCHANGED <<job, stage, channel, folded, claim, proof, U>>
      BY <1>2 DEF vars
    <2>2. \A h, sent, k : Played(h, sent, k) => Played(h, sent, k)'
      BY <2>1, PlayedKept
    <2>3. Steps' = Steps
      BY <2>1 DEF Steps
    <2>4. ASSUME NEW k PROVE (ProverAt(k) => ProverAt(k)') /\ (VerifierAt(k) => VerifierAt(k)')
      <3>1. PICK p, c, s, w, q : p = proof /\ c = channel /\ s = Steps /\ w = folded /\ q = claim
        OBVIOUS
      <3>2. p = proof' /\ c = channel' /\ s = Steps' /\ w = folded' /\ q = claim'
        BY <2>1, <2>3, <3>1
      <3>3. ASSUME ProverAt(k) PROVE ProverAt(k)'
        <4>1. PICK h : Played(h, p, k) /\ c = h[k] /\ Noted(h, w, q, p, k)
          BY <3>1, <3>3 DEF ProverAt
        <4>2. Played(h, p, k)' /\ Noted(h, w, q, p, k)'
          BY <2>1, <2>2, <4>1, NotesKept
        <4> QED
          BY <3>2, <4>1, <4>2 DEF ProverAt
      <3>4. ASSUME VerifierAt(k) PROVE VerifierAt(k)'
        <4>1. PICK h : Played(h, p, s) /\ c = On(h[k], h[s]) /\ p.asked = Len(h[s].oracle)
                       /\ Noted(h, w, q, p, s)
          BY <3>1, <3>4 DEF VerifierAt, VerifierAtOf
        <4>2. Played(h, p, s)' /\ Noted(h, w, q, p, s)'
          BY <2>1, <2>2, <4>1, NotesKept
        <4>3. VerifierAtOf(k, h)'
          BY <3>2, <4>1, <4>2 DEF VerifierAtOf
        <4> QED
          BY <4>3 DEF VerifierAt
      <3> QED
        BY <3>3, <3>4
    <2>5. PlayInv'
      <3>1. \A k : (ProverAt(k) => ProverAt(k)') /\ (VerifierAt(k) => VerifierAt(k)')
        BY <2>4
      <3>2. ProverAt(Steps - 1) => ProverAt(Steps - 1)'
        BY <2>3, <3>1
      <3>3. VerifierAt(Steps - 1) => VerifierAt(Steps - 1)'
        BY <2>3, <3>1
      <3> QED
        BY <2>1, <3>1, <3>2, <3>3 DEF FairInv, PlayInv
    <2>6. HeldInv'
      <3>1. PICK p, c, q, u : p = proof /\ c = channel /\ q = claim /\ u = U
        OBVIOUS
      <3>2. p = proof' /\ c = channel' /\ q = claim' /\ u = U'
        BY <2>1, <3>1
      <3>3. Claimed(claim, proof, channel) => Claimed(claim, proof, channel)'
        <4>1. Claimed(q, p, c) => Claimed(q, p, c)'
          BY <2>1, HeldKept
        <4> QED
          BY <3>1, <3>2, <4>1
      <3>4. Claimed(U, proof, channel) => Claimed(U, proof, channel)'
        <4>1. Claimed(u, p, c) => Claimed(u, p, c)'
          BY <2>1, HeldKept
        <4> QED
          BY <3>1, <3>2, <4>1
      <3>5. Openable(claim)' = Openable(claim) /\ IsPoint(claim.point)' = IsPoint(claim.point)
        BY <2>1 DEF Openable, IsPoint
      <3> QED
        BY <2>1, <3>3, <3>4, <3>5 DEF FairInv, HeldInv, FoldHeld
    <2> QED
      BY <1>1, <2>5, <2>6 DEF FairInv
  <1>3. CASE \/ FoldProve \/ OuterProve \/ InnerProve \/ Combine \/ Open
             \/ InstanceProve \/ PlainOuterProve \/ PlainInnerProve
    BY <1>1, <1>3, ProverFair DEF FairInv
  <1>4. CASE \/ FoldVerify \/ OuterVerify \/ InnerVerify \/ CombineVerify \/ OpenVerify
             \/ InstanceVerify \/ PlainOuterVerify \/ PlainInnerVerify
    BY <1>1, <1>4, VerifierFair DEF FairInv
  <1> QED
    BY <1>2, <1>3, <1>4 DEF Next, PlainNext

(* The verifier never asks the oracle what the prover did not: what it      *)
(* absorbs, folded and bound from commitments alone, is at every challenge  *)
(* what the prover absorbed, computed from witnesses, blinds and partly     *)
(* rebuilt commitments.  For all shapes, widths, weights and points, with   *)
(* and without zero knowledge, and whatever the oracle answers              *)
(* (hyrax_pc.rs:846-900, vega_mc_zkp.rs:1206-1254, 2043-2080).              *)
THEOREM VerifierAsksTheSame == ArgumentSpec => []SameChallenges
  <1>1. Init => FairInv
    BY FairInit
  <1>2. FairInv /\ [Next \/ PlainNext]_vars => FairInv'
    BY FairStep
  <1>3. FairInv => SameChallenges
    <2> SUFFICES ASSUME FairInv PROVE SameChallenges
      OBVIOUS
    <2>1. ASSUME NEW k, VerifierAt(k) PROVE Len(channel.oracle) = proof.asked
      <3>1. PICK h : channel = On(h[k], h[Steps]) /\ proof.asked = Len(h[Steps].oracle)
        BY <2>1 DEF VerifierAt, VerifierAtOf
      <3>2. channel.oracle = h[Steps].oracle
        BY <3>1 DEF On
      <3> QED
        BY <3>1, <3>2
    <2> QED
      BY <2>1 DEF FairInv, PlayInv, SameChallenges
  <1> QED
    BY <1>1, <1>2, <1>3, PTL DEF ArgumentSpec

LEMMA ZkSatisfied ==
  ASSUME FairInv, job.zk
  PROVE  FoldIsSatisfied
  <1>1. StageInv /\ PlayInv /\ HeldInv
    BY DEF FairInv, ArgumentInv
  <1>2. Steps = 5
    BY StepsFacts
  <1>3. ASSUME stage = "outer" PROVE Excess(S, Join(folded.W, folded.u, folded.X), folded.u) = folded.E
    <2>1. PICK h : ZkHas(h, folded, claim, proof, 1)
      BY <1>1, <1>3, ZkProverHas DEF PlayInv
    <2>2. IsRelaxed(folded, S)
      BY <1>1, <2>1, ZkHasFold
    <2> QED
      BY <2>2 DEF IsRelaxed
  <1>4. ASSUME stage = "verify_outer" PROVE U = Instance(folded)
    <2>1. VerifierAt(1) /\ U = FoldInstance(proof.random_U, proof.U2, proof.comm_T, LastAnswer(channel))
      BY <1>1, <1>4 DEF PlayInv, HeldInv
    <2>2. PICK h : ZkHas(h, folded, claim, proof, 5) /\ channel = On(h[1], h[5])
      BY <1>1, <2>1, ZkVerifierHas
    <2>3. /\ FoldInstance(proof.random_U, proof.U2, proof.comm_T, LastAnswer(h[1])) = Instance(folded)
          /\ \A e : Extends(h[1], e) => LastAnswer(On(h[1], e)) = LastAnswer(h[1])
      BY <1>1, <2>2, ZkHasFold
    <2>4. Extends(h[1], h[5])
      BY <2>2 DEF ZkHas
    <2> QED
      BY <2>1, <2>2, <2>3, <2>4
  <1>5. ASSUME stage = "verify_open"
        PROVE  /\ U.comm = Commit(claim.W, claim.r_W)
               /\ U.comm_eval = Commit(Scalar(Extension(claim.W, claim.point)), claim.r_eval)
    <2>1. VerifierAt(4) /\ Claimed(U, proof, channel)
      BY <1>1, <1>2, <1>5 DEF PlayInv, HeldInv
    <2>2. PICK h : ZkHas(h, folded, claim, proof, 5) /\ channel = On(h[4], h[5])
      BY <1>1, <2>1, ZkVerifierHas
    <2> DEFINE d == h[4]
               w == PartWeights(d)
    <2>3. /\ HasCore => LastAnswer(d) \in Field
          /\ claim = ZkClaim(w) /\ proof.evals = Parts(EvalRow(1, FoldedSteps.W), EvalRow(2, Core.W))
          /\ PartWeights(channel) = w
      <3>1. 4 \in 1 .. 5 /\ 4 \in 0 .. 5
        OBVIOUS
      <3>2. Steady(4, d) /\ Extends(d, h[5]) /\ ClaimNoted(claim, proof, d)
        BY <2>2, <3>1 DEF ZkHas, Note
      <3> QED
        BY <2>2, <3>2 DEF Steady, ClaimNoted
    <2>4. U.comm = ZkComm(w) /\ U.comm_eval = fold_commitments(proof.evals, w)
      BY <2>1, <2>3 DEF Claimed, ZkClaimed
    <2>5. IsMain(job.main)
      BY <1>1, JobsAssumption DEF StageInv
    <2> HIDE DEF d
    <2>6. ClaimCommitted(w)
      BY <2>3, <2>5, ZkClaimIs
    <2>7. fold_commitments(Parts(EvalRow(1, FoldedSteps.W), EvalRow(2, Core.W)), w)
            = Commit(Scalar(Extension(ZkClaim(w).W, job.main.point)), ZkClaim(w).r_eval)
      BY <2>3, <2>5, ClaimEvaluates
    <2>8. ZkClaim(w).point = job.main.point
      BY DEF ZkClaim
    <2> HIDE DEF w
    <2>9. U.comm = Commit(claim.W, claim.r_W)
      BY <2>3, <2>4, <2>6, Zenon DEF ClaimCommitted, ZkComm
    <2>10. U.comm_eval = Commit(Scalar(Extension(claim.W, claim.point)), claim.r_eval)
      BY <2>3, <2>4, <2>7, <2>8, Zenon
    <2> QED
      BY <2>9, <2>10
  <1> QED
    BY <1>3, <1>4, <1>5 DEF FoldIsSatisfied

(* With zero knowledge, for every shape, job and answer of the oracle: the  *)
(* folded witness satisfies the relaxed relation, the verifier's folded     *)
(* instance is the instance of that witness, and the claim that is opened,  *)
(* folded from commitments alone, is committed to by the prover's folded    *)
(* witness and blinds, and so is its evaluation (nifs.rs:54-67, 70-91,      *)
(* folds.rs:68-80, 123-145, 184-206, vega_mc_zkp.rs:2043-2066).             *)
THEOREM FoldedIsSatisfied == ArgumentSpec => [](job.zk => FoldIsSatisfied)
  <1>1. Init => FairInv
    BY FairInit
  <1>2. FairInv /\ [Next \/ PlainNext]_vars => FairInv'
    BY FairStep
  <1>3. FairInv => (job.zk => FoldIsSatisfied)
    BY ZkSatisfied
  <1> QED
    BY <1>1, <1>2, <1>3, PTL DEF ArgumentSpec

-----------------------------------------------------------------------------
(* With zero knowledge the verifier rejects nothing.                        *)

AcceptInv ==
  /\ FairInv
  /\ stage = "verify_inner" => U = Instance(folded)
  /\ job.zk => stage # "rejected"

(* The two instances and the cross term can be folded. *)
LEMMA FoldAccepts ==
  ASSUME FairInv, FoldVerify
  PROVE  stage' = "verify_outer"
  <1>1. StageInv /\ job.zk /\ VerifierAt(0)
    BY DEF FairInv, ArgumentInv, PlayInv, FoldVerify, StageInv, ZkStages
  <1>2. PICK h : ZkHas(h, folded, claim, proof, 5)
    BY <1>1, ZkVerifierHas
  <1>3. FoldNoted(folded, proof, h[1]) /\ IsShape(S)
    BY <1>1, <1>2, ZkHasFold
  <1> DEFINE W1 == RandomWitness
             W2 == job.regular
             T == CrossTerm(W1, W2)
  <1>4. PICK r_T : /\ proof.random_U = Instance(W1) /\ proof.U2 = RegularInstance
                   /\ proof.comm_T = Commit(T, r_T)
    BY <1>3, Zenon DEF FoldNoted
  <1>5. IsFold(S, job.random, job.regular)
    BY <1>1, JobsAssumption DEF StageInv, S
  <1>6. /\ IsRelaxed(W1, S) /\ IsRegular(W2, S)
        /\ CommittedWitness(W1, S.num_vars) /\ CommittedWitness(W2, S.num_vars)
        /\ CommittedError(W1.E, W1.r_E, S.num_cons)
    BY <1>3, <1>5, RandomIs
  <1>7. PICK n, m, k : n = S.num_vars /\ m = S.num_cons /\ k = S.num_io
    OBVIOUS
  <1>8. n \in Nat /\ m \in Nat /\ k \in Nat
    BY <1>3, <1>7, ShapeTypes
  <1> HIDE DEF W1, W2
  <1>9. T \in Vectors(m)
    <2>1. PICK shape : shape = S
      OBVIOUS
    <2>2. CrossTerm(W1, W2) \in Vectors(shape.num_cons)
      BY <1>3, <1>6, <2>1, CrossTermIs
    <2> QED
      BY <1>7, <2>1, <2>2
  <1> HIDE DEF T
  <1>10. PICK a, b, e, x, y : a = W1.W /\ b = W2.W /\ e = W1.E /\ x = W1.X /\ y = W2.X
    OBVIOUS
  <1>11. /\ a \in Vectors(n) /\ b \in Vectors(n) /\ e \in Vectors(m)
         /\ x \in Vectors(k) /\ y \in Vectors(k)
    BY <1>6, <1>7, <1>10 DEF CommittedWitness, CommittedError, IsRelaxed, IsRegular
  <1>12. Size(x) = k /\ Size(y) = k
    BY <1>8, <1>11, VectorSize
  <1>13. \A r : Size(Commit(a, r)) = NumRows(n) /\ Size(Commit(b, r)) = NumRows(n)
                /\ Size(Commit(e, r)) = NumRows(m) /\ Size(Commit(T, r)) = NumRows(m)
    BY <1>8, <1>9, <1>11, VectorSize, CommitSize
  <1>14. /\ proof.random_U.X = x /\ proof.U2.X = y
         /\ proof.random_U.comm_W = Commit(a, W1.r_W) /\ proof.U2.comm_W = Commit(b, W2.r_W)
         /\ proof.random_U.comm_E = Commit(e, W1.r_E)
    BY <1>4, <1>10 DEF Instance, RegularInstance, W2
  <1>15. /\ Size(proof.random_U.X) = Size(proof.U2.X)
         /\ Size(proof.random_U.comm_W) = Size(proof.U2.comm_W)
         /\ Size(proof.random_U.comm_E) = Size(proof.comm_T)
    BY <1>4, <1>12, <1>13, <1>14
  <1>16. \A c, d : Size(c) = Size(d) => SameRows(<<c, d>>)
    BY DEF SameRows
  <1> QED
    BY <1>15, <1>16 DEF FoldVerify, Continue

LEMMA OuterAccepts ==
  ASSUME FairInv, OuterVerify
  PROVE  stage' = "verify_inner" /\ U' = Instance(folded')
  <1>1. StageInv /\ job.zk /\ VerifierAt(1) /\ folded' = folded /\ U' = U
    BY DEF FairInv, ArgumentInv, PlayInv, OuterVerify, StageInv, ZkStages
  <1>2. U = Instance(folded)
    BY <1>1, ZkSatisfied DEF FoldIsSatisfied, OuterVerify
  <1>3. PICK h : ZkHas(h, folded, claim, proof, 5) /\ channel = On(h[1], h[5])
    BY <1>1, ZkVerifierHas
  <1>4. OuterPasses(folded, proof, h[1], h[5])
    <2>1. 2 \in 1 .. 5 /\ 2 \in 0 .. 5 /\ 2 - 1 = 1
      OBVIOUS
    <2>2. OuterNoted(folded, proof, h[1], h[2]) /\ Extends(h[2], h[5])
      BY <1>3, <2>1 DEF ZkHas, Note
    <2> QED
      BY <2>2 DEF OuterNoted
  <1>5. U.u = folded.u /\ U.X = folded.X
    BY <1>2 DEF Instance
  <1> DEFINE b == Opened(channel, U.u, U.X)
  <1>6. PICK tau, x \in Points(num_rounds_x), fresh \in Challenges :
          Continue(OuterCheck(b, tau, x, fresh).holds, "verify_inner")
    BY Zenon DEF OuterVerify
  <1>7. tau \in [1 .. num_rounds_x -> Field] /\ x \in [1 .. num_rounds_x -> Field]
    BY <1>1, Sizes DEF StageInv
  <1>8. OuterHolds(proof, Latest(OuterStart(b, tau), num_rounds_x), Latest(OuterRounds(b, tau, x), num_rounds_x))
    BY <1>3, <1>4, <1>5, <1>7, Zenon DEF OuterPasses
  <1> HIDE DEF b
  <1>9. OuterCheck(b, tau, x, fresh).holds
    BY <1>8 DEF OuterCheck, OuterHolds, OuterStart, OuterRounds
  <1> QED
    BY <1>1, <1>2, <1>6, <1>9 DEF Continue

LEMMA InnerAccepts ==
  ASSUME FairInv, U = Instance(folded), InnerVerify
  PROVE  stage' = "verify_combine"
  <1>1. StageInv /\ job.zk /\ VerifierAt(2)
    BY DEF FairInv, ArgumentInv, PlayInv, InnerVerify, StageInv, ZkStages
  <1>2. PICK h : ZkHas(h, folded, claim, proof, 5) /\ channel = On(h[2], h[5])
    BY <1>1, ZkVerifierHas
  <1>3. InnerPasses(folded, proof, h[2], h[5])
    <2>1. 3 \in 1 .. 5 /\ 3 \in 0 .. 5 /\ 3 - 1 = 2
      OBVIOUS
    <2>2. InnerNoted(folded, proof, h[2], h[3]) /\ Extends(h[3], h[5])
      BY <1>2, <2>1 DEF ZkHas, Note
    <2> QED
      BY <2>2 DEF InnerNoted
  <1>4. PICK y \in Points(num_rounds_y) :
          Continue(InnerHolds(U, proof, LastAnswer(channel), Latest(InnerRounds(channel, y), num_rounds_y)),
                   "verify_combine")
    BY Zenon DEF InnerVerify, InnerHolds, InnerRounds
  <1>5. y \in [1 .. num_rounds_y -> Field]
    BY <1>1, Sizes DEF StageInv
  <1>6. InnerHolds(U, proof, LastAnswer(channel), Latest(InnerRounds(channel, y), num_rounds_y))
    BY <1>2, <1>3, <1>5, Zenon DEF InnerPasses
  <1> QED
    BY <1>4, <1>6 DEF Continue

LEMMA OpenAccepts ==
  ASSUME FairInv, job.zk, OpenVerify
  PROVE  stage' = "accepted"
  <1>1. StageInv /\ VerifierAt(4) /\ Claimed(U, proof, channel) /\ stage = "verify_open"
    BY StepsFacts DEF FairInv, ArgumentInv, PlayInv, HeldInv, OpenVerify
  <1>2. PICK h : ZkHas(h, folded, claim, proof, 5) /\ channel = On(h[4], h[5])
    BY <1>1, ZkVerifierHas
  <1>3. /\ claim.point = job.main.point
        /\ claim.comm_eval = fold_commitments(proof.evals, PartWeights(channel))
        /\ claim.comm = ZkComm(PartWeights(channel))
    <2> DEFINE d == h[4]
               w == PartWeights(d)
    <2>1. 4 \in 1 .. 5 /\ 4 \in 0 .. 5
      OBVIOUS
    <2>2. Steady(4, d) /\ Extends(d, h[5]) /\ ClaimNoted(claim, proof, d)
      BY <1>2, <2>1 DEF ZkHas, Note
    <2>3. /\ HasCore => LastAnswer(d) \in Field
          /\ claim = ZkClaim(w) /\ proof.evals = Parts(EvalRow(1, FoldedSteps.W), EvalRow(2, Core.W))
          /\ PartWeights(channel) = w
      BY <1>2, <2>2 DEF Steady, ClaimNoted
    <2>4. IsMain(job.main)
      BY <1>1, JobsAssumption DEF StageInv
    <2> HIDE DEF d
    <2>5. ClaimCommitted(w)
      BY <2>3, <2>4, ZkClaimIs
    <2> HIDE DEF w
    <2>6. ZkClaim(w).point = job.main.point
          /\ ZkClaim(w).comm_eval = fold_commitments(Parts(EvalRow(1, FoldedSteps.W), EvalRow(2, Core.W)), w)
      BY DEF ZkClaim
    <2>7. ZkClaim(w).comm = ZkComm(w)
      BY <2>5, Zenon DEF ClaimCommitted, ZkComm
    <2> QED
      BY <2>3, <2>6, <2>7
  <1>4. U.comm = claim.comm /\ U.point = claim.point /\ U.comm_eval = claim.comm_eval
    BY <1>1, <1>3 DEF Claimed, ZkClaimed
  <1>5. \A f : OpenTaken(proof, U.comm, U.point, U.comm_eval, channel, f) =>
                 OpenHolds(U.comm, U.point, U.comm_eval, proof, LastAnswer(f))
    <2>1. 5 \in 1 .. 5 /\ 5 \in 0 .. 5 /\ 5 - 1 = 4
      OBVIOUS
    <2>2. OpenNoted(claim, proof, h[4], h[5]) /\ Extends(h[5], h[5])
      BY <1>2, <2>1 DEF ZkHas, Note
    <2> QED
      BY <1>2, <1>4, <2>2 DEF OpenNoted
  <1>6. OpenTaken(proof, U.comm, U.point, U.comm_eval, channel, channel')
    BY <1>1, OpenVerifyIs DEF OpenTaken
  <1>7. OpenHolds(U.comm, U.point, U.comm_eval, proof, LastAnswer(channel'))
    <2>1. PICK f : f = channel'
      OBVIOUS
    <2> QED
      BY <1>5, <1>6, <2>1
  <1>8. Continue(OpenHolds(U.comm, U.point, U.comm_eval, proof, LastAnswer(channel')), "accepted")
    BY Zenon DEF OpenVerify, OpenHolds
  <1> QED
    BY <1>7, <1>8 DEF Continue

LEMMA AcceptStep ==
  ASSUME AcceptInv, [Next \/ PlainNext]_vars
  PROVE  AcceptInv'
  <1>1. FairInv /\ FairInv' /\ StageInv
    BY FairStep DEF AcceptInv, FairInv, ArgumentInv
  <1> SUFFICES /\ stage' = "verify_inner" => U' = Instance(folded')
               /\ job'.zk => stage' # "rejected"
    BY <1>1, Zenon DEF AcceptInv, Instance
  <1>2. CASE UNCHANGED vars
    BY <1>2 DEF AcceptInv, vars
  <1>3. CASE FoldVerify
    BY <1>1, <1>3, FoldAccepts
  <1>4. CASE OuterVerify
    BY <1>1, <1>4, OuterAccepts
  <1>5. CASE InnerVerify
    BY <1>1, <1>5, InnerAccepts DEF AcceptInv, InnerVerify
  <1>6. CASE OpenVerify
    <2>1. job' = job /\ (stage' = "accepted" \/ stage' = "rejected")
      BY <1>6 DEF OpenVerify, Continue
    <2> QED
      BY <1>1, <1>6, <2>1, OpenAccepts
  <1>7. CASE \/ FoldProve \/ OuterProve \/ InnerProve \/ Combine \/ Open \/ CombineVerify
             \/ InstanceProve \/ PlainOuterProve \/ PlainInnerProve
    <2>1. stage' # "verify_inner" /\ stage' # "rejected"
      BY <1>7 DEF FoldProve, OuterProve, InnerProve, Combine, Open, CombineVerify,
                  InstanceProve, PlainOuterProve, PlainInnerProve
    <2> QED
      BY <2>1
  <1>8. CASE InstanceVerify \/ PlainOuterVerify \/ PlainInnerVerify
    <2>1. ~job.zk /\ job' = job
      BY <1>1, <1>8 DEF StageInv, PlainStages, InstanceVerify, PlainOuterVerify, PlainInnerVerify
    <2>2. stage' # "verify_inner"
      BY <1>8 DEF InstanceVerify, PlainOuterVerify, PlainInnerVerify, Continue
    <2> QED
      BY <2>1, <2>2
  <1> QED
    BY <1>2, <1>3, <1>4, <1>5, <1>6, <1>7, <1>8 DEF Next, PlainNext

(* With zero knowledge an honest proof is accepted, for every shape, job,   *)
(* width, mask and blind, and whatever the oracle answers: the folded       *)
(* instances are comparable, the sums of the two sum-checks are the claims, *)
(* the direct openings, the verifier's own evaluations of the matrices and  *)
(* of z, and the inner product argument fit (nifs.rs:70-91,                 *)
(* spartan_relaxed.rs:219-308, hyrax_pc.rs:480-548, ipa.rs:173-222).        *)
THEOREM HonestProofIsAccepted == ArgumentSpec => [](job.zk => ProofIsAccepted)
  <1>1. Init => AcceptInv
    <2>1. Init => stage # "verify_inner" /\ stage # "rejected"
      BY DEF Init
    <2> QED
      BY <2>1, FairInit DEF AcceptInv
  <1>2. AcceptInv /\ [Next \/ PlainNext]_vars => AcceptInv'
    BY AcceptStep
  <1>3. AcceptInv => (job.zk => ProofIsAccepted)
    BY DEF AcceptInv, ProofIsAccepted
  <1> QED
    BY <1>1, <1>2, <1>3, PTL DEF ArgumentSpec

=============================================================================
