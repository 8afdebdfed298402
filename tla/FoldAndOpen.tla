---------------------------- MODULE FoldAndOpen ----------------------------
(***************************************************************************)
(* How a proof ends, for the prover and for the verifier.  The instance of *)
(* the verifier circuit is folded with a random one (nifs.rs), the folded  *)
(* one is proved by a relaxed Spartan argument (spartan_relaxed.rs), and   *)
(* the committed evaluation of the witness is opened (hyrax_pc.rs, ipa.rs);*)
(* the multi-circuit prover first folds its steps and adds the core        *)
(* (vega_mc_zkp.rs).  All of it runs on one transcript, which the two      *)
(* sides build on their own.                                               *)
(*                                                                         *)
(* Vectors are over the field of Polynomials; a sum-check is one message   *)
(* for each round that stands for a polynomial whose total and whose value *)
(* at the point of its challenges SumCheck checks.                         *)
(***************************************************************************)
EXTENDS Hyrax, Channel

CONSTANTS
  Jobs,         \* what is folded and opened; zk if it is these provers'
  Challenges,   \* the answers of the oracle where a single one is drawn,
  Points(_),    \* and where a point of that many coordinates is
  Blinds(_),    \* blinds of that many rows
  Masks(_)      \* masks of an inner product argument of that length

VARIABLES
  job,
  stage,
  channel,   \* [t, oracle, answers]: a transcript, the oracle and what it answered
  folded,    \* the prover's relaxed witness, with u and X,
  claim,     \* and what it opens in the end
  proof,
  U          \* the verifier's folded instance and what it found with it

vars == <<job, stage, channel, folded, claim, proof, U>>

S == job.S
None == "none"

(* A proof grows by the messages of every step. *)
With(sent, messages) ==
  [field \in DOMAIN sent \cup DOMAIN messages |->
     IF field \in DOMAIN sent THEN sent[field] ELSE messages[field]]

(* sample_random_instance_witness, for values drawn beforehand. *)
RandomWitness ==
  LET z == job.random.z
  IN  [W |-> [i \in 0 .. S.num_vars - 1 |-> z[i]], u |-> z[S.num_vars],
       X |-> [j \in 0 .. S.num_io - 1 |-> z[S.num_vars + 1 + j]],
       E |-> Excess(S, z, z[S.num_vars]), r_W |-> job.random.r_W, r_E |-> job.random.r_E]
Instance(w) ==
  [comm_W |-> Commit(w.W, w.r_W), comm_E |-> Commit(w.E, w.r_E), u |-> w.u, X |-> w.X]
RegularInstance ==
  [comm_W |-> Commit(job.regular.W, job.regular.r_W), X |-> job.regular.X]

(* Fault: the error of the relaxed witness is left out of the cross term.   *)
FaultyCrossTerm(W1, W2) ==
  LET z1 == Join(W1.W, W1.u, W1.X)
      z2 == Join(W2.W, 1, W2.X)
  IN  Excess(S, [i \in DOMAIN z1 |-> Plus(z1[i], z2[i])], Plus(W1.u, 1))

(* T of commit_T, from the sum of the two assignments. *)
CrossTerm(W1, W2) ==
  LET z1 == Join(W1.W, W1.u, W1.X)
      z2 == Join(W2.W, 1, W2.X)
      excess == Excess(S, [i \in DOMAIN z1 |-> Plus(z1[i], z2[i])], Plus(W1.u, 1))
  IN  [i \in DOMAIN excess |-> Minus(excess[i], W1.E[i])]

FoldWitness(W1, W2, T, r_T, r) ==
  [W |-> Scaled(W1.W, W2.W, r), E |-> Scaled(W1.E, T, r),
   u |-> Plus(W1.u, r), X |-> Scaled(W1.X, W2.X, r),
   r_W |-> fold_blinds(<<W1.r_W, W2.r_W>>, <<1, r>>),
   r_E |-> fold_blinds(<<W1.r_E, r_T>>, <<1, r>>)]

FoldInstance(U1, U2, comm_T, r) ==
  [comm_W |-> fold_commitments(<<U1.comm_W, U2.comm_W>>, <<1, r>>),
   comm_E |-> fold_commitments(<<U1.comm_E, comm_T>>, <<1, r>>),
   u |-> Plus(U1.u, r), X |-> Scaled(U1.X, U2.X, r)]

-----------------------------------------------------------------------------
(* Dimensions of the relaxed argument; z is padded to twice the variables.  *)

num_rounds_x == Log2(S.num_cons)
num_vars_padded == NextPowerOfTwo(S.num_vars)
num_rounds_y == Log2(num_vars_padded) + 1

Joint(claims, eval_E, r) ==
  Plus(claims.Az, Plus(Times(r, claims.Bz),
                       Times(Times(r, r), Minus(claims.Cz, eval_E))))

(* poly_ABC: the columns of the three matrices, bound at r_x. *)
BoundColumns(r_x, u, r) ==
  LET T_x == EvalsFromPoints(r_x)
      column(M, j) == SumOf([i \in DOMAIN M |-> Times(T_x[i], M[i][j])])
  IN  [j \in 0 .. S.num_vars + S.num_io |->
         Plus(column(S.A, j), Plus(Times(r, column(S.B, j)),
                                   Times(Times(Times(r, r), u), column(S.C, j))))]

(* Fault: u and X are taken to follow the padded variables. *)
FaultyEvalZ(eval_W, u, X, r_y) ==
  LET T_y == EvalsFromPoints(r_y)
  IN  Plus(Times(Minus(1, r_y[1]), eval_W),
           Plus(Times(u, T_y[num_vars_padded]),
                SumOf([j \in DOMAIN X |-> Times(X[j], At(T_y, num_vars_padded + 1 + j))])))

(* eval_Z of verify: u and X follow the variables as they are. *)
EvalZ(eval_W, u, X, r_y) ==
  LET T_y == EvalsFromPoints(r_y)
  IN  Plus(Times(Minus(1, r_y[1]), eval_W),
           Plus(Times(u, T_y[S.num_vars]),
                SumOf([j \in DOMAIN X |-> Times(X[j], T_y[S.num_vars + 1 + j])])))

EvalABC(r_x, r_y, u, r) ==
  LET T_x == EvalsFromPoints(r_x)
      T_y == EvalsFromPoints(r_y)
      evaluation(M) ==
        SumOf([i \in DOMAIN M |->
                Times(T_x[i], SumOf([j \in DOMAIN M[i] |-> Times(T_y[j], M[i][j])]))])
  IN  Plus(evaluation(S.A), Plus(Times(r, evaluation(S.B)),
                                 Times(Times(Times(r, r), u), evaluation(S.C))))

(* A sum-check proof: the total of the polynomial it is about and its value *)
(* at the point of the challenges.                                          *)
SumCheckOf(total, point, value) == [total |-> total, point |-> point, value |-> value]
Verified(sc, total, point) == sc.total = total /\ sc.point = point

-----------------------------------------------------------------------------
(* The witness that is opened in the end: that of the single circuit, or    *)
(* the steps folded by the weights of r_bs and the core, by c_eval.         *)

Weights == LET T == EvalsFromPoints(Reversed(job.main.r_bs))
           IN  [i \in 1 .. Len(job.main.steps) |-> T[i - 1]]
StepComms == [i \in DOMAIN job.main.steps |->
                Commit(job.main.steps[i].W, job.main.steps[i].r_W)]
HasCore == job.main.core # <<>>    \* at most one
Core == job.main.core[1]
CoreComm == Commit(Core.W, Core.r_W)

Truncated == job.main.prefix > 0 /\ job.main.num_rest_unpadded = 0

(* What NIFS leaves to the prover: only the prefix is folded if the rest    *)
(* is padding, and the rows after it are made of the folded blind.          *)
FoldedSteps ==
  LET steps == job.main.steps
      n == Size(steps[1].W)
      len == IF Truncated THEN job.main.prefix ELSE n
      W == fold_vectors([i \in DOMAIN steps |-> Padded(steps[i].W, len)], Weights)
      r_W == fold_blinds([i \in DOMAIN steps |-> steps[i].r_W], Weights)
  IN  [W |-> Padded(W, n), r_W |-> r_W,
       comm |-> IF Truncated
                THEN fold_commitments_partial(StepComms, Weights, NumRows(len), r_W)
                ELSE fold_commitments(StepComms, Weights)]

Evaluation(W) == Extension(W, job.main.point)
EvalRow(k, W) == Commit(Scalar(Evaluation(W)), job.main.eval_blinds[k])

-----------------------------------------------------------------------------
(* What the provers are given.  A witness of the relation is satisfied, the *)
(* random one has the lengths of the shape, and a vector is committed with  *)
(* one blind for each row.  Steps and core have one length, that of the     *)
(* point they are opened at, a weight for each step, and zeros after the    *)
(* prefix if the rest is padding.                                           *)

IsList(s) == s \in Seq({s[i] : i \in DOMAIN s})
IsWitness(w, n) == w.W \in Vectors(n) /\ w.r_W \in Vectors(NumRows(n))

IsFold(shape, random, regular) ==
  /\ random.z \in Vectors(shape.num_vars + 1 + shape.num_io)
  /\ random.r_W \in Vectors(NumRows(shape.num_vars))
  /\ random.r_E \in Vectors(NumRows(shape.num_cons))
  /\ IsWitness(regular, shape.num_vars)
  /\ regular.X \in Vectors(shape.num_io)
  /\ \A i \in 0 .. shape.num_cons - 1 :
       Excess(shape, Join(regular.W, 1, regular.X), 1)[i] = 0

IsMain(main) ==
  LET n == PowerOfTwo[Len(main.point)]
  IN  /\ main.point \in Seq(Field) /\ main.r_bs \in Seq(Field)
      /\ IsList(main.steps) /\ Len(main.steps) \in 1 .. PowerOfTwo[Len(main.r_bs)]
      /\ \A i \in 1 .. Len(main.steps) : IsWitness(main.steps[i], n)
      /\ IsList(main.core) /\ Len(main.core) \in 0 .. 1
      /\ \A i \in 1 .. Len(main.core) : IsWitness(main.core[i], n)
      /\ main.eval_blinds \in [1 .. 1 + Len(main.core) -> Vectors(1)]
      /\ main.prefix \in Nat
      /\ main.prefix > 0 /\ main.num_rest_unpadded = 0 =>
           \A i \in 1 .. Len(main.steps) : \A j \in main.prefix .. n - 1 : main.steps[i].W[j] = 0

ASSUME JobsAssumption ==
  \A j \in Jobs :
    /\ j.zk \in BOOLEAN
    /\ IsShape(j.S)
    /\ j.zk => IsFold(j.S, j.random, j.regular) /\ IsMain(j.main)

(* What the oracle answers are field elements, and so are blinds and masks; *)
(* the row that is opened is at most as long as the key.                    *)
ASSUME AnswersAssumption ==
  /\ Challenges \subseteq Field
  /\ \A j \in Jobs :
       /\ \A n \in {Log2(j.S.num_cons), Log2(NextPowerOfTwo(j.S.num_vars)) + 1} :
            Points(n) \subseteq [1 .. n -> Field]
       /\ Blinds(NumRows(j.S.num_cons)) \subseteq Vectors(NumRows(j.S.num_cons))
  /\ \A n \in {PowerOfTwo[k] : k \in 0 .. Log2(Width)} :
       Masks(n) \subseteq [d : Vectors(n), r_delta : Field, r_beta : Field]

-----------------------------------------------------------------------------
(* The prover *)

Init ==
  /\ job \in Jobs
  /\ stage = IF job.zk THEN "fold" ELSE "instance"
  /\ channel = NewChannel(<<>>, <<>>)
  /\ folded = None
  /\ claim = None
  /\ proof = None
  /\ U = None

(* NovaNIFS::prove *)
FoldProve ==
  /\ stage = "fold"
  /\ \E r_T \in Blinds(NumRows(S.num_cons)), fresh \in Challenges :
       LET T == CrossTerm(RandomWitness, job.regular)
           comm_T == Commit(T, r_T)
           ch == FoldChallenge(channel, Instance(RandomWitness), RegularInstance, comm_T, fresh)
       IN  /\ channel' = ch
           /\ folded' = FoldWitness(RandomWitness, job.regular, T, r_T, LastAnswer(ch))
           /\ proof' = [random_U |-> Instance(RandomWitness), U2 |-> RegularInstance,
                        comm_T |-> comm_T]
  /\ stage' = "outer"
  /\ UNCHANGED <<job, claim, U>>

(* The outer sum-check of Az * Bz - Cz, up to the challenge r that joins    *)
(* the claims.  In the relaxed argument Cz is u * Cz + E.                   *)
OuterValue(tau, claims, x) ==
  Times(EqEvaluate(tau, x), Minus(Times(claims.Az, claims.Bz), claims.Cz))
Outer(ch, Az, Bz, Cz, fresh_tau, fresh_x, fresh) ==
  LET start == AskEach(ch, "t", fresh_tau)
      tau == Latest(start, num_rounds_x)
      eq == EvalsFromPoints(tau)
      rounds == SumCheckRounds(start, "outer", fresh_x)
      x == Latest(rounds, num_rounds_x)
      claims == [Az |-> Extension(Az, x), Bz |-> Extension(Bz, x), Cz |-> Extension(Cz, x)]
      total == SumOf([i \in DOMAIN Az |-> Times(eq[i], Minus(Times(Az[i], Bz[i]), Cz[i]))])
  IN  [channel |-> Ask(Put(rounds, "claims_outer", claims), "r", fresh),
       claims |-> claims, sum |-> SumCheckOf(total, x, OuterValue(tau, claims, x))]

(* The relaxed argument: u and X, but no commitment, are absorbed.          *)
OuterProve ==
  /\ stage = "outer"
  /\ \E tau, r_x \in Points(num_rounds_x), fresh \in Challenges :
       LET z == Join(folded.W, folded.u, folded.X)
           Cz == Multiply(S.C, z)
           uCzE == [i \in DOMAIN Cz |-> Plus(Times(folded.u, Cz[i]), folded.E[i])]
           outer == Outer(Opened(channel, folded.u, folded.X),
                          Multiply(S.A, z), Multiply(S.B, z), uCzE, tau, r_x, fresh)
       IN  /\ channel' = outer.channel
           /\ proof' = With(proof, [outer |-> outer.sum, claims |-> outer.claims])
  /\ stage' = "inner"
  /\ UNCHANGED <<job, folded, claim, U>>

Inner(poly_ABC, poly_z, y) ==
  SumCheckOf(SumOf([j \in DOMAIN poly_z |-> Times(poly_ABC[j], poly_z[j])]), y,
             Times(Extension(poly_ABC, y), Extension(poly_z, y)))

(* The inner sum-check and the direct openings. *)
InnerProve ==
  /\ stage = "inner"
  /\ \E r_y \in Points(num_rounds_y) :
       LET r == LastAnswer(channel)
           r_x == proof.outer.point
           poly_ABC == Padded(BoundColumns(r_x, folded.u, r), 2 * num_vars_padded)
           poly_z == Padded(Join(folded.W, folded.u, folded.X), 2 * num_vars_padded)
           rounds == SumCheckRounds(channel, "inner", r_y)
           y == Latest(rounds, num_rounds_y)
           open_W == prove_direct(folded.W, folded.r_W, Tail(y))
           open_E == prove_direct(folded.E, folded.r_E, r_x)
       IN  /\ channel' = Put(Put(rounds, "v_W", open_W.v), "v_E", open_E.v)
           /\ proof' = With(proof, [inner |-> Inner(poly_ABC, poly_z, y),
                                    open_W |-> open_W, open_E |-> open_E])
  /\ stage' = "combine"
  /\ UNCHANGED <<job, folded, claim, U>>

(* The claim to open: that of the folded steps and of the core, combined by *)
(* c_eval; a single circuit is one step without a core.  The commitments to *)
(* the evaluations are those of two rounds of the verifier circuit.         *)
Parts(of_steps, of_core) == IF HasCore THEN <<of_steps, of_core>> ELSE <<of_steps>>
PartWeights(ch) == IF HasCore THEN <<1, LastAnswer(ch)>> ELSE <<1>>
ClaimChallenge(ch, fresh) == IF HasCore THEN Ask(ch, "c_eval", fresh) ELSE ch

Combine ==
  /\ stage = "combine"
  /\ \E fresh \in Challenges : channel' = ClaimChallenge(channel, fresh)
  /\ LET steps == FoldedSteps
         weights == PartWeights(channel')
         evals == Parts(EvalRow(1, steps.W), EvalRow(2, Core.W))
     IN  /\ claim' =
              [comm |-> fold_commitments(Parts(steps.comm, CoreComm), weights),
               W |-> fold_vectors(Parts(steps.W, Core.W), weights),
               r_W |-> fold_blinds(Parts(steps.r_W, Core.r_W), weights),
               point |-> job.main.point,
               comm_eval |-> fold_commitments(evals, weights),
               r_eval |-> fold_blinds(job.main.eval_blinds, weights)]
         /\ proof' = With(proof, [evals |-> evals])
  /\ stage' = "open"
  /\ UNCHANGED <<job, folded, U>>

(* HyraxPCS::prove *)
Open ==
  /\ stage = "open"
  /\ Size(claim.W) = PowerOfTwo[Len(claim.point)]
  /\ LET row == BoundRow(claim.W, claim.r_W, claim.point)
         b_vec == ColumnWeights(claim.point)
     IN  \E mask \in Masks(Size(b_vec)), fresh \in Challenges :
           LET messages == IpaMessages(mask, b_vec)
               ch == IpaChallenge(Put(channel, "poly_com", claim.comm),
                                  Row(row.v, row.blind), claim.comm_eval[0], messages, fresh)
           IN  /\ channel' = NewChannel(ch.oracle, ch.answers)
               /\ proof' = With(proof,
                    [messages |-> messages, asked |-> Len(ch.oracle),
                     answer |-> IpaAnswer(mask, row, claim.r_eval[0], LastAnswer(ch))])
  /\ stage' = IF job.zk THEN "verify_fold" ELSE "verify_instance"
  /\ UNCHANGED <<job, folded, claim, U>>

-----------------------------------------------------------------------------
(* The verifier, on the same proof with a transcript of its own.  Every     *)
(* check that fails ends in "rejected".                                     *)

Continue(holds, next) == stage' = IF holds THEN next ELSE "rejected"

(* NovaNIFS::verify *)
FoldVerify ==
  /\ stage = "verify_fold"
  /\ \E fresh \in Challenges :
       channel' = FoldChallenge(channel, proof.random_U, proof.U2, proof.comm_T, fresh)
  /\ LET comparable == /\ Size(proof.random_U.X) = Size(proof.U2.X)
                       /\ SameRows(<<proof.random_U.comm_W, proof.U2.comm_W>>)
                       /\ SameRows(<<proof.random_U.comm_E, proof.comm_T>>)
     IN  /\ Continue(comparable, "verify_outer")
         /\ U' = IF comparable
                 THEN FoldInstance(proof.random_U, proof.U2, proof.comm_T, LastAnswer(channel'))
                 ELSE None
  /\ UNCHANGED <<job, folded, claim, proof>>

OuterCheck(ch, fresh_tau, fresh_x, fresh) ==
  LET start == AskEach(ch, "t", fresh_tau)
      rounds == SumCheckRounds(start, "outer", fresh_x)
      x == Latest(rounds, num_rounds_x)
  IN  [channel |-> Ask(Put(rounds, "claims_outer", proof.claims), "r", fresh),
       holds |-> /\ Verified(proof.outer, 0, x)
                 /\ proof.outer.value
                      = OuterValue(Latest(start, num_rounds_x), proof.claims, x)]

OuterVerify ==
  /\ stage = "verify_outer"
  /\ \E tau, r_x \in Points(num_rounds_x), fresh \in Challenges :
       LET check == OuterCheck(Opened(channel, U.u, U.X), tau, r_x, fresh)
       IN  channel' = check.channel /\ Continue(check.holds, "verify_inner")
  /\ UNCHANGED <<job, folded, claim, proof, U>>

InnerVerify ==
  /\ stage = "verify_inner"
  /\ \E r_y \in Points(num_rounds_y) :
       LET r == LastAnswer(channel)
           r_x == proof.outer.point
           rounds == SumCheckRounds(channel, "inner", r_y)
           y == Latest(rounds, num_rounds_y)
           eval_W == DirectEvaluation(proof.open_W, Tail(y))
           eval_E == DirectEvaluation(proof.open_E, r_x)
       IN  /\ channel' = Put(Put(rounds, "v_W", proof.open_W.v), "v_E", proof.open_E.v)
           /\ Continue(
                /\ DirectOpens(U.comm_E, proof.open_E, r_x)
                /\ Verified(proof.inner, Joint(proof.claims, eval_E, r), y)
                /\ DirectOpens(U.comm_W, proof.open_W, Tail(y))
                /\ proof.inner.value = Times(EvalABC(r_x, y, U.u, r), EvalZ(eval_W, U.u, U.X, y)),
                "verify_combine")
  /\ UNCHANGED <<job, folded, claim, proof, U>>

(* The verifier folds the commitments of all rows. *)
CombineVerify ==
  /\ stage = "verify_combine"
  /\ \E fresh \in Challenges : channel' = ClaimChallenge(channel, fresh)
  /\ LET weights == PartWeights(channel')
         comm == fold_commitments(StepComms, Weights)
     IN  U' = [comm |-> fold_commitments(Parts(comm, CoreComm), weights),
               point |-> job.main.point,
               comm_eval |-> fold_commitments(proof.evals, weights)]
  /\ stage' = "verify_open"
  /\ UNCHANGED <<job, folded, claim, proof>>

(* HyraxPCS::verify *)
OpenVerify ==
  /\ stage = "verify_open"
  /\ LET point == U.point
         b_vec == ColumnWeights(point)
         comm_LZ == BoundCommitment(U.comm, point)
     IN  \E fresh \in Challenges :
           LET ch == IpaChallenge(Put(channel, "poly_com", U.comm), comm_LZ, U.comm_eval[0],
                                  proof.messages, fresh)
           IN  /\ channel' = ch
               /\ Continue(/\ Size(U.comm) = PointRows(point) /\ Size(U.comm_eval) > 0
                           /\ IpaHolds(comm_LZ, U.comm_eval[0], b_vec, proof.messages,
                                       proof.answer, LastAnswer(ch)),
                           "accepted")
  /\ UNCHANGED <<job, folded, claim, proof, U>>

Next ==
  \/ FoldProve \/ OuterProve \/ InnerProve \/ Combine \/ Open
  \/ FoldVerify \/ OuterVerify \/ InnerVerify \/ CombineVerify \/ OpenVerify

Spec == Init /\ [][Next]_vars

-----------------------------------------------------------------------------
(* Properties *)

(* Folding a satisfied relaxed instance with a satisfied regular one gives  *)
(* a satisfied relaxed instance for every challenge, and what the verifier  *)
(* folds from commitments alone opens to what the prover folds from         *)
(* witnesses and blinds: the relaxed instance, the claim of the steps and   *)
(* the core, or the joined segments without zero knowledge, and its         *)
(* evaluation (nifs.rs:54-67, folds.rs:68-80, 123-145, 184-206,             *)
(* vega_mc_zkp.rs:2043-2066, vega_sc.rs:407-424).                           *)
FoldIsSatisfied ==
  /\ stage = "outer" =>
       Excess(S, Join(folded.W, folded.u, folded.X), folded.u) = folded.E
  /\ stage = "verify_outer" => U = Instance(folded)
  /\ stage = "verify_open" =>
       /\ U.comm = Commit(claim.W, claim.r_W)
       /\ U.comm_eval = Commit(Scalar(Extension(claim.W, claim.point)), claim.r_eval)

(* The verifier never asks the oracle what the prover did not ask: the two  *)
(* transcripts agree to the last challenge.  The prover absorbs folds of    *)
(* witnesses and partly rebuilt commitments, the verifier folds of          *)
(* commitments (hyrax_pc.rs:846-900, vega_mc_zkp.rs:1206-1254, 2043-2080).  *)
SameChallenges ==
  stage \in {"verify_fold", "verify_outer", "verify_inner", "verify_combine",
             "verify_instance", "verify_plain_outer", "verify_plain_inner",
             "verify_open", "accepted", "rejected"}
    => Len(channel.oracle) = proof.asked

(* An honest proof is accepted: the openings, the two sum-checks and the    *)
(* evaluation of z fit whatever the number of variables and constraints is  *)
(* to a row and to a power of two.                                          *)
ProofIsAccepted == stage # "rejected"

(* A commitment is opened only at a challenge that depends on it.  The      *)
(* relaxed argument absorbs no commitment of its own                        *)
(* (spartan_relaxed.rs:76): all that is folded must be in what the          *)
(* challenge of the fold depends on, and the claim that is opened last in   *)
(* what the challenge of its argument does.                                 *)
Absorbed(x) ==
  \E query \in Ancestry(channel.oracle, channel.t.state) :
    \E i \in DOMAIN query.absorbed :
      /\ query.absorbed[i][1] = x[1]
      /\ query.absorbed[i] = x

OpenedCommitmentsAreBound ==
  /\ stage \in {"outer", "verify_outer"} =>
       /\ Absorbed(<<"U1", proof.random_U>>)
       /\ Absorbed(<<"U2", proof.U2>>)
       /\ Absorbed(<<"comm_T", proof.comm_T>>)
  /\ stage = "accepted" =>
       /\ Absorbed(<<"poly_com", U.comm>>)
       /\ Absorbed(<<"delta", proof.messages.delta>>)
       /\ Absorbed(<<"beta", proof.messages.beta>>)

=============================================================================
