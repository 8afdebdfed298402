--------------------------- MODULE PlainArgument ---------------------------
(***************************************************************************)
(* The prover without zero knowledge (vega_sc.rs) and its verifier.  There *)
(* is no verifier circuit: the messages of the two sum-checks are sent and *)
(* the evaluation of the witness is part of the proof.  The transcript,    *)
(* the outer sum-check and the opening at the end are those of             *)
(* FoldAndOpen, whose variables these steps use.                           *)
(*                                                                         *)
(* A job is a shape with its segments: early, those committed before the   *)
(* challenges of the circuit, and rest, which depends on the challenges.   *)
(***************************************************************************)
EXTENDS FoldAndOpen

num_vars_log == Log2(S.num_vars)

(* The transcript up to the challenges of the circuit. *)
Begun(public_values) ==
  Put(Put(channel, "vk", "digest"), "public_values", public_values)

EarlyComms ==
  [i \in DOMAIN job.early |->
     [label |-> job.early[i].label, comm |-> Commit(job.early[i].W, job.early[i].r_W)]]

(* The segments before the rest fill whole rows. *)
ASSUME SegmentsAssumption ==
  \A j \in Jobs : ~j.zk =>
    /\ IsList(j.early)
    /\ \A i \in DOMAIN j.early :
         LET rows == Size(j.early[i].r_W)
         IN  /\ rows \in Nat
             /\ j.early[i].W \in Vectors(rows * Width) /\ j.early[i].r_W \in Vectors(rows)
    /\ j.num_challenges \in Nat
    /\ Points(j.num_challenges) \subseteq [1 .. j.num_challenges -> Field]
    /\ \A c \in [1 .. j.num_challenges -> Field] :
         /\ Size(j.rest[c]) \in Nat
         /\ IsWitness([W |-> j.rest[c], r_W |-> j.r_rest], Size(j.rest[c]))

(* r1cs_instance_and_witness *)
InstanceProve ==
  /\ stage = "instance"
  /\ \E fresh \in Points(job.num_challenges) :
       LET drawn == Challenged(Begun(job.public), EarlyComms, fresh)
           challenges == Latest(drawn, job.num_challenges)
           rest == job.rest[challenges]
           comm_rest == Commit(rest, job.r_rest)
           n == Len(job.early)
           comms == Append(EarlyComms, [label |-> "comm_W_rest", comm |-> comm_rest])
       IN  /\ channel' = Put(drawn, "comm_W_rest", comm_rest)
           /\ proof' = [public_values |-> job.public, challenges |-> challenges, comms |-> comms]
           /\ claim' =
                [comm |-> Joined([i \in DOMAIN comms |-> comms[i].comm]),
                 W |-> Joined([i \in 1 .. n + 1 |-> IF i > n THEN rest ELSE job.early[i].W]),
                 r_W |-> Joined([i \in 1 .. n + 1 |->
                                   IF i > n THEN job.r_rest ELSE job.early[i].r_W])]
  /\ stage' = "plain_outer"
  /\ UNCHANGED <<job, folded, U>>

(* X of to_regular_instance, and the assignment. *)
PublicPart(instance) == Joined(<<instance.public_values, AsVec(instance.challenges)>>)
Z == Join(claim.W, 1, PublicPart(proof))

PlainOuterProve ==
  /\ stage = "plain_outer"
  /\ \E tau, r_x \in Points(num_rounds_x), fresh \in Challenges :
       LET outer == Outer(channel, Multiply(S.A, Z), Multiply(S.B, Z), Multiply(S.C, Z),
                          tau, r_x, fresh)
       IN  /\ channel' = outer.channel
           /\ proof' = With(proof, [outer |-> outer.sum, claims |-> outer.claims])
  /\ stage' = "plain_inner"
  /\ UNCHANGED <<job, folded, claim, U>>

EvalX(instance, y) ==
  SparseEvaluate(num_vars_log, Joined(<<Scalar(1), PublicPart(instance)>>), Tail(y))

(* The evaluation of the witness is found from that of the assignment; if   *)
(* the first challenge is one it cannot be, and prove returns an error.     *)
PlainInnerProve ==
  /\ stage = "plain_inner"
  /\ \E r_y \in Points(num_rounds_y) :
       LET poly_ABC == Padded(BoundColumns(proof.outer.point, 1, LastAnswer(channel)), 2 * S.num_vars)
           poly_z == Padded(Z, 2 * S.num_vars)
           rounds == SumCheckRounds(channel, "inner", r_y)
           y == Latest(rounds, num_rounds_y)
           eval_Z == Extension(poly_z, y)
           eval_W == Times(Minus(eval_Z, Times(y[1], EvalX(proof, y))), Invert(Minus(1, y[1])))
       IN  /\ channel' = rounds
           /\ IF y[1] = 1
                THEN stage' = "failed" /\ UNCHANGED <<claim, proof>>
                ELSE /\ stage' = "open"
                     /\ proof' = With(proof, [inner |-> Inner(poly_ABC, poly_z, y),
                                              eval_W |-> eval_W, blind_eval_W |-> job.blind_eval])
                     /\ claim' = With(claim,
                          [point |-> Tail(y), r_eval |-> job.blind_eval,
                           comm_eval |-> Commit(Scalar(eval_W), job.blind_eval)])
  /\ UNCHANGED <<job, folded, U>>

-----------------------------------------------------------------------------
(* verify, from SplitR1CSInstance::validate to the check of the inner       *)
(* sum-check; its last call is HyraxPCS::verify.                            *)

InstanceVerify ==
  /\ stage = "verify_instance"
  /\ LET comms == proof.comms
         n == Len(job.early)
     IN  \E fresh \in Points(job.num_challenges) :
           LET drawn == Challenged(Begun(proof.public_values), SubSeq(comms, 1, n), fresh)
           IN  /\ channel' = Put(drawn, comms[n + 1].label, comms[n + 1].comm)
               /\ Continue(/\ Size(proof.public_values) = S.num_io - job.num_challenges
                           /\ \A i \in 1 .. n : Size(comms[i].comm) = NumRows(Size(job.early[i].W))
                           /\ Size(Joined([i \in DOMAIN comms |-> comms[i].comm])) = NumRows(S.num_vars)
                           /\ proof.challenges = Latest(drawn, job.num_challenges),
                           "verify_plain_outer")
  /\ UNCHANGED <<job, folded, claim, proof, U>>

PlainOuterVerify ==
  /\ stage = "verify_plain_outer"
  /\ \E tau, r_x \in Points(num_rounds_x), fresh \in Challenges :
       LET check == OuterCheck(channel, tau, r_x, fresh)
       IN  channel' = check.channel /\ Continue(check.holds, "verify_plain_inner")
  /\ UNCHANGED <<job, folded, claim, proof, U>>

PlainInnerVerify ==
  /\ stage = "verify_plain_inner"
  /\ \E r_y \in Points(num_rounds_y) :
       LET r == LastAnswer(channel)
           rounds == SumCheckRounds(channel, "inner", r_y)
           y == Latest(rounds, num_rounds_y)
           eval_Z == Plus(Times(Minus(1, y[1]), proof.eval_W), Times(y[1], EvalX(proof, y)))
       IN  /\ channel' = rounds
           /\ Continue(/\ Verified(proof.inner, Joint(proof.claims, 0, r), y)
                       /\ proof.inner.value
                            = Times(EvalABC(proof.outer.point, y, 1, r), eval_Z),
                       "verify_open")
           /\ U' = [comm |-> Joined([i \in DOMAIN proof.comms |-> proof.comms[i].comm]),
                    point |-> Tail(y),
                    comm_eval |-> Commit(Scalar(proof.eval_W), proof.blind_eval_W)]
  /\ UNCHANGED <<job, folded, claim, proof>>

PlainNext ==
  \/ InstanceProve \/ PlainOuterProve \/ PlainInnerProve
  \/ InstanceVerify \/ PlainOuterVerify \/ PlainInnerVerify

ArgumentSpec == Init /\ [][Next \/ PlainNext]_vars

-----------------------------------------------------------------------------
(* Without a verifier circuit the proof rests on the order of one           *)
(* transcript: a challenge of the circuit depends on the public values and  *)
(* on the commitments to all variables that were fixed before it, and the   *)
(* sum-checks on those and on the rest, which the circuit computes from its *)
(* challenges (bellpepper/r1cs.rs:417-490, r1cs/mod.rs:1540-1600).          *)
InstanceIsBound ==
  /\ stage \in {"plain_outer", "verify_plain_outer"} /\ job.num_challenges > 0 =>
       /\ Absorbed(<<"public_values", proof.public_values>>)
       /\ \A i \in DOMAIN job.early : Absorbed(<<proof.comms[i].label, proof.comms[i].comm>>)
  /\ stage \in {"plain_inner", "verify_plain_inner"} =>
       /\ Absorbed(<<"public_values", proof.public_values>>)
       /\ \A i \in DOMAIN proof.comms : Absorbed(<<proof.comms[i].label, proof.comms[i].comm>>)

=============================================================================
