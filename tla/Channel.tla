------------------------------ MODULE Channel ------------------------------
(***************************************************************************)
(* A channel of prover or verifier: a transcript with the oracle and what  *)
(* it answered.  An answer that was given before is given again.           *)
(***************************************************************************)
EXTENDS Transcript

NewChannel(oracle, answers) == [t |-> NewTranscript, oracle |-> oracle, answers |-> answers]

Put(ch, label, x) == [ch EXCEPT !.t = Absorb(@, label, x)]

Ask(ch, label, fresh) ==
  LET s == Squeeze(ch.t, label, ch.oracle)
  IN  [t |-> s.transcript, oracle |-> s.oracle,
       answers |-> IF Len(s.oracle) = Len(ch.answers) THEN ch.answers
                   ELSE Append(ch.answers, fresh)]

AskEach(ch, label, fresh) ==
  LET c[k \in 0 .. Len(fresh)] == IF k = 0 THEN ch ELSE Ask(c[k - 1], label, fresh[k])
  IN  c[Len(fresh)]

(* Commitments, each under its label. *)
AbsorbAll(ch, comms) ==
  LET c[k \in 0 .. Len(comms)] ==
        IF k = 0 THEN ch ELSE Put(c[k - 1], comms[k].label, comms[k].comm)
  IN  c[Len(comms)]

(* Fault: the challenges are drawn before the early commitments are         *)
(* absorbed.                                                                *)
FaultyChallenged(ch, comms, fresh) == AbsorbAll(AskEach(ch, "challenge", fresh), comms)

Challenged(ch, comms, fresh) == AskEach(AbsorbAll(ch, comms), "challenge", fresh)

(* A sum-check: a polynomial is sent in each round, and a challenge drawn.  *)
SumCheckRounds(ch, sc, fresh) ==
  LET c[k \in 0 .. Len(fresh)] ==
        IF k = 0 THEN ch ELSE Ask(Put(c[k - 1], "p", <<sc, k>>), "c", fresh[k])
  IN  c[Len(fresh)]

(* The last n answers of this transcript. *)
Latest(ch, n) ==
  LET place[i \in 0 .. n] == IF i = 0 THEN ch.t.state ELSE ch.oracle[place[i - 1]].state
  IN  [i \in 1 .. n |-> ch.answers[place[n - i]]]
LastAnswer(ch) == Latest(ch, 1)[1]

-----------------------------------------------------------------------------
(* What both sides absorb and ask in the same words. *)

(* Fault: the challenge is drawn before the cross term is absorbed. *)
FaultyFoldChallenge(ch, U1, U2, comm_T, fresh) ==
  Put(Ask(Put(Put(ch, "U1", U1), "U2", U2), "r", fresh), "comm_T", comm_T)

(* The messages of a fold and its challenge, the same on both sides. *)
FoldChallenge(ch, U1, U2, comm_T, fresh) ==
  Ask(Put(Put(Put(ch, "U1", U1), "U2", U2), "comm_T", comm_T), "r", fresh)

Opened(ch, u, X) == Put(Put(ch, "u_relaxed", u), "X_relaxed", X)

(* The messages of an opening and its challenge, the same on both sides. *)
IpaChallenge(ch, comm_a, comm_c, messages, fresh) ==
  LET start == Put(Put(ch, "dom_sep", "inner product argument (linear)"), "U", <<comm_a, comm_c>>)
  IN  Ask(Put(Put(start, "delta", messages.delta), "beta", messages.beta), "r", fresh)

=============================================================================
