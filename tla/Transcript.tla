----------------------------- MODULE Transcript -----------------------------
(***************************************************************************)
(* The Keccak256Transcript of provider/keccak.rs over a lazily sampled     *)
(* random oracle.  A transcript is the count of challenges so far, the     *)
(* state the last challenge left, and what was absorbed since.  The oracle *)
(* is the sequence of the distinct queries made so far; the answer to a    *)
(* query is its position, so equal queries get equal challenges and other  *)
(* queries get others.                                                     *)
(***************************************************************************)
EXTENDS Naturals, Sequences

NewTranscript == [round |-> 0, state |-> 0, absorbed |-> <<>>]

Absorb(transcript, label, x) ==
  [transcript EXCEPT !.absorbed = Append(@, <<label, x>>)]

Query(transcript, label) ==
  [round |-> transcript.round, state |-> transcript.state,
   absorbed |-> transcript.absorbed, label |-> label]

Position(oracle, query) ==
  IF \E k \in DOMAIN oracle : oracle[k] = query
    THEN CHOOSE k \in DOMAIN oracle : oracle[k] = query
    ELSE Len(oracle) + 1

(* squeeze: the challenge, and the transcript and oracle after it. *)
Squeeze(transcript, label, oracle) ==
  LET query == Query(transcript, label)
      k == Position(oracle, query)
  IN  [challenge |-> <<"challenge", k>>,
       transcript |-> [round |-> transcript.round + 1, state |-> k, absorbed |-> <<>>],
       oracle |-> IF k > Len(oracle) THEN Append(oracle, query) ELSE oracle]

(* count successive challenges under one label. *)
SqueezeMany(t, label, o, count) ==
  LET after[k \in 0 .. count] ==
        IF k = 0 THEN [challenges |-> <<>>, transcript |-> t, oracle |-> o]
        ELSE LET x == Squeeze(after[k - 1].transcript, label, after[k - 1].oracle)
             IN  [challenges |-> Append(after[k - 1].challenges, x.challenge),
                  transcript |-> x.transcript, oracle |-> x.oracle]
  IN  after[count]

(* The queries whose answers a challenge depends on, itself included. *)
Ancestry(oracle, k) ==
  LET step[j \in 0 .. Len(oracle)] ==
        IF j = 0 THEN {} ELSE {j} \cup step[oracle[j].state]
  IN  {oracle[j] : j \in step[k]}

=============================================================================
