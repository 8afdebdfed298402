----------------------------- MODULE MultiRound -----------------------------
(***************************************************************************)
(* The multi-round witness of bellpepper/r1cs.rs and the shape and         *)
(* instance of r1cs/mod.rs it goes with: process_round synthesizes one     *)
(* round of a circuit, commits to its variables and squeezes its           *)
(* challenges; finalize turns the rounds into an instance.  A synthesis is *)
(* [aux, inputs, vars, challenges, checks], what one round of the circuit  *)
(* allocates, returns and enforces.                                        *)
(***************************************************************************)
EXTENDS Naturals, Sequences, SequencesExt, Dimensions, Transcript

SumFirst(s, k) ==
  LET sum[i \in 0 .. k] == IF i = 0 THEN 0 ELSE sum[i - 1] + s[i]
  IN  sum[k]
Total(s) == SumFirst(s, Len(s))

(* SplitMultiRoundR1CSShape of the rounds a circuit synthesizes with no     *)
(* challenges known.                                                        *)
ShapeOf(syntheses, num_challenges, width) ==
  [num_rounds |-> Len(syntheses),
   num_vars_unpadded |-> [k \in DOMAIN syntheses |-> Len(syntheses[k].aux)],
   num_vars |-> [k \in DOMAIN syntheses |-> PadToWidth(width, Len(syntheses[k].aux))],
   num_challenges |-> num_challenges,
   num_public |-> Total([k \in DOMAIN syntheses |-> Len(syntheses[k].inputs)])
                    - Total(num_challenges),
   width |-> width]

(* Where apply_pad moves column col of the unpadded matrices, 1-based. *)
PaddedColumn(s, col) ==
  LET round == CHOOSE k \in 1 .. s.num_rounds :
                 col \in SumFirst(s.num_vars_unpadded, k - 1) + 1
                           .. SumFirst(s.num_vars_unpadded, k)
  IN  SumFirst(s.num_vars, round - 1) + col - SumFirst(s.num_vars_unpadded, round - 1)

(* Fault: the witness vector has no room for the padding. *)
FaultyNewState(s, zero) ==
  [aux |-> <<>>, inputs |-> <<>>, checks |-> {}, vars_per_round |-> <<>>,
   challenges_per_round |-> <<>>, challenges |-> <<>>, comm_w_per_round |-> <<>>,
   w |-> [k \in 1 .. Total(s.num_vars_unpadded) |-> zero]]

NewState(s, zero) ==
  [aux |-> <<>>, inputs |-> <<>>, checks |-> {}, vars_per_round |-> <<>>,
   challenges_per_round |-> <<>>, challenges |-> <<>>, comm_w_per_round |-> <<>>,
   w |-> [k \in 1 .. Total(s.num_vars) |-> zero]]

CurrentRound(state) == Len(state.challenges)

(* Fault: the challenges of the first round are passed on for ever. *)
FaultyPassedChallenges(state, round) == IF round = 0 THEN <<>> ELSE state.challenges[1]

(* What process_round passes to the circuit: the challenges squeezed at the *)
(* end of the round before.                                                 *)
PassedChallenges(state, round) == IF round = 0 THEN <<>> ELSE state.challenges[round]

(* The commitment of a round: its segment of w, under a fresh blind. *)
RoundCommitment(s, w, round) ==
  LET start == SumFirst(s.num_vars, round)
  IN  [segment |-> SubSeq(w, start + 1, start + s.num_vars[round + 1]), blind |-> round]

(* Fault: the padded offset is used in the unpadded assignment. *)
FaultyCopied(s, w, aux, round) ==
  LET to == SumFirst(s.num_vars, round)
      len == s.num_vars_unpadded[round + 1]
  IN  IF Len(aux) >= to + len
        THEN [k \in DOMAIN w |-> IF k \in to + 1 .. to + len THEN aux[k] ELSE w[k]]
        ELSE w

(* The variables of the round, from the assignment to their padded place. *)
Copied(s, w, aux, round) ==
  LET from == SumFirst(s.num_vars_unpadded, round)
      to == SumFirst(s.num_vars, round)
      len == s.num_vars_unpadded[round + 1]
  IN  IF Len(aux) >= from + len
        THEN [k \in DOMAIN w |-> IF k \in to + 1 .. to + len THEN aux[from + k - to] ELSE w[k]]
        ELSE w

(* Fault: the challenge of a round is drawn before its commitment is bound. *)
FaultyExchange(s, comm, round, transcript, oracle) ==
  IF s.num_challenges[round + 1] = 0
    THEN [challenges |-> <<>>, oracle |-> oracle,
          transcript |-> Absorb(transcript, "comm_w_round", comm)]
    ELSE LET x == Squeeze(transcript, "challenge", oracle)
         IN  [challenges |-> <<x.challenge>>, oracle |-> x.oracle,
              transcript |-> Absorb(x.transcript, "comm_w_round", comm)]

(* Commitment out, challenges back; the circuits ask for at most one.       *)
Exchange(s, comm, round, transcript, oracle) ==
  LET bound == Absorb(transcript, "comm_w_round", comm)
      x == Squeeze(bound, "challenge", oracle)
  IN  IF s.num_challenges[round + 1] = 0
        THEN [challenges |-> <<>>, transcript |-> bound, oracle |-> oracle]
        ELSE [challenges |-> <<x.challenge>>, transcript |-> x.transcript,
              oracle |-> x.oracle]

(* process_round: state, transcript and oracle after it, and the challenges.*)
ProcessRound(state, s, synthesis, round, transcript, oracle) ==
  LET aux  == state.aux \o synthesis.aux
      w    == Copied(s, state.w, aux, round)
      comm == RoundCommitment(s, w, round)
      x    == Exchange(s, comm, round, transcript, oracle)
  IN  [state |-> [aux |-> aux,
                  inputs |-> state.inputs \o synthesis.inputs,
                  checks |-> state.checks \cup synthesis.checks,
                  vars_per_round |-> Append(state.vars_per_round, synthesis.vars),
                  challenges_per_round |->
                    Append(state.challenges_per_round, synthesis.challenges),
                  challenges |-> Append(state.challenges, x.challenges),
                  comm_w_per_round |-> Append(state.comm_w_per_round, comm),
                  w |-> w],
       challenges |-> x.challenges, transcript |-> x.transcript, oracle |-> x.oracle]

(* finalize_multiround_witness: the public values follow the challenges.    *)
MayFinalize(state, s) ==
  /\ CurrentRound(state) = s.num_rounds
  /\ Len(state.inputs) - Total(s.num_challenges) = s.num_public
  /\ \A k \in 1 .. s.num_rounds : Len(state.challenges[k]) = s.num_challenges[k]

Finalized(state, s) ==
  [comm_w_per_round |-> state.comm_w_per_round,
   public_values |-> SubSeq(state.inputs, Total(s.num_challenges) + 1, Len(state.inputs)),
   challenges_per_round |-> state.challenges]

(* to_regular_instance: the public input. *)
RegularX(U) == FlattenSeq(U.challenges_per_round) \o U.public_values

(* validate, before and in each round. *)
LengthsValid(U, s) ==
  /\ Len(U.public_values) = s.num_public
  /\ Len(U.comm_w_per_round) = s.num_rounds
  /\ Len(U.challenges_per_round) = s.num_rounds

ValidateRound(U, s, round, transcript, oracle) ==
  LET comm  == U.comm_w_per_round[round + 1]
      bound == Absorb(transcript, "comm_w_round", comm)
      x     == Squeeze(bound, "challenge", oracle)
      none  == s.num_challenges[round + 1] = 0
  IN  [ok |-> /\ Len(comm.segment) = s.num_vars[round + 1]
              /\ U.challenges_per_round[round + 1] = IF none THEN <<>> ELSE <<x.challenge>>,
       transcript |-> IF none THEN bound ELSE x.transcript,
       oracle |-> IF none THEN oracle ELSE x.oracle]

=============================================================================
