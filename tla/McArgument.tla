----------------------------- MODULE McArgument -----------------------------
(***************************************************************************)
(* The interactive part of one multi-circuit prove, and the verifier's     *)
(* replay of it: the driver in vega_mc_zkp.rs, NIFS and the two zero-      *)
(* knowledge sum-checks of sumcheck.rs each compute a message, put it into *)
(* the verifier circuit, have process_round commit to it and use the       *)
(* challenge it returns.  The driver, the circuit and the verifier each    *)
(* have their own arithmetic for the index of a round.                     *)
(*                                                                         *)
(* dims are those of this call: nb comes from the number of circuits prove *)
(* was given, while the shape comes from the key.                          *)
(***************************************************************************)
EXTENDS Naturals, Sequences, VerifierCircuit, MultiRound

CONSTANTS
  KeyDims,    \* [nb, nx, ny] of the keys
  CallRounds, \* numbers of NIFS rounds of the calls
  Width       \* commitment width of the verifier circuit

ASSUME KeyDimsAssumption ==
  /\ KeyDims \subseteq [nb : Nat \ {0}, nx : Nat \ {0}, ny : Nat \ {0, 1}]
  /\ CallRounds \subseteq Nat \ {0}
  /\ Width \in Nat \ {0}

VARIABLES
  shape,       \* pk.vc_shape
  key,         \* the dimensions it was made for
  dims,        \* the dimensions of this call
  stage,       \* the message to be sent next
  vc,          \* the verifier circuit and its fields
  state,       \* vc_state
  transcript, oracle,
  rhos,        \* challenges that weigh the instances
  r_b, r_x, r, r_y,      \* challenges the prover keeps
  claim,       \* current claim: one of NIFS, one per branch afterwards
  U,           \* U_verifier
  verifier     \* the verifier's transcript, rhos and next round

vars == <<shape, key, dims, stage, vc, state, transcript, oracle, rhos, r_b, r_x, r, r_y,
          claim, U, verifier>>

(* setup: the circuit of the key is synthesized on its default fields. *)
SetupShape(d) ==
  LET challenge == <<Zero>>
      synthesis[k \in 1 .. NumRounds(d)] ==
        Rounds(d, Width, DefaultCircuit(d), k - 1,
               [i \in 1 .. k - 1 |-> synthesis[i].vars],
               [i \in 1 .. k - 1 |-> synthesis[i].challenges], challenge)
  IN  ShapeOf(synthesis, [k \in 1 .. NumRounds(d) |-> NumChallenges(d, k - 1)], Width)

(* Both sides bind the key and the instances, and draw tau and the rhos. *)
Opening(nb, o) ==
  LET bound == Absorb(NewTranscript, "statement", <<"statement", nb>>)
      tau == Squeeze(bound, "tau", o)
      x == SqueezeMany(tau.transcript, "rho", tau.oracle, nb)
  IN  [x EXCEPT !.challenges = <<tau.challenge>> \o @]

Init ==
  /\ key \in KeyDims
  /\ dims \in {[key EXCEPT !.nb = nb] : nb \in CallRounds}
  /\ shape = SetupShape(key)
  /\ stage = "start"
  /\ vc = DefaultCircuit(dims)
  /\ state = NewState(shape, Zero)
  /\ transcript = NewTranscript
  /\ oracle = <<>>
  /\ rhos = <<>>
  /\ r_b = <<>> /\ r_x = <<>> /\ r = Zero /\ r_y = <<>>
  /\ claim = <<Zero>>
  /\ U = <<>>
  /\ verifier = <<>>

Start ==
  LET x == Opening(dims.nb, oracle)
  IN  /\ stage = "start"
      /\ transcript' = x.transcript
      /\ oracle' = x.oracle
      /\ rhos' = Tail(x.challenges)
      /\ stage' = "nifs"
      /\ UNCHANGED <<shape, key, dims, vc, state, r_b, r_x, r, r_y, claim, U, verifier>>

-----------------------------------------------------------------------------
(* One round: the filled-in circuit, at the index the driver computed *)

Synthesis(circuit, round) ==
  Rounds(dims, Width, circuit, round, state.vars_per_round, state.challenges_per_round,
         PassedChallenges(state, round))

Outcome(circuit, round) ==
  ProcessRound(state, shape, Synthesis(circuit, round), round, transcript, oracle)

(* The index is the expected one, and the shape has such a round. *)
Accepts(round) == round = CurrentRound(state) /\ round < shape.num_rounds

(* The driver reads the first of the challenges it gets: an empty vector is *)
(* an index out of bounds.                                                  *)
GivesChallenge(round) == Accepts(round) /\ shape.num_challenges[round + 1] = 1

Take(circuit, x) ==
  /\ vc' = circuit
  /\ state' = x.state
  /\ transcript' = x.transcript
  /\ oracle' = x.oracle
  /\ UNCHANGED <<shape, key, dims, rhos, U, verifier>>

NifsPoly(t) == Poly(<<"nifs", t>>, claim[1])

NifsRound ==
  LET t == Len(r_b)
      circuit == [vc EXCEPT !.nifs_polys[t + 1] = NifsPoly(t)]
      x == Outcome(circuit, t)
      r_t == x.challenges[1]
  IN  /\ stage = "nifs"
      /\ GivesChallenge(t)
      /\ Take(circuit, x)
      /\ r_b' = Append(r_b, r_t)
      /\ claim' = <<EvalAt(NifsPoly(t), r_t)>>
      /\ stage' = IF t + 1 = dims.nb THEN "nifs_final" ELSE "nifs"
      /\ UNCHANGED <<r_x, r, r_y>>

EqRho == <<"eq", r_b, rhos>>

(* T_out is the claim divided by acc_eq; the outer sum-check starts from it *)
(* in the step branch and from zero in the core branch.                     *)
NifsFinal ==
  LET T_out == <<"divided", claim[1], EqRho>>
      circuit == [vc EXCEPT !.t_out_step = T_out, !.eq_rho_at_rb = EqRho]
      round == dims.nb
  IN  /\ stage = "nifs_final"
      /\ Accepts(round)
      /\ Take(circuit, Outcome(circuit, round))
      /\ claim' = <<T_out, Zero>>
      /\ stage' = "outer"
      /\ UNCHANGED <<r_b, r_x, r, r_y>>

OuterStartIndex == dims.nb + 1

BranchPoly(kind, b, i) == Poly(<<kind, b, i>>, claim[b])

OuterRound ==
  LET i == Len(r_x)
      circuit == [vc EXCEPT !.outer_polys[i + 1] = [b \in Branches |-> BranchPoly("outer", b, i)]]
      round == OuterStartIndex + i
      x == Outcome(circuit, round)
      r_i == x.challenges[1]
  IN  /\ stage = "outer"
      /\ GivesChallenge(round)
      /\ Take(circuit, x)
      /\ r_x' = Append(r_x, r_i)
      /\ claim' = [b \in Branches |-> EvalAt(BranchPoly("outer", b, i), r_i)]
      /\ stage' = IF i + 1 = dims.nx THEN "outer_final" ELSE "outer"
      /\ UNCHANGED <<r_b, r, r_y>>

(* The bound polynomials are claimed, and r combines them. *)
OuterFinal ==
  LET claims == [b \in Branches |-> <<<<"Az", b, r_x>>, <<"Bz", b, r_x>>, <<"Cz", b, r_x>>>>]
      circuit == [vc EXCEPT !.claims = claims, !.tau_at_rx = <<"tau", r_x>>]
      round == OuterStartIndex + dims.nx
      x == Outcome(circuit, round)
  IN  /\ stage = "outer_final"
      /\ GivesChallenge(round)
      /\ Take(circuit, x)
      /\ r' = x.challenges[1]
      /\ claim' = [b \in Branches |->
                     Joint(claims[b][1], claims[b][2], claims[b][3], x.challenges[1])]
      /\ stage' = "inner"
      /\ UNCHANGED <<r_b, r_x, r_y>>

InnerRound ==
  LET j == Len(r_y)
      circuit == [vc EXCEPT !.inner_polys[j + 1] = [b \in Branches |-> BranchPoly("inner", b, j)]]
      round == OuterStartIndex + dims.nx + 1 + j
      x == Outcome(circuit, round)
      r_j == x.challenges[1]
  IN  /\ stage = "inner"
      /\ GivesChallenge(round)
      /\ Take(circuit, x)
      /\ r_y' = Append(r_y, r_j)
      /\ claim' = [b \in Branches |-> EvalAt(BranchPoly("inner", b, j), r_j)]
      /\ stage' = IF j + 1 = dims.ny THEN "inner_final" ELSE "inner"
      /\ UNCHANGED <<r_b, r_x, r>>

EvalsAt(kind, point) == [b \in Branches |-> <<kind, b, point>>]

InnerFinal ==
  LET circuit == [vc EXCEPT !.eval_W = EvalsAt("eval_W", Tail(r_y)),
                            !.eval_X = EvalsAt("eval_X", Tail(r_y))]
      round == OuterStartIndex + dims.nx + 1 + dims.ny
  IN  /\ stage = "inner_final"
      /\ Accepts(round)
      /\ Take(circuit, Outcome(circuit, round))
      /\ stage' = "commit_w_step"
      /\ UNCHANGED <<r_b, r_x, r, r_y, claim>>

(* eval_w_step_commit_round, by which prover and verifier also find the     *)
(* commitments to the evaluations.                                          *)
EvalWStepCommitRound(d) == d.nb + 1 + d.nx + 1 + d.ny + 1

CommitW(b) ==
  LET round == OuterStartIndex + dims.nx + 1 + dims.ny + b
  IN  /\ stage = IF b = 1 THEN "commit_w_step" ELSE "commit_w_core"
      /\ Accepts(round)
      /\ Take(vc, Outcome(vc, round))
      /\ stage' = IF b = 1 THEN "commit_w_core" ELSE "finalize"
      /\ UNCHANGED <<r_b, r_x, r, r_y, claim>>

Finalize ==
  /\ stage = "finalize"
  /\ MayFinalize(state, shape)
  /\ U' = Finalized(state, shape)
  /\ stage' = "finalized"
  /\ UNCHANGED <<shape, key, dims, vc, state, transcript, oracle, rhos, r_b, r_x, r, r_y,
                 claim, verifier>>

ProverStages == {"nifs", "nifs_final", "outer", "outer_final", "inner", "inner_final",
                 "commit_w_step", "commit_w_core", "finalize"}

(* A round out of order, a missing challenge, or a field element without an *)
(* inverse: prove ends, by an error or by a panic.                          *)
ProveFails ==
  /\ stage \in ProverStages
  /\ stage' = "failed"
  /\ UNCHANGED <<shape, key, dims, vc, state, transcript, oracle, rhos, r_b, r_x, r, r_y,
                 claim, U, verifier>>

-----------------------------------------------------------------------------
(* The verifier *)

(* nb is the one of the key: verify compares the number of instances. *)
StartVerify ==
  LET x == Opening(key.nb, oracle)
  IN  /\ stage = "finalized"
      /\ LengthsValid(U, shape)
      /\ verifier' = [transcript |-> x.transcript, rhos |-> Tail(x.challenges), round |-> 0]
      /\ oracle' = x.oracle
      /\ stage' = "verify"
      /\ UNCHANGED <<shape, key, dims, vc, state, transcript, rhos, r_b, r_x, r, r_y, claim, U>>

VerifyRound ==
  LET x == ValidateRound(U, shape, verifier.round, verifier.transcript, oracle)
  IN  /\ stage = "verify"
      /\ verifier.round < shape.num_rounds
      /\ verifier' = [verifier EXCEPT !.transcript = x.transcript, !.round = @ + 1]
      /\ oracle' = x.oracle
      /\ stage' = IF x.ok THEN "verify" ELSE "rejected"
      /\ UNCHANGED <<shape, key, dims, vc, state, transcript, rhos, r_b, r_x, r, r_y, claim, U>>

(* The challenges, sliced out of the public input. *)
SliceOf(X, d) ==
  [r_b |-> SubSeq(X, 1, d.nb),
   r_x |-> SubSeq(X, d.nb + 1, d.nb + d.nx),
   r   |-> X[d.nb + d.nx + 1],
   r_y |-> SubSeq(X, d.nb + d.nx + 2, d.nb + d.nx + 1 + d.ny),
   public_values |-> SubSeq(X, d.nb + d.nx + 1 + d.ny + 1, Len(X))]

(* What the verifier recomputes. *)
ExpectedQuotient(b, s) ==
  Quotient(<<"eval", <<"inner", b, Len(s.r_y) - 1>>, s.r_y[Len(s.r_y)]>>,
           <<"eval_W", b, Tail(s.r_y)>>, <<"eval_X", b, Tail(s.r_y)>>, s.r_y[1])

ExpectedPublicValues(s, weights) ==
  <<<<"tau", s.r_x>>, <<"eval_X", 1, Tail(s.r_y)>>, <<"eval_X", 2, Tail(s.r_y)>>,
    <<"eq", s.r_b, weights>>, ExpectedQuotient(1, s), ExpectedQuotient(2, s)>>

(* The commitments to eval_W open to the evaluations of W at r_y. *)
OpensToEvaluation(b, s) ==
  LET comm == U.comm_w_per_round[EvalWStepCommitRound(key) + b]
  IN  comm.segment = [k \in 1 .. Width |-> IF k = 1 THEN <<"eval_W", b, Tail(s.r_y)>> ELSE Zero]

Conclude ==
  LET X == RegularX(U)
      s == SliceOf(X, key)
      accepted == /\ Len(X) = key.nb + key.nx + 1 + key.ny + 6
                  /\ s.public_values = ExpectedPublicValues(s, verifier.rhos)
                  /\ \A b \in Branches : OpensToEvaluation(b, s)
  IN  /\ stage = "verify"
      /\ verifier.round = shape.num_rounds
      /\ stage' = IF accepted THEN "accepted" ELSE "rejected"
      /\ UNCHANGED <<shape, key, dims, vc, state, transcript, oracle, rhos, r_b, r_x, r, r_y,
                     claim, U, verifier>>

Next ==
  \/ Start
  \/ NifsRound
  \/ NifsFinal
  \/ OuterRound
  \/ OuterFinal
  \/ InnerRound
  \/ InnerFinal
  \/ \E b \in Branches : CommitW(b)
  \/ Finalize
  \/ ProveFails
  \/ StartVerify
  \/ VerifyRound
  \/ Conclude

Spec == Init /\ [][Next]_vars

-----------------------------------------------------------------------------
(* Properties *)

TypeOK ==
  /\ key \in KeyDims
  /\ dims.nb \in CallRounds
  /\ stage \in ProverStages \cup {"start", "failed", "finalized", "verify", "accepted", "rejected"}
  /\ Len(r_b) <= dims.nb /\ Len(r_x) <= dims.nx /\ Len(r_y) <= dims.ny
  /\ CurrentRound(state) <= shape.num_rounds
  /\ Len(state.w) = Total(shape.num_vars)

(* Completeness: the values the honest prover puts into the circuit satisfy *)
(* every equation the circuit has enforced so far, so each round reads the  *)
(* variables and the challenge it is meant to read.                         *)
ChecksHold == \A check \in state.checks : check[1] = check[2]

(* Fiat-Shamir: the challenge at which a polynomial is evaluated depends,   *)
(* through the transcript, on the commitment to the round that sent the     *)
(* polynomial, and on those of all earlier rounds.                          *)
CommittedBeforeChallenged ==
  \A k \in 1 .. CurrentRound(state) : \A c \in Range(state.challenges[k]) :
    \A j \in 1 .. k :
      \E query \in Ancestry(oracle, c[2]) :
        <<"comm_w_round", state.comm_w_per_round[j]>> \in Range(query.absorbed)

(* The witness vector and the public input satisfy the padded shape: every  *)
(* variable is in the column apply_pad moved its column to, everything else *)
(* is zero, and the public input lists what the circuit allocated in the    *)
(* order in which it did.                                                   *)
WitnessMatchesShape ==
  stage = "finalized" =>
    LET column(col) == PaddedColumn(shape, col)
        used == {column(col) : col \in DOMAIN state.aux}
    IN  /\ \A col \in DOMAIN state.aux : state.w[column(col)] = state.aux[col]
        /\ \A k \in DOMAIN state.w \ used : state.w[k] = Zero
        /\ RegularX(U) = state.inputs

(* What the driver, the circuit and the verifier mean by a challenge is the *)
(* same: the verifier never rejects an instance that was finalized, and     *)
(* takes for r_b, r_x, r and r_y the challenges the prover used.  In        *)
(* particular none is finalized when prove was called on a number of        *)
(* circuits that pads to another power of two than the key's.               *)
FinalizedInstancesVerify ==
  /\ stage # "rejected"
  /\ stage \in {"finalized", "verify", "accepted"} =>
       LET s == SliceOf(RegularX(U), key)
       IN  dims = key /\ s.r_b = r_b /\ s.r_x = r_x /\ s.r = r /\ s.r_y = r_y

(* The doc of MultiRoundCircuit::rounds (traits/circuit.rs:69): challenges  *)
(* are "the challenges for this round to be allocated by this round".       *)
(* Then the public input has, after each round, the challenges of that      *)
(* round too.                                                               *)
ChallengesAreThisRounds ==
  stage \in ProverStages =>
    \A k \in 1 .. CurrentRound(state) : \A c \in Range(state.challenges[k]) :
      c \in Range(state.inputs)

=============================================================================
