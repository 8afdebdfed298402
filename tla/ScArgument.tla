----------------------------- MODULE ScArgument -----------------------------
(***************************************************************************)
(* The interactive part of one single-circuit zero-knowledge prove, and    *)
(* the verifier's replay of it: the driver in vega_sc_zkp.rs, the two zero-*)
(* knowledge sum-checks of sumcheck.rs, and the multi-round witness of     *)
(* MultiRound.  The first inner round is run by the driver itself; the     *)
(* sum-check goes on from there with an offset.  The driver, the circuit   *)
(* and the verifier each have their own arithmetic for the index of a      *)
(* round.                                                                  *)
(***************************************************************************)
EXTENDS Naturals, Sequences, ScVerifierCircuit, MultiRound

CONSTANTS
  Dims,   \* [nx, ny] of the keys
  Width   \* commitment width of the verifier circuit

ASSUME DimsAssumption ==
  /\ Dims \subseteq [nx : Nat \ {0}, ny : Nat \ {0, 1}]
  /\ Width \in Nat \ {0}

VARIABLES
  shape,       \* pk.vc_shape
  dims,        \* the rounds of the two sum-checks
  stage,       \* the message to be sent next
  vc,          \* the verifier circuit and its fields
  state,       \* the multi-round witness
  transcript, oracle,
  taus,        \* challenges of the outer equality polynomial
  r_x, r, r_y, \* challenges the prover keeps
  claim,       \* current claim
  U,           \* U_verifier
  verifier     \* the verifier's transcript, taus and next round

vars == <<shape, dims, stage, vc, state, transcript, oracle, taus, r_x, r, r_y, claim, U,
          verifier>>

(* setup: the circuit is synthesized on its default fields. *)
SetupShape(d) ==
  LET synthesis[k \in 1 .. NumRounds(d)] ==
        Rounds(d, Width, DefaultCircuit(d), k - 1,
               [i \in 1 .. k - 1 |-> synthesis[i].vars],
               [i \in 1 .. k - 1 |-> synthesis[i].challenges], <<Zero>>)
  IN  ShapeOf(synthesis, [k \in 1 .. NumRounds(d) |-> NumChallenges(d, k - 1)], Width)

(* Both sides bind the key and the split instance, and draw the taus. *)
Opening(o) ==
  SqueezeMany(Absorb(NewTranscript, "statement", <<"U">>), "t", o, dims.nx)

Init ==
  /\ dims \in Dims
  /\ shape = SetupShape(dims)
  /\ stage = "start"
  /\ vc = DefaultCircuit(dims)
  /\ state = NewState(shape, Zero)
  /\ transcript = NewTranscript
  /\ oracle = <<>>
  /\ taus = <<>> /\ r_x = <<>> /\ r = Zero /\ r_y = <<>>
  /\ claim = Zero
  /\ U = <<>>
  /\ verifier = <<>>

Start ==
  LET x == Opening(oracle)
  IN  /\ stage = "start"
      /\ transcript' = x.transcript
      /\ oracle' = x.oracle
      /\ taus' = x.challenges
      /\ stage' = "outer"
      /\ UNCHANGED <<shape, dims, vc, state, r_x, r, r_y, claim, U, verifier>>

-----------------------------------------------------------------------------
(* One round: the filled-in circuit, at the index the driver computed *)

(* prove_quad_zk starts at the second inner round. *)
InnerStartRound == dims.nx + 2

(* Fault: the rounds after the first fill the circuit from its first entry. *)
FaultyInnerPolyOffset == 0

InnerPolyOffset == 1

(* Where prover and verifier look for the commitment to eval_W. *)
EvalWCommitRound == dims.nx + 1 + dims.ny + 1

(* The index the driver passes to process_round at each stage. *)
DriverRound ==
  CASE stage = "outer" -> Len(r_x)
    [] stage = "outer_final" -> dims.nx
    [] stage = "inner_first" -> dims.nx + 1
    [] stage = "inner" -> InnerStartRound + Len(r_y) - 1
    [] stage = "inner_final" -> (dims.nx + 1) + dims.ny
    [] stage = "commit_w" -> EvalWCommitRound

RoundStages == {"outer", "outer_final", "inner_first", "inner", "inner_final", "commit_w"}

(* The index is the expected one, and the shape has such a round; where the *)
(* driver reads the first of the challenges, there is one.                  *)
Accepts ==
  /\ DriverRound = CurrentRound(state)
  /\ DriverRound < shape.num_rounds
  /\ stage \notin {"inner_final", "commit_w"} => shape.num_challenges[DriverRound + 1] = 1

Synthesis(circuit, round) ==
  Rounds(dims, Width, circuit, round, state.vars_per_round, state.challenges_per_round,
         PassedChallenges(state, round))

Outcome(circuit) ==
  ProcessRound(state, shape, Synthesis(circuit, DriverRound), DriverRound, transcript, oracle)

Take(circuit, x) ==
  /\ Accepts
  /\ vc' = circuit
  /\ state' = x.state
  /\ transcript' = x.transcript
  /\ oracle' = x.oracle
  /\ UNCHANGED <<shape, dims, taus, U, verifier>>

RoundPoly(kind, i) == Poly(<<kind, 1, i>>, claim)

(* prove_cubic_with_additive_term_zk. *)
OuterRound ==
  LET i == Len(r_x)
      circuit == [vc EXCEPT !.outer_polys[i + 1] = RoundPoly("outer", i)]
      x == Outcome(circuit)
      r_i == x.challenges[1]
  IN  /\ stage = "outer"
      /\ Take(circuit, x)
      /\ r_x' = Append(r_x, r_i)
      /\ claim' = EvalAt(RoundPoly("outer", i), r_i)
      /\ stage' = IF i + 1 = dims.nx THEN "outer_final" ELSE "outer"
      /\ UNCHANGED <<r, r_y>>

(* The bound polynomials are claimed, and r combines them. *)
OuterFinal ==
  LET bound(M) == <<M, 1, r_x>>
      circuit == [vc EXCEPT !.claim_Az = bound("Az"), !.claim_Bz = bound("Bz"),
                            !.claim_Cz = bound("Cz"), !.tau_at_rx = <<"tau", r_x, taus>>]
      x == Outcome(circuit)
  IN  /\ stage = "outer_final"
      /\ Take(circuit, x)
      /\ r' = x.challenges[1]
      /\ claim' = Joint(bound("Az"), bound("Bz"), bound("Cz"), x.challenges[1])
      /\ stage' = "inner_first"
      /\ UNCHANGED <<r_x, r_y>>

(* One inner round, whose polynomial goes to entry j of the circuit. *)
Inner(j) ==
  LET circuit == [vc EXCEPT !.inner_polys[j + 1] = RoundPoly("inner", Len(r_y))]
      x == Outcome(circuit)
      r_j == x.challenges[1]
  IN  /\ Take(circuit, x)
      /\ r_y' = Append(r_y, r_j)
      /\ claim' = EvalAt(RoundPoly("inner", Len(r_y)), r_j)
      /\ UNCHANGED <<r_x, r>>

(* The driver's own first round, on a pair of which half is empty. *)
InnerFirst ==
  /\ stage = "inner_first"
  /\ Inner(0)
  /\ stage' = "inner"

(* prove_quad_zk for the other rounds. *)
InnerRound ==
  /\ stage = "inner"
  /\ Inner(InnerPolyOffset + Len(r_y) - 1)
  /\ stage' = IF Len(r_y) = dims.ny - 1 THEN "inner_final" ELSE "inner"

InnerFinal ==
  LET circuit == [vc EXCEPT !.eval_W = <<"eval_W", 1, Tail(r_y)>>,
                            !.eval_X = <<"eval_X", 1, Tail(r_y)>>]
  IN  /\ stage = "inner_final"
      /\ Take(circuit, Outcome(circuit))
      /\ stage' = "commit_w"
      /\ UNCHANGED <<r_x, r, r_y, claim>>

CommitW ==
  /\ stage = "commit_w"
  /\ Take(vc, Outcome(vc))
  /\ stage' = "finalize"
  /\ UNCHANGED <<r_x, r, r_y, claim>>

Finalize ==
  /\ stage = "finalize"
  /\ MayFinalize(state, shape)
  /\ U' = Finalized(state, shape)
  /\ stage' = "finalized"
  /\ UNCHANGED <<shape, dims, vc, state, transcript, oracle, taus, r_x, r, r_y, claim,
                 verifier>>

(* eval_W is a quotient by 1 - r_y[0]: the one challenge without inverse    *)
(* ends the prove with an error.                                            *)
DivisionByZero ==
  /\ stage = "inner_final"
  /\ stage' = "failed"
  /\ UNCHANGED <<shape, dims, vc, state, transcript, oracle, taus, r_x, r, r_y, claim, U,
                 verifier>>

-----------------------------------------------------------------------------
(* The verifier *)

StartVerify ==
  LET x == Opening(oracle)
  IN  /\ stage = "finalized"
      /\ LengthsValid(U, shape)
      /\ verifier' = [transcript |-> x.transcript, taus |-> x.challenges, round |-> 0]
      /\ oracle' = x.oracle
      /\ stage' = "verify"
      /\ UNCHANGED <<shape, dims, vc, state, transcript, taus, r_x, r, r_y, claim, U>>

VerifyRound ==
  LET x == ValidateRound(U, shape, verifier.round, verifier.transcript, oracle)
  IN  /\ stage = "verify"
      /\ verifier.round < shape.num_rounds
      /\ verifier' = [verifier EXCEPT !.transcript = x.transcript, !.round = @ + 1]
      /\ oracle' = x.oracle
      /\ stage' = IF x.ok THEN "verify" ELSE "rejected"
      /\ UNCHANGED <<shape, dims, vc, state, transcript, taus, r_x, r, r_y, claim, U>>

(* Fault: the slice of r_y starts at r.                                     *)
FaultySliceOf(X) ==
  [r_x |-> SubSeq(X, 1, dims.nx),
   r   |-> X[dims.nx + 1],
   r_y |-> SubSeq(X, dims.nx + 1, dims.nx + dims.ny),
   public_values |-> SubSeq(X, dims.nx + 1 + dims.ny + 1, dims.nx + 1 + dims.ny + 3)]

(* The challenges, sliced out of the public input. *)
SliceOf(X) ==
  [r_x |-> SubSeq(X, 1, dims.nx),
   r   |-> X[dims.nx + 1],
   r_y |-> SubSeq(X, dims.nx + 2, dims.nx + 1 + dims.ny),
   public_values |-> SubSeq(X, dims.nx + 1 + dims.ny + 1, dims.nx + 1 + dims.ny + 3)]

(* What the verifier recomputes. *)
ExpectedPublicValues(s) ==
  LET last == <<"eval", <<"inner", 1, Len(s.r_y) - 1>>, s.r_y[Len(s.r_y)]>>
      eval(M) == <<M, 1, Tail(s.r_y)>>
  IN  <<<<"tau", s.r_x, verifier.taus>>, eval("eval_X"),
        Quotient(last, eval("eval_W"), eval("eval_X"), s.r_y[1])>>

(* The commitment to eval_W opens to the evaluation of W at r_y. *)
OpensToEvaluation(s) ==
  U.comm_w_per_round[EvalWCommitRound + 1].segment
    = [k \in 1 .. Width |-> IF k = 1 THEN <<"eval_W", 1, Tail(s.r_y)>> ELSE Zero]

Conclude ==
  LET X == RegularX(U)
      s == SliceOf(X)
      accepted == /\ Len(X) = dims.nx + 1 + dims.ny + 3
                  /\ s.public_values = ExpectedPublicValues(s)
                  /\ OpensToEvaluation(s)
  IN  /\ stage = "verify"
      /\ verifier.round = shape.num_rounds
      /\ stage' = IF accepted THEN "accepted" ELSE "rejected"
      /\ UNCHANGED <<shape, dims, vc, state, transcript, oracle, taus, r_x, r, r_y, claim,
                     U, verifier>>

Next ==
  \/ Start
  \/ OuterRound
  \/ OuterFinal
  \/ InnerFirst
  \/ InnerRound
  \/ InnerFinal
  \/ CommitW
  \/ DivisionByZero
  \/ Finalize
  \/ StartVerify
  \/ VerifyRound
  \/ Conclude

Spec == Init /\ [][Next]_vars

-----------------------------------------------------------------------------
(* Properties *)

TypeOK ==
  /\ dims \in Dims
  /\ stage \in RoundStages \cup {"start", "failed", "finalize", "finalized",
                               "verify", "accepted", "rejected"}
  /\ Len(r_x) <= dims.nx /\ Len(r_y) <= dims.ny
  /\ CurrentRound(state) <= shape.num_rounds
  /\ Len(state.w) = Total(shape.num_vars)

(* Completeness: the values the honest prover puts into the circuit satisfy *)
(* every equation the circuit has enforced so far (zk.rs rounds), also      *)
(* across the change from the driver's own inner round to prove_quad_zk.    *)
ChecksHold == \A check \in state.checks : check[1] = check[2]

(* Fiat-Shamir: a challenge depends, through the transcript, on the taus    *)
(* and on the commitments to its own round and to all earlier ones.         *)
CommittedBeforeChallenged ==
  \A k \in 1 .. CurrentRound(state) : \A c \in Range(state.challenges[k]) :
    /\ \A j \in 1 .. k :
         \E query \in Ancestry(oracle, c[2]) :
           <<"comm_w_round", state.comm_w_per_round[j]>> \in Range(query.absorbed)
    /\ \A i \in DOMAIN taus : \E query \in Ancestry(oracle, c[2]) :
         Position(oracle, query) = taus[i][2]

(* What the driver, the circuit and the verifier mean by a round and by a   *)
(* challenge is the same: process_round never refuses an index of the       *)
(* driver nor withholds a challenge, verify accepts what was finalized, and *)
(* takes for r_x, r and r_y the challenges the prover used.                 *)
ProofsAreAccepted ==
  /\ stage # "rejected"
  /\ stage \in RoundStages => Accepts
  /\ stage = "finalize" => MayFinalize(state, shape)
  /\ stage \in {"finalized", "verify", "accepted"} =>
       LET s == SliceOf(RegularX(U))
       IN  LengthsValid(U, shape) /\ s.r_x = r_x /\ s.r = r /\ s.r_y = r_y

=============================================================================
