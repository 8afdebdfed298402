------------------------- MODULE ScVerifierCircuit -------------------------
(***************************************************************************)
(* VegaVerifierCircuit of zk.rs: the verifier of the single-circuit        *)
(* argument as a circuit of many rounds.  dims is [nx, ny]: the rounds of  *)
(* the outer and of the inner sum-check.                                   *)
(***************************************************************************)
EXTENDS CircuitAlgebra

(* Indices of the rounds *)
idx_outer_final(d) == d.nx
idx_inner_start(d) == idx_outer_final(d) + 1
idx_inner_final(d) == idx_inner_start(d) + d.ny
idx_commit_w(d) == idx_inner_final(d) + 1
NumRounds(d) == idx_commit_w(d) + 1

NumChallenges(d, round) == IF round < idx_inner_final(d) THEN 1 ELSE 0

(* Fields of the circuit, zero at first. *)
DefaultCircuit(d) ==
  [outer_polys |-> [i \in 1 .. d.nx |-> ZeroPoly],
   claim_Az |-> Zero, claim_Bz |-> Zero, claim_Cz |-> Zero, tau_at_rx |-> Zero,
   inner_polys |-> [j \in 1 .. d.ny |-> ZeroPoly],
   eval_W |-> Zero, eval_X |-> Zero]

-----------------------------------------------------------------------------
(* The kinds of round.  vars[k + 1] and prev[k + 1] are what round k        *)
(* returned; chals are the challenges passed to this one.                   *)

OuterSynthesis(vc, round, vars, chals) ==
  LET poly  == vc.outer_polys[round + 1]
      claim == IF round = 0 THEN Zero ELSE EvalAt(vars[round][1], Head(chals))
  IN  Synthesized(<<poly, claim>>, IF round = 0 THEN <<>> ELSE <<Head(chals)>>,
                  <<poly>>, <<>>, {<<Claim(poly), claim>>})

OuterFinalSynthesis(vc, round, vars, chals) ==
  LET claim == EvalAt(vars[round][1], Head(chals))
      held  == <<vc.claim_Az, vc.claim_Bz, vc.claim_Cz, vc.tau_at_rx>>
  IN  Synthesized(<<claim>> \o held, <<Head(chals)>>, held, <<>>,
                  {<<claim, OuterFinalValue(held[1], held[2], held[3], held[4])>>})

InnerSynthesis(d, vc, round, vars, chals) ==
  LET j     == round - idx_inner_start(d)
      r     == Head(chals)
      poly  == vc.inner_polys[j + 1]
      outer == vars[idx_outer_final(d) + 1]
      claim == IF j = 0 THEN Joint(outer[1], outer[2], outer[3], r)
               ELSE EvalAt(vars[round][1], r)
  IN  Synthesized(<<poly, claim>>, <<r>>, <<poly>>, <<r>>, {<<Claim(poly), claim>>})

(* r_y0, returned by the second round of the inner sum-check. *)
Ry0(d, prev) == prev[idx_inner_start(d) + 2][1]

InnerFinalSynthesis(d, vc, round, vars, prev, chals) ==
  LET r     == Head(chals)
      claim == EvalAt(vars[round][1], r)
      tau   == vars[idx_outer_final(d) + 1][4]
  IN  Synthesized(<<claim, vc.eval_W>>,
                  <<r, tau, vc.eval_X, Quotient(claim, vc.eval_W, vc.eval_X, Ry0(d, prev))>>,
                  <<vc.eval_W>>, <<>>, {})

(* A round of its own for eval_W, filled up with zeros to the width of a    *)
(* commitment.                                                              *)
CommitSynthesis(vc, width, committed) ==
  Synthesized([k \in 1 .. width |-> IF k = 1 THEN vc.eval_W ELSE Zero], <<>>,
              <<vc.eval_W>>, <<>>, {<<vc.eval_W, committed>>})

Rounds(d, width, vc, round, vars, prev, chals) ==
  CASE round < idx_outer_final(d) -> OuterSynthesis(vc, round, vars, chals)
    [] round = idx_outer_final(d) -> OuterFinalSynthesis(vc, round, vars, chals)
    [] round \in idx_inner_start(d) .. idx_inner_final(d) - 1 ->
         InnerSynthesis(d, vc, round, vars, chals)
    [] round = idx_inner_final(d) -> InnerFinalSynthesis(d, vc, round, vars, prev, chals)
    [] round = idx_commit_w(d) -> CommitSynthesis(vc, width, vars[round][1])

=============================================================================
