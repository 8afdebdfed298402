-------------------------- MODULE VerifierCircuit --------------------------
(***************************************************************************)
(* VegaMcVerifierCircuit of zk.rs: the verifier of the multi-circuit       *)
(* argument as a circuit of many rounds.  dims is [nb, nx, ny]: the rounds *)
(* of NIFS, of the outer and of the inner sum-check.                       *)
(***************************************************************************)
EXTENDS CircuitAlgebra

(* Indices of the rounds *)
idx_nifs_final(d) == d.nb
idx_outer_start(d) == idx_nifs_final(d) + 1
idx_outer_final(d) == idx_outer_start(d) + d.nx
idx_inner_start(d) == idx_outer_final(d) + 1
idx_inner_final(d) == idx_inner_start(d) + d.ny
idx_commit_w_step(d) == idx_inner_final(d) + 1
idx_commit_w_core(d) == idx_commit_w_step(d) + 1
NumRounds(d) == idx_commit_w_core(d) + 1

NumChallenges(d, round) ==
  IF \/ round = idx_nifs_final(d)
     \/ round \in {idx_inner_final(d), idx_commit_w_step(d), idx_commit_w_core(d)}
    THEN 0 ELSE 1

(* Fields of the circuit, zero at first. *)
DefaultCircuit(d) ==
  [nifs_polys |-> [t \in 1 .. d.nb |-> ZeroPoly],
   t_out_step |-> Zero, eq_rho_at_rb |-> Zero, tau_at_rx |-> Zero,
   outer_polys |-> [i \in 1 .. d.nx |-> <<ZeroPoly, ZeroPoly>>],
   claims |-> <<<<Zero, Zero, Zero>>, <<Zero, Zero, Zero>>>>,
   inner_polys |-> [j \in 1 .. d.ny |-> <<ZeroPoly, ZeroPoly>>],
   eval_W |-> <<Zero, Zero>>, eval_X |-> <<Zero, Zero>>]

Branches == {1, 2}    \* step and core

-----------------------------------------------------------------------------
(* The kinds of round.  vars[k + 1] and prev[k + 1] are what round k        *)
(* returned; chals are the challenges passed to this one.                   *)

NifsSynthesis(vc, round, vars, chals) ==
  LET poly  == vc.nifs_polys[round + 1]
      claim == IF round = 0 THEN Zero ELSE EvalAt(vars[round][1], Head(chals))
  IN  Synthesized(<<poly, claim>>, IF round = 0 THEN <<>> ELSE <<Head(chals)>>,
                  <<poly>>, <<>>, {<<Claim(poly), claim>>})

NifsFinalSynthesis(vc, round, vars, chals) ==
  LET claim == EvalAt(vars[round][1], Head(chals))
  IN  Synthesized(<<claim, vc.t_out_step, vc.eq_rho_at_rb>>, <<Head(chals)>>,
                  <<vc.eq_rho_at_rb, vc.t_out_step>>, <<>>,
                  {<<vc.t_out_step, <<"divided", claim, vc.eq_rho_at_rb>>>>})

OuterSynthesis(d, vc, round, vars, chals) ==
  LET i     == round - idx_outer_start(d)
      poly  == vc.outer_polys[i + 1]
      claim == IF i = 0 THEN <<vars[round][2], Zero>>
               ELSE [b \in Branches |-> EvalAt(vars[round][b], Head(chals))]
      derived == IF i = 0 THEN <<claim[2]>> ELSE <<claim[1], claim[2]>>
  IN  Synthesized(poly \o derived, IF i = 0 THEN <<>> ELSE <<Head(chals)>>,
                  poly, <<>>, {<<Claim(poly[b]), claim[b]>> : b \in Branches})

OuterFinalSynthesis(vc, round, vars, chals) ==
  LET claim == [b \in Branches |-> EvalAt(vars[round][b], Head(chals))]
      held  == vc.claims[1] \o vc.claims[2] \o <<vc.tau_at_rx>>
      value(b) == OuterFinalValue(vc.claims[b][1], vc.claims[b][2], vc.claims[b][3],
                                  vc.tau_at_rx)
  IN  Synthesized(<<claim[1], claim[2]>> \o held, <<Head(chals)>>, held, <<>>,
                  {<<claim[b], value(b)>> : b \in Branches})

InnerSynthesis(d, vc, round, vars, chals) ==
  LET j     == round - idx_inner_start(d)
      r     == Head(chals)
      poly  == vc.inner_polys[j + 1]
      outer == vars[idx_outer_final(d) + 1]
      claim == [b \in Branches |->
                 IF j = 0 THEN Joint(outer[3 * b - 2], outer[3 * b - 1], outer[3 * b], r)
                 ELSE EvalAt(vars[round][b], r)]
  IN  Synthesized(poly \o <<claim[1], claim[2]>>, <<r>>, poly, <<r>>,
                  {<<Claim(poly[b]), claim[b]>> : b \in Branches})

(* Fault: the first challenge of the inner sum-check is taken one round     *)
(* early, where r is returned.                                              *)
FaultyRy0(d, prev) == prev[idx_inner_start(d) + 1][1]

(* r_y0, returned by the second round of the inner sum-check. *)
Ry0(d, prev) == prev[idx_inner_start(d) + 2][1]

InnerFinalSynthesis(d, vc, round, vars, prev, chals) ==
  LET r     == Head(chals)
      tau   == vars[idx_outer_final(d) + 1][7]
      eq    == vars[idx_nifs_final(d) + 1][1]
      claim == [b \in Branches |-> EvalAt(vars[round][b], r)]
      quotient(b) == Quotient(claim[b], vc.eval_W[b], vc.eval_X[b], Ry0(d, prev))
  IN  Synthesized(<<claim[1], claim[2]>> \o vc.eval_W,
                  <<r, tau>> \o vc.eval_X \o <<eq, quotient(1), quotient(2)>>,
                  vc.eval_W, <<>>, {})

(* A round of its own for each eval_W, filled up with zeros to the width of *)
(* a commitment.                                                            *)
CommitSynthesis(vc, width, b, committed) ==
  Synthesized([k \in 1 .. width |-> IF k = 1 THEN vc.eval_W[b] ELSE Zero], <<>>, <<>>, <<>>,
              {<<vc.eval_W[b], committed>>})

Rounds(d, width, vc, round, vars, prev, chals) ==
  CASE round < d.nb -> NifsSynthesis(vc, round, vars, chals)
    [] round = idx_nifs_final(d) -> NifsFinalSynthesis(vc, round, vars, chals)
    [] round \in idx_outer_start(d) .. idx_outer_final(d) - 1 ->
         OuterSynthesis(d, vc, round, vars, chals)
    [] round = idx_outer_final(d) -> OuterFinalSynthesis(vc, round, vars, chals)
    [] round \in idx_inner_start(d) .. idx_inner_final(d) - 1 ->
         InnerSynthesis(d, vc, round, vars, chals)
    [] round = idx_inner_final(d) -> InnerFinalSynthesis(d, vc, round, vars, prev, chals)
    [] round = idx_commit_w_step(d) -> CommitSynthesis(vc, width, 1, vars[round][1])
    [] round = idx_commit_w_core(d) -> CommitSynthesis(vc, width, 2, vars[round - 1][2])

=============================================================================
