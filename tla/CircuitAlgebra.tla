--------------------------- MODULE CircuitAlgebra ---------------------------
(***************************************************************************)
(* The helpers zk.rs shares between its two verifier circuits.  Field      *)
(* elements are symbolic, tagged tuples.  A polynomial is named and        *)
(* carries the claim it was computed for, the sum of its values at 0 and   *)
(* 1; its coefficients are one variable.  A round of a circuit returns the *)
(* witness variables and public inputs it allocates, in order, the         *)
(* variables and challenges it hands to later rounds, and the equations it *)
(* enforces.                                                               *)
(***************************************************************************)
EXTENDS Naturals, Sequences

Zero == <<"zero">>
Poly(name, claim) == <<"poly", name, claim>>
ZeroPoly == Poly(<<"zero">>, Zero)
EvalAt(poly, r) == <<"eval", poly[2], r>>
Claim(poly) == poly[3]
Joint(az, bz, cz, r) == <<"joint", az, bz, cz, r>>
Quotient(claim, eval_W, eval_X, r_y0) == <<"quotient", claim, eval_W, eval_X, r_y0>>

(* tau_at_rx * (Az * Bz - Cz) is the last value of the outer sum-check when *)
(* the four are evaluations at one point.                                   *)
OuterFinalValue(az, bz, cz, tau) ==
  LET branch == az[2]
      rx == tau[2]
  IN  IF /\ az # Zero /\ tau # Zero
         /\ az = <<"Az", branch, rx>>
         /\ bz = <<"Bz", branch, rx>>
         /\ cz = <<"Cz", branch, rx>>
        THEN <<"eval", <<"outer", branch, Len(rx) - 1>>, rx[Len(rx)]>>
        ELSE <<"not at one point">>

Synthesized(aux, inputs, vars, challenges, checks) ==
  [aux |-> aux, inputs |-> inputs, vars |-> vars, challenges |-> challenges,
   checks |-> checks]

=============================================================================
