-------------------------- MODULE HidingCommitment --------------------------
(***************************************************************************)
(* The algebra of the Hyrax row commitments of provider/pcs/hyrax_pc.rs,   *)
(* as the provers use it.  A row commitment is <v, ck> + r * h, so it is   *)
(* determined by the committed value v and by the combination of blinds on *)
(* h.  Blinds are sampled uniformly, hence modelled as distinct atoms; the *)
(* coefficient of h is the formal sum of the atoms in `plus` minus those   *)
(* in `minus`.  Commitments are binding, so two commitments are equal      *)
(* exactly when both parts are.                                            *)
(***************************************************************************)

Commit(v, r) == [v |-> v, plus |-> {r}, minus |-> {}]

(* A commitment opens to v under the blind r. *)
Opens(c, v, r) == c = Commit(v, r)

(* comm + h * (r_new - r_old): the old blind cancels only if it is the one  *)
(* the commitment carries.                                                 *)
RerandomizeCommitment(c, r_old, r_new) ==
  IF r_old \in c.plus
    THEN [c EXCEPT !.plus = (@ \ {r_old}) \cup {r_new}]
    ELSE [c EXCEPT !.plus = @ \cup {r_new}, !.minus = @ \cup {r_old}]

=============================================================================
