---------------------------- MODULE MCMcSession ----------------------------
(***************************************************************************)
(* Small instances of McSession.                                           *)
(***************************************************************************)
EXTENDS McSession

CONSTANTS s1, s2, w1, w2, w3, out1, out2

(* Two private inputs give the same public value under s1, so a changed     *)
(* witness need not change the public values.                               *)
MCOut == [p \in ({s1, s2} \cup {Zero}) \X {w1, w2, w3} |->
            IF p[1] # s2 /\ p[2] = w3 THEN out2 ELSE out1]

C(sh, w) == [sh |-> sh, w |-> w]
Two == [steps |-> <<C(s1, w1), C(s1, w3)>>, core |-> C(s1, w1)]

MCBatches == {
  Two,
  [Two EXCEPT !.steps[1].w = w2],                 \* same public values
  [Two EXCEPT !.steps[2].w = w2],                 \* other public values
  [Two EXCEPT !.steps[2].sh = s2],               \* a step with its own shared value
  [Two EXCEPT !.steps = Append(@, C(s1, w2))]}    \* one step more

S(p, r, c) == [precommitted |-> p, rest |-> r, challenge |-> c]
Key(n, sh, st, co, order) == [n |-> n, shared |-> sh, step |-> st, core |-> co, order |-> order]

MCKeys == {
  Key(1, TRUE, S(TRUE, FALSE, FALSE), S(TRUE, FALSE, FALSE), "values_first"),
  Key(2, TRUE, S(TRUE, FALSE, FALSE), S(TRUE, TRUE, TRUE), "values_first"),
  Key(2, TRUE, S(TRUE, TRUE, TRUE), S(FALSE, TRUE, FALSE), "values_first"),
  Key(2, FALSE, S(FALSE, TRUE, TRUE), S(TRUE, FALSE, FALSE), "values_first"),
  Key(3, TRUE, S(TRUE, FALSE, FALSE), S(TRUE, FALSE, TRUE), "values_first"),
  Key(4, TRUE, S(TRUE, TRUE, FALSE), S(TRUE, TRUE, FALSE), "values_first"),
  Key(2, TRUE, S(FALSE, TRUE, TRUE), S(TRUE, FALSE, FALSE), "challenges_first")}

(* Circuits that allocate their challenge as the comment on synthesize says. *)
DocKeys == {Key(2, TRUE, S(TRUE, TRUE, TRUE), S(TRUE, FALSE, FALSE), "challenges_first")}
DocBatches == {Two}

=============================================================================
