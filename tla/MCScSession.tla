---------------------------- MODULE MCScSession ----------------------------
(***************************************************************************)
(* Small instances of ScSession.                                           *)
(***************************************************************************)
EXTENDS ScSession

CONSTANTS s1, w1, w2, w3, out1, out2

(* w1 and w2 give the same public value; w3, which gives another one, does  *)
(* not fit in a machine word.                                               *)
MCOut == [p \in {s1, Zero} \X {w1, w2, w3} |-> IF p[2] = w3 THEN out2 ELSE out1]

MCCircuits == {[sh |-> s1, w |-> w] : w \in {w1, w2, w3}}

Key(zk, sh, p, r, c) ==
  [zk |-> zk, shared |-> sh, precommitted |-> p, rest |-> r, challenge |-> c]

MCKeys == {
  Key(TRUE, TRUE, TRUE, TRUE, TRUE), Key(TRUE, FALSE, FALSE, TRUE, FALSE),
  Key(TRUE, TRUE, TRUE, FALSE, FALSE),
  Key(FALSE, TRUE, TRUE, TRUE, TRUE), Key(FALSE, FALSE, TRUE, FALSE, FALSE)}

=============================================================================
