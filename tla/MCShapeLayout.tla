--------------------------- MODULE MCShapeLayout ---------------------------
(* Rows of two entries.  Single circuits with up to three variables in each *)
(* segment and up to five public values; pairs of a circuit with up to two  *)
(* per segment and one of a few others, with the same shared variables.     *)
EXTENDS ShapeLayout

Circuit(cons, shared, precommitted, rest, public, challenges) ==
  [cons |-> cons, shared |-> shared, precommitted |-> precommitted, rest |-> rest,
   public |-> public, challenges |-> challenges]

Single ==
  {<<Circuit(cons, s, p, w, x, c)>> : cons \in {1, 3}, s \in 0 .. 3, p \in 0 .. 3,
     w \in 0 .. 3, x \in {0, 1, 3, 5}, c \in 0 .. 1}

Pairs ==
  {<<Circuit(cons, s, p, w, x, 0), Circuit(cons_core, s, d[1], d[2], d[3], 0)>> :
     cons \in {1, 2, 5}, s \in 0 .. 2, p \in 0 .. 2, w \in 0 .. 2, x \in {0, 1, 3},
     cons_core \in {2, 3}, d \in {<<0, 0, 0>>, <<0, 1, 2>>, <<1, 3, 1>>, <<3, 0, 6>>}}

MCSetups == Single \cup Pairs

(* Circuits with something in every segment and up to seven public values;  *)
(* pairs that differ in nothing but a few constraints.                      *)
MCPublicValues == {<<Circuit(3, 1, 1, w, x, 0)>> : w \in 1 .. 3, x \in 0 .. 7}
MCConstraints ==
  {<<Circuit(cons, 1, 1, 1, 1, 0), Circuit(core, 1, 1, 1, 1, 0)>> :
     cons \in 1 .. 5, core \in 1 .. 5}

=============================================================================
