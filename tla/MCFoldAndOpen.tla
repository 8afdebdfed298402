--------------------------- MODULE MCFoldAndOpen ---------------------------
(***************************************************************************)
(* Small instances of FoldAndOpen over GF(7), with rows of two entries: a  *)
(* shape whose variables are no power of two and whose constraints take    *)
(* two rows, and one of four variables with one row of constraints; a      *)
(* single circuit, two steps whose rest is padding, and four with a rest.  *)
(***************************************************************************)
EXTENDS PlainArgument

(* w0 * w1 = w2, w2 * (w0 + 1) = w3, x0 * w1 = w4, w4 * w4 = x1 + w5.        *)
Entries(rows, cols, entries) ==
  [i \in 0 .. rows - 1 |-> [j \in 0 .. cols - 1 |->
     IF \E e \in entries : e[1] = i /\ e[2] = j
       THEN (CHOOSE e \in entries : e[1] = i /\ e[2] = j)[3] ELSE 0]]

SixVars ==
  [num_cons |-> 4, num_vars |-> 6, num_io |-> 2,
   A |-> Entries(4, 9, {<<0, 0, 1>>, <<1, 2, 1>>, <<2, 7, 1>>, <<3, 4, 1>>}),
   B |-> Entries(4, 9, {<<0, 1, 1>>, <<1, 0, 1>>, <<1, 6, 1>>, <<2, 1, 1>>, <<3, 4, 1>>}),
   C |-> Entries(4, 9, {<<0, 2, 1>>, <<1, 3, 1>>, <<2, 4, 1>>, <<3, 8, 1>>, <<3, 5, 1>>})]

(* w0 * w1 = w2, (w2 + x0) * 1 = w3.                                        *)
FourVars ==
  [num_cons |-> 2, num_vars |-> 4, num_io |-> 1,
   A |-> Entries(2, 6, {<<0, 0, 1>>, <<1, 2, 1>>, <<1, 5, 1>>}),
   B |-> Entries(2, 6, {<<0, 1, 1>>, <<1, 4, 1>>}),
   C |-> Entries(2, 6, {<<0, 2, 1>>, <<1, 3, 1>>})]

Vec(s) == [i \in 0 .. Len(s) - 1 |-> s[i + 1]]

SixRegular(a, b, x) ==
  LET c == Times(a, b)  d == Times(c, Plus(a, 1))  e == Times(x, b)
  IN  [W |-> Vec(<<a, b, c, d, e, 2>>), X |-> Vec(<<x, Minus(Times(e, e), 2)>>),
       r_W |-> Vec(<<3, 1, 5>>)]
FourRegular(a, b, x) ==
  [W |-> Vec(<<a, b, Times(a, b), Plus(Times(a, b), x)>>), X |-> Vec(<<x>>),
   r_W |-> Vec(<<2, 6>>)]

SixRandom == [z |-> Vec(<<3, 5, 1, 6, 2, 4, 3, 0, 5>>), r_W |-> Vec(<<1, 4, 2>>),
              r_E |-> Vec(<<6, 3>>)]
FourRandom == [z |-> Vec(<<4, 2, 6, 1, 5, 3>>), r_W |-> Vec(<<5, 3>>), r_E |-> Vec(<<4>>)]

Witness(W, r) == [W |-> Vec(W), r_W |-> Vec(r)]
Main(steps, core, r_bs, prefix, rest, point) ==
  [steps |-> steps, core |-> core, r_bs |-> r_bs, prefix |-> prefix,
   num_rest_unpadded |-> rest, point |-> point,
   eval_blinds |-> IF core = <<>> THEN <<Vec(<<2>>)>> ELSE <<Vec(<<2>>), Vec(<<5>>)>>]

OneRow == Main(<<Witness(<<3, 1>>, <<4>>)>>, <<>>, <<>>, 0, 2, <<3>>)
SingleCircuit == Main(<<Witness(<<3, 1, 4, 1, 5, 2, 6, 0>>, <<4, 0, 1, 2>>)>>,
                      <<>>, <<>>, 0, 3, <<3, 5, 2>>)
PaddedRest == Main(<<Witness(<<3, 1, 4, 0, 0, 0, 0, 0>>, <<1, 2, 3, 4>>),
                     Witness(<<2, 5, 6, 0, 0, 0, 0, 0>>, <<5, 6, 1, 2>>)>>,
                   <<Witness(<<1, 0, 2, 3, 6, 0, 0, 0>>, <<3, 0, 2, 5>>)>>, <<3>>, 4, 0, <<2, 4, 6>>)
WithRest == Main(<<Witness(<<3, 1, 4, 2>>, <<1, 2>>), Witness(<<2, 5, 6, 1>>, <<5, 6>>),
                   Witness(<<0, 0, 6, 3>>, <<2, 2>>), Witness(<<3, 1, 4, 2>>, <<1, 2>>)>>,
                 <<Witness(<<1, 0, 2, 3>>, <<3, 0>>)>>, <<3, 5>>, 2, 1, <<2, 4>>)

Job(S_, random, regular, main) ==
  [zk |-> TRUE, S |-> S_, random |-> random, regular |-> regular, main |-> main]
(* Without zero knowledge: two early segments, a challenge c and             *)
(* s * p0 = p1, p1 * (p0 + 1) = q0, q0 * c = q1, q1 * q1 = x + q2; no early  *)
(* segment; one row and no public value; and a rest that is only padding.   *)
SplitVars ==
  [num_cons |-> 4, num_vars |-> 8, num_io |-> 2,
   A |-> Entries(4, 11, {<<0, 0, 1>>, <<1, 3, 1>>, <<2, 4, 1>>, <<3, 5, 1>>}),
   B |-> Entries(4, 11, {<<0, 2, 1>>, <<1, 2, 1>>, <<1, 8, 1>>, <<2, 10, 1>>, <<3, 5, 1>>}),
   C |-> Entries(4, 11, {<<0, 3, 1>>, <<1, 4, 1>>, <<2, 5, 1>>, <<3, 9, 1>>, <<3, 6, 1>>})]
TwoVars ==
  [num_cons |-> 2, num_vars |-> 2, num_io |-> 0,
   A |-> Entries(2, 3, {<<0, 0, 1>>, <<1, 1, 1>>}),
   B |-> Entries(2, 3, {<<0, 1, 1>>, <<1, 0, 1>>}), C |-> Entries(2, 3, {<<0, 2, 1>>, <<1, 2, 1>>})]
PaddedVars ==
  [num_cons |-> 2, num_vars |-> 4, num_io |-> 1,
   A |-> Entries(2, 6, {<<0, 0, 1>>, <<1, 1, 1>>}),
   B |-> Entries(2, 6, {<<0, 1, 1>>, <<1, 4, 1>>}), C |-> Entries(2, 6, {<<0, 5, 1>>, <<1, 1, 1>>})]

Segment(label, W, r) == [label |-> label, W |-> Vec(W), r_W |-> Vec(r)]
Plain(S_, early, num_challenges, rest, r_rest, public) ==
  [zk |-> FALSE, S |-> S_, early |-> early, num_challenges |-> num_challenges,
   rest |-> rest, r_rest |-> Vec(r_rest), public |-> Vec(public), blind_eval |-> Vec(<<3>>)]
SplitRest(q0, x, c) ==
  LET q1 == Times(q0, c) IN Vec(<<q0, q1, Minus(Times(q1, q1), x), 0>>)

PlainJobs ==
  {Plain(SplitVars, <<Segment("comm_W_shared", <<3, 0>>, <<2>>),
                      Segment("comm_W_precommitted", <<2, 6>>, <<5>>)>>, 1,
         [c \in [1 .. 1 -> Field] |-> SplitRest(Times(6, 3), 4, c[1])], <<1, 6>>, <<4>>),
   Plain(FourVars, <<>>, 0, [c \in {<<>>} |-> FourRegular(4, 3, 2).W], <<4, 2>>, <<2>>),
   Plain(TwoVars, <<>>, 0, [c \in {<<>>} |-> Vec(<<3, 5>>)], <<6>>, <<>>),
   Plain(PaddedVars, <<Segment("comm_W_precommitted", <<3, 4>>, <<1>>)>>, 0,
         [c \in {<<>>} |-> Vec(<<0, 0>>)], <<5>>, <<5>>)}

MCJobs ==
  PlainJobs \cup
  {Job(SixVars, SixRandom, SixRegular(a, 2, 3), m) : a \in {1, 5}, m \in {SingleCircuit, PaddedRest}}
  \cup {Job(FourVars, FourRandom, FourRegular(a, 3, 2), m) : a \in {0, 4}, m \in {OneRow, WithRest}}

MCChallenges == {0, 1, 3}
(* The second one has a leading one, at which no evaluation of a witness can *)
(* be found from that of the assignment.                                    *)
MCPoints(n) == {[i \in 1 .. n |-> (2 * i + 1) % 7], [i \in 1 .. n |-> IF i = 1 THEN 1 ELSE 0]}
MCBlinds(n) == {[i \in 0 .. n - 1 |-> 4]}
MCMasks(n) == {[d |-> [i \in 0 .. n - 1 |-> (i + 5) % 7], r_delta |-> 2, r_beta |-> 6]}

=============================================================================
