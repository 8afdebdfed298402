-------------------------- MODULE McArgumentProofs --------------------------
(***************************************************************************)
(* Proofs of the invariants of McArgument, for any numbers of rounds of    *)
(* NIFS and the two sum-checks, any width, and keys and calls of different *)
(* numbers of NIFS rounds.  TypeInv counts the rounds at each stage.       *)
(* BoundInv says what each challenge depends on.  ValueInv knows the       *)
(* claims, what the circuit handed from round to round and which           *)
(* challenges the driver keeps, so that every equation enforced is between *)
(* equal values.  InputsInv and WitnessInv say where the public inputs and *)
(* the variables lie, and ReplayInv that the verifier makes the exchanges  *)
(* of the prover again.                                                    *)
(***************************************************************************)
EXTENDS McArgument, OperatorFacts

-----------------------------------------------------------------------------
(* The shape *)

(* Round k of the synthesis at setup, which reads the rounds before it in   *)
(* g.                                                                       *)
SetupRound(d, g, k) ==
  Rounds(d, Width, DefaultCircuit(d), k - 1, [i \in 1 .. k - 1 |-> g[i].vars],
         [i \in 1 .. k - 1 |-> g[i].challenges], <<Zero>>)

(* g is the table of the syntheses at setup. *)
Setups(g, d, n) == g = [k \in 1 .. n |-> SetupRound(d, g, k)]

(* The synthesis at setup can go on to any round. *)
LEMMA SetupsExist ==
  ASSUME NEW d
  PROVE  \A n \in Nat : \E g : Setups(g, d, n)
  <1> DEFINE S == {n \in Nat : \E g : Setups(g, d, n)}
  <1>1. 0 \in S
    <2>1. Setups([k \in 1 .. 0 |-> 0], d, 0)
      BY DEF Setups
    <2> QED
      BY <2>1
  <1>2. ASSUME NEW n \in Nat, n \in S PROVE n + 1 \in S
    <2>1. PICK g : Setups(g, d, n)
      BY <1>2
    <2> DEFINE h == [k \in 1 .. n + 1 |-> IF k = n + 1 THEN SetupRound(d, g, k) ELSE g[k]]
    <2>2. ASSUME NEW k \in 1 .. n + 1 PROVE h[k] = SetupRound(d, h, k)
      <3>1. \A i \in 1 .. k - 1 : h[i] = g[i]
        OBVIOUS
      <3>2. SetupRound(d, h, k) = SetupRound(d, g, k)
        <4> HIDE DEF h
        <4>1. /\ [i \in 1 .. k - 1 |-> h[i].vars] = [i \in 1 .. k - 1 |-> g[i].vars]
              /\ [i \in 1 .. k - 1 |-> h[i].challenges]
                   = [i \in 1 .. k - 1 |-> g[i].challenges]
          BY <3>1
        <4> QED
          BY <4>1, Zenon DEF SetupRound
      <3>3. CASE k = n + 1
        BY <3>2, <3>3
      <3>4. CASE k # n + 1
        <4>1. k \in 1 .. n
          BY <3>4
        <4>2. g[k] = SetupRound(d, g, k)
          BY <2>1, <4>1 DEF Setups
        <4> QED
          BY <3>2, <3>4, <4>2
      <3> QED
        BY <3>3, <3>4
    <2>3. Setups(h, d, n + 1)
      BY <2>2 DEF Setups
    <2> QED
      BY <2>3
  <1> HIDE DEF S
  <1>3. \A n \in Nat : n \in S
    BY <1>1, <1>2, NatSetInduction
  <1> QED
    BY <1>3 DEF S

(* What setup synthesizes, whatever challenges there are. *)
LEMMA SetupShapeIs ==
  ASSUME NEW d, NumRounds(d) \in Nat
  PROVE  \E g : /\ Setups(g, d, NumRounds(d))
                /\ SetupShape(d)
                     = ShapeOf(g, [k \in 1 .. NumRounds(d) |-> NumChallenges(d, k - 1)], Width)
  <1>1. \E g : Setups(g, d, NumRounds(d))
    BY SetupsExist
  <1> DEFINE c == CHOOSE g : Setups(g, d, NumRounds(d))
  <1>2. /\ Setups(c, d, NumRounds(d))
        /\ SetupShape(d)
             = ShapeOf(c, [k \in 1 .. NumRounds(d) |-> NumChallenges(d, k - 1)], Width)
    BY <1>1, Zenon DEF SetupShape, Setups, SetupRound
  <1> QED
    BY <1>2, Zenon

(* Dimensions of a key, or of a call. *)
Sized(d) ==
  /\ d.nb \in Nat /\ d.nb >= 1
  /\ d.nx \in Nat /\ d.nx >= 1
  /\ d.ny \in Nat /\ d.ny >= 2

(* The rounds of a circuit, in terms of the numbers of rounds. *)
LEMMA Indices ==
  ASSUME NEW d, Sized(d)
  PROVE  /\ idx_nifs_final(d) = d.nb
         /\ idx_outer_start(d) = d.nb + 1
         /\ idx_outer_final(d) = d.nb + 1 + d.nx
         /\ idx_inner_start(d) = d.nb + d.nx + 2
         /\ idx_inner_final(d) = d.nb + d.nx + d.ny + 2
         /\ idx_commit_w_step(d) = d.nb + d.nx + d.ny + 3
         /\ idx_commit_w_core(d) = d.nb + d.nx + d.ny + 4
         /\ NumRounds(d) = d.nb + d.nx + d.ny + 5 /\ NumRounds(d) \in Nat
  BY DEF Sized, idx_nifs_final, idx_outer_start, idx_outer_final, idx_inner_start,
         idx_inner_final, idx_commit_w_step, idx_commit_w_core, NumRounds

(* Rounds without a challenge. *)
LEMMA ChallengeRounds ==
  ASSUME NEW d, Sized(d), NEW round \in Nat
  PROVE  NumChallenges(d, round)
           = IF \/ round = d.nb
                \/ round \in {d.nb + d.nx + d.ny + 2, d.nb + d.nx + d.ny + 3,
                              d.nb + d.nx + d.ny + 4}
               THEN 0 ELSE 1
  <1>1. /\ idx_nifs_final(d) = d.nb
        /\ idx_inner_final(d) = d.nb + d.nx + d.ny + 2
        /\ idx_commit_w_step(d) = d.nb + d.nx + d.ny + 3
        /\ idx_commit_w_core(d) = d.nb + d.nx + d.ny + 4
    BY Indices
  <1> QED
    BY <1>1, Zenon DEF NumChallenges

(* Variables and public inputs a round allocates. *)
AuxLength(d, round) ==
  CASE round < d.nb -> 2
    [] round = d.nb -> 3
    [] round = d.nb + 1 -> 3
    [] round > d.nb + 1 /\ round < d.nb + 1 + d.nx -> 4
    [] round = d.nb + 1 + d.nx -> 9
    [] round > d.nb + 1 + d.nx /\ round < d.nb + d.nx + d.ny + 3 -> 4
    [] OTHER -> Width

(* How many public inputs it allocates: the challenge of the round          *)
(* before, and at the end the public values.                                *)
InputLength(d, round) ==
  CASE round = 0 \/ round = d.nb + 1 \/ round > d.nb + d.nx + d.ny + 2 -> 0
    [] round = d.nb + d.nx + d.ny + 2 -> 7
    [] OTHER -> 1

(* A synthesis allocates this many variables and public inputs. *)
Fits(synthesis, aux, inputs) ==
  /\ IsSequence(synthesis.aux) /\ Len(synthesis.aux) = aux
  /\ IsSequence(synthesis.inputs) /\ Len(synthesis.inputs) = inputs

(* Which synthesis a round is. *)
LEMMA RoundsCases ==
  ASSUME NEW d, Sized(d), NEW vc0, NEW round \in Nat, NEW held, NEW prev, NEW chals
  PROVE  /\ round < d.nb =>
              Rounds(d, Width, vc0, round, held, prev, chals)
                = NifsSynthesis(vc0, round, held, chals)
         /\ round = d.nb =>
              Rounds(d, Width, vc0, round, held, prev, chals)
                = NifsFinalSynthesis(vc0, round, held, chals)
         /\ round > d.nb /\ round < d.nb + 1 + d.nx =>
              Rounds(d, Width, vc0, round, held, prev, chals)
                = OuterSynthesis(d, vc0, round, held, chals)
         /\ round = d.nb + 1 + d.nx =>
              Rounds(d, Width, vc0, round, held, prev, chals)
                = OuterFinalSynthesis(vc0, round, held, chals)
         /\ round > d.nb + 1 + d.nx /\ round < d.nb + d.nx + d.ny + 2 =>
              Rounds(d, Width, vc0, round, held, prev, chals)
                = InnerSynthesis(d, vc0, round, held, chals)
         /\ round = d.nb + d.nx + d.ny + 2 =>
              Rounds(d, Width, vc0, round, held, prev, chals)
                = InnerFinalSynthesis(d, vc0, round, held, prev, chals)
         /\ round = d.nb + d.nx + d.ny + 3 =>
              Rounds(d, Width, vc0, round, held, prev, chals)
                = CommitSynthesis(vc0, Width, 1, held[round][1])
         /\ round = d.nb + d.nx + d.ny + 4 =>
              Rounds(d, Width, vc0, round, held, prev, chals)
                = CommitSynthesis(vc0, Width, 2, held[round - 1][2])
  <1>1. /\ d.nb \in Nat /\ d.nb >= 1 /\ d.nx \in Nat /\ d.nx >= 1 /\ d.ny \in Nat /\ d.ny >= 2
        /\ idx_nifs_final(d) = d.nb /\ idx_outer_start(d) = d.nb + 1
        /\ idx_outer_final(d) = d.nb + 1 + d.nx /\ idx_inner_start(d) = d.nb + d.nx + 2
        /\ idx_inner_final(d) = d.nb + d.nx + d.ny + 2
        /\ idx_commit_w_step(d) = d.nb + d.nx + d.ny + 3
        /\ idx_commit_w_core(d) = d.nb + d.nx + d.ny + 4
    BY Indices DEF Sized
  <1> DEFINE a == NifsSynthesis(vc0, round, held, chals)
             b == NifsFinalSynthesis(vc0, round, held, chals)
             c == OuterSynthesis(d, vc0, round, held, chals)
             e == OuterFinalSynthesis(vc0, round, held, chals)
             f == InnerSynthesis(d, vc0, round, held, chals)
             g == InnerFinalSynthesis(d, vc0, round, held, prev, chals)
             h == CommitSynthesis(vc0, Width, 1, held[round][1])
             i == CommitSynthesis(vc0, Width, 2, held[round - 1][2])
             x == Rounds(d, Width, vc0, round, held, prev, chals)
  <1>2. x = CASE round < d.nb -> a
              [] round = d.nb -> b
              [] round \in d.nb + 1 .. d.nb + 1 + d.nx - 1 -> c
              [] round = d.nb + 1 + d.nx -> e
              [] round \in d.nb + d.nx + 2 .. d.nb + d.nx + d.ny + 2 - 1 -> f
              [] round = d.nb + d.nx + d.ny + 2 -> g
              [] round = d.nb + d.nx + d.ny + 3 -> h
              [] round = d.nb + d.nx + d.ny + 4 -> i
    <2> HIDE DEF a, b, c, e, f, g, h, i
    <2>1. x = CASE round < d.nb -> a
                [] round = idx_nifs_final(d) -> b
                [] round \in idx_outer_start(d) .. idx_outer_final(d) - 1 -> c
                [] round = idx_outer_final(d) -> e
                [] round \in idx_inner_start(d) .. idx_inner_final(d) - 1 -> f
                [] round = idx_inner_final(d) -> g
                [] round = idx_commit_w_step(d) -> h
                [] round = idx_commit_w_core(d) -> i
      BY Zenon DEF Rounds, a, b, c, e, f, g, h, i
    <2> HIDE DEF x
    <2> QED
      BY <1>1, <2>1
  <1> HIDE DEF a, b, c, e, f, g, h, i, x
  <1>3. /\ round < d.nb => x = a
        /\ round = d.nb => x = b
        /\ round > d.nb /\ round < d.nb + 1 + d.nx => x = c
        /\ round = d.nb + 1 + d.nx => x = e
        /\ round > d.nb + 1 + d.nx /\ round < d.nb + d.nx + d.ny + 2 => x = f
        /\ round = d.nb + d.nx + d.ny + 2 => x = g
        /\ round = d.nb + d.nx + d.ny + 3 => x = h
        /\ round = d.nb + d.nx + d.ny + 4 => x = i
    BY <1>1, <1>2
  <1> QED
    BY <1>3, Zenon DEF a, b, c, e, f, g, h, i, x

(* What each kind of round synthesizes. *)
Yields(x, aux, inputs, held, chals, checks) ==
  /\ x.aux = aux /\ x.inputs = inputs /\ x.vars = held /\ x.challenges = chals
  /\ x.checks = checks

(* The fields of a synthesis. *)
LEMMA SynthesizedYields ==
  ASSUME NEW aux, NEW inputs, NEW held, NEW chals, NEW checks
  PROVE  Yields(Synthesized(aux, inputs, held, chals, checks), aux, inputs, held, chals, checks)
  BY DEF Synthesized, Yields

(* Also when they are written differently. *)
LEMMA YieldsAs ==
  ASSUME NEW x, NEW aux, NEW inputs, NEW held, NEW chals, NEW checks,
         x = Synthesized(aux, inputs, held, chals, checks),
         NEW aux2, NEW inputs2, NEW held2, NEW checks2,
         aux = aux2, inputs = inputs2, held = held2, checks = checks2
  PROVE  Yields(x, aux2, inputs2, held2, chals, checks2)
  BY SynthesizedYields

(* The claim a round of NIFS starts from. *)
NifsClaim(round, held, chals) ==
  IF round = 0 THEN Zero ELSE EvalAt(held[round][1], Head(chals))

(* A round of NIFS. *)
LEMMA NifsYields ==
  ASSUME NEW d, Sized(d), NEW vc0, NEW round \in Nat, round < d.nb, NEW held, NEW prev,
         NEW chals, NEW poly, poly = vc0.nifs_polys[round + 1]
  PROVE  Yields(Rounds(d, Width, vc0, round, held, prev, chals),
                <<poly, NifsClaim(round, held, chals)>>,
                IF round = 0 THEN <<>> ELSE <<Head(chals)>>,
                <<poly>>, <<>>, {<<Claim(poly), NifsClaim(round, held, chals)>>})
  <1>1. Rounds(d, Width, vc0, round, held, prev, chals) = NifsSynthesis(vc0, round, held, chals)
    BY RoundsCases
  <1>2. NifsSynthesis(vc0, round, held, chals)
          = Synthesized(<<poly, NifsClaim(round, held, chals)>>,
                        IF round = 0 THEN <<>> ELSE <<Head(chals)>>,
                        <<poly>>, <<>>, {<<Claim(poly), NifsClaim(round, held, chals)>>})
    BY Zenon DEF NifsSynthesis, NifsClaim
  <1> QED
    BY <1>1, <1>2, SynthesizedYields, Zenon

(* The final round of NIFS. *)
LEMMA NifsFinalYields ==
  ASSUME NEW d, Sized(d), NEW vc0, NEW round \in Nat, round = d.nb, NEW held, NEW prev,
         NEW chals, NEW current, current = EvalAt(held[round][1], Head(chals))
  PROVE  Yields(Rounds(d, Width, vc0, round, held, prev, chals),
                <<current, vc0.t_out_step, vc0.eq_rho_at_rb>>, <<Head(chals)>>,
                <<vc0.eq_rho_at_rb, vc0.t_out_step>>, <<>>,
                {<<vc0.t_out_step, <<"divided", current, vc0.eq_rho_at_rb>>>>})
  <1>1. Rounds(d, Width, vc0, round, held, prev, chals)
          = NifsFinalSynthesis(vc0, round, held, chals)
    BY RoundsCases
  <1>2. NifsFinalSynthesis(vc0, round, held, chals)
          = Synthesized(<<current, vc0.t_out_step, vc0.eq_rho_at_rb>>, <<Head(chals)>>,
                        <<vc0.eq_rho_at_rb, vc0.t_out_step>>, <<>>,
                        {<<vc0.t_out_step, <<"divided", current, vc0.eq_rho_at_rb>>>>})
    BY Zenon DEF NifsFinalSynthesis
  <1> QED
    BY <1>1, <1>2, SynthesizedYields, Zenon

(* Each branch of the sum-checks has one of these. *)
Pair(a, b) == [i \in Branches |-> IF i = 1 THEN a ELSE b]

(* p has two branches, and nothing else. *)
IsPair(p) == p = Pair(p[1], p[2])

(* A pair is a sequence of two. *)
LEMMA PairIs ==
  ASSUME NEW a, NEW b
  PROVE  /\ Pair(a, b)[1] = a /\ Pair(a, b)[2] = b /\ IsPair(Pair(a, b))
         /\ IsSequence(Pair(a, b)) /\ Len(Pair(a, b)) = 2 /\ Pair(a, b) = <<a, b>>
  <1> DEFINE p == Pair(a, b)
  <1>1. p[1] = a /\ p[2] = b
    BY DEF Pair, Branches
  <1>2. IsPair(p)
    BY <1>1 DEF IsPair
  <1>3. DOMAIN p = 1 .. 2 /\ p = [i \in 1 .. 2 |-> p[i]]
    <2>1. 1 .. 2 = {1, 2}
      OBVIOUS
    <2> QED
      BY <2>1 DEF Pair, Branches
  <1> HIDE DEF p
  <1>4. IsSequence(p) /\ Len(p) = 2
    BY <1>3, FunctionIsSequence
  <1>5. p = <<a, b>>
    <2> DEFINE q == <<a, b>>
    <2>1. IsSequence(q) /\ Len(q) = 2 /\ q[1] = a /\ q[2] = b
      BY Tuples
    <2> HIDE DEF q
    <2>2. p = q
      BY <1>1, <1>4, <2>1, SameSequence
    <2> QED
      BY <2>2 DEF q
  <1> QED
    BY <1>1, <1>2, <1>4, <1>5 DEF p

(* The claim of each branch in an outer round. *)
OuterClaim(d, round, held, chals, b) ==
  IF round = d.nb + 1 THEN IF b = 1 THEN held[round][2] ELSE Zero
  ELSE EvalAt(held[round][b], Head(chals))

(* The claims it derives: the first one has that of the step branch. *)
OuterDerived(d, round, held, chals) ==
  IF round = d.nb + 1 THEN <<OuterClaim(d, round, held, chals, 2)>>
  ELSE <<OuterClaim(d, round, held, chals, 1), OuterClaim(d, round, held, chals, 2)>>

(* The challenge it puts out, but the first. *)
OuterInputs(d, round, chals) == IF round = d.nb + 1 THEN <<>> ELSE <<Head(chals)>>

(* What it enforces. *)
OuterChecks(d, poly, round, held, chals) ==
  {<<Claim(poly[b]), OuterClaim(d, round, held, chals, b)>> : b \in Branches}

(* An outer round. *)
LEMMA OuterYields ==
  ASSUME NEW d, Sized(d), NEW vc0, NEW round \in Nat, round > d.nb, round < d.nb + 1 + d.nx,
         NEW held, NEW prev, NEW chals, NEW poly,
         poly = vc0.outer_polys[round - (d.nb + 1) + 1]
  PROVE  Yields(Rounds(d, Width, vc0, round, held, prev, chals),
                poly \o OuterDerived(d, round, held, chals),
                OuterInputs(d, round, chals), poly, <<>>,
                OuterChecks(d, poly, round, held, chals))
  <1> DEFINE i == round - idx_outer_start(d)
             current == IF i = 0 THEN <<held[round][2], Zero>>
                        ELSE [b \in Branches |-> EvalAt(held[round][b], Head(chals))]
             derived == IF i = 0 THEN <<current[2]>> ELSE <<current[1], current[2]>>
             x == OuterSynthesis(d, vc0, round, held, chals)
  <1>1. idx_outer_start(d) = d.nb + 1 /\ d.nb \in Nat
    BY Indices DEF Sized
  <1>2. i = 0 <=> round = d.nb + 1
    BY <1>1
  <1>3. x = Synthesized(poly \o derived, IF i = 0 THEN <<>> ELSE <<Head(chals)>>,
                        poly, <<>>, {<<Claim(poly[b]), current[b]>> : b \in Branches})
    <2> DEFINE p == vc0.outer_polys[i + 1]
    <2>1. x = Synthesized(p \o derived, IF i = 0 THEN <<>> ELSE <<Head(chals)>>,
                          p, <<>>, {<<Claim(p[b]), current[b]>> : b \in Branches})
      BY Zenon DEF OuterSynthesis
    <2>2. p = poly
      BY <1>1
    <2> HIDE DEF p, i, x, current, derived
    <2> QED
      BY <2>1, <2>2
  <1>4. \A b \in Branches : current[b] = OuterClaim(d, round, held, chals, b)
    BY <1>2 DEF OuterClaim, Branches
  <1>5. Rounds(d, Width, vc0, round, held, prev, chals) = x
    BY RoundsCases
  <1> HIDE DEF current, x, i
  <1> DEFINE checks0 == {<<Claim(poly[b]), current[b]>> : b \in Branches}
             inputs0 == IF i = 0 THEN <<>> ELSE <<Head(chals)>>
  <1>6. /\ derived = OuterDerived(d, round, held, chals)
        /\ inputs0 = OuterInputs(d, round, chals)
        /\ checks0 = OuterChecks(d, poly, round, held, chals)
    BY <1>2, <1>4 DEF Branches, OuterDerived, OuterInputs, OuterChecks
  <1>7. x = Synthesized(poly \o derived, inputs0, poly, <<>>, checks0)
    BY <1>3
  <1> HIDE DEF derived, checks0, inputs0
  <1>8. poly \o derived = poly \o OuterDerived(d, round, held, chals)
    BY <1>6
  <1>9. Yields(x, poly \o OuterDerived(d, round, held, chals), OuterInputs(d, round, chals),
               poly, <<>>, OuterChecks(d, poly, round, held, chals))
    BY <1>6, <1>7, <1>8, YieldsAs
  <1> QED
    BY <1>5, <1>9

(* What the final outer round hands on. *)
Held(vc0) == (vc0.claims[1] \o vc0.claims[2]) \o <<vc0.tau_at_rx>>

(* The claim of a branch from its last polynomial. *)
LastClaim(round, held, chals, b) == EvalAt(held[round][b], Head(chals))

(* The value that the final outer round compares it with. *)
FinalValueOf(vc0, b) ==
  OuterFinalValue(vc0.claims[b][1], vc0.claims[b][2], vc0.claims[b][3], vc0.tau_at_rx)

(* What it enforces. *)
FinalChecks(vc0, round, held, chals) ==
  {<<LastClaim(round, held, chals, b), FinalValueOf(vc0, b)>> : b \in Branches}

(* The final outer round. *)
LEMMA OuterFinalYields ==
  ASSUME NEW d, Sized(d), NEW vc0, NEW round \in Nat, round = d.nb + 1 + d.nx,
         NEW held, NEW prev, NEW chals
  PROVE  Yields(Rounds(d, Width, vc0, round, held, prev, chals),
                <<LastClaim(round, held, chals, 1), LastClaim(round, held, chals, 2)>>
                  \o Held(vc0),
                <<Head(chals)>>, Held(vc0), <<>>, FinalChecks(vc0, round, held, chals))
  <1> DEFINE current == [b \in Branches |-> EvalAt(held[round][b], Head(chals))]
             h == (vc0.claims[1] \o vc0.claims[2]) \o <<vc0.tau_at_rx>>
             value(b) == OuterFinalValue(vc0.claims[b][1], vc0.claims[b][2], vc0.claims[b][3],
                                         vc0.tau_at_rx)
             x == OuterFinalSynthesis(vc0, round, held, chals)
  <1>1. Rounds(d, Width, vc0, round, held, prev, chals) = x
    BY RoundsCases
  <1>2. x = Synthesized(<<current[1], current[2]>> \o h, <<Head(chals)>>, h, <<>>,
                        {<<current[b], value(b)>> : b \in Branches})
    BY Zenon DEF OuterFinalSynthesis
  <1>3. \A b \in Branches : current[b] = LastClaim(round, held, chals, b)
    BY DEF LastClaim
  <1>4. \A b \in Branches : value(b) = FinalValueOf(vc0, b)
    BY Zenon DEF FinalValueOf
  <1>5. h = Held(vc0)
    BY Zenon DEF Held
  <1> HIDE DEF current, value, h, x
  <1>6. /\ <<current[1], current[2]>>
             = <<LastClaim(round, held, chals, 1), LastClaim(round, held, chals, 2)>>
        /\ {<<current[b], value(b)>> : b \in Branches}
             = FinalChecks(vc0, round, held, chals)
    BY <1>3, <1>4 DEF Branches, FinalChecks
  <1>7. <<current[1], current[2]>> \o h
          = <<LastClaim(round, held, chals, 1), LastClaim(round, held, chals, 2)>> \o Held(vc0)
    BY <1>5, <1>6
  <1> DEFINE aux == <<LastClaim(round, held, chals, 1), LastClaim(round, held, chals, 2)>>
                      \o Held(vc0)
             checks == FinalChecks(vc0, round, held, chals)
             checks0 == {<<current[b], value(b)>> : b \in Branches}
  <1>8. /\ x = Synthesized(<<current[1], current[2]>> \o h, <<Head(chals)>>, h, <<>>, checks0)
        /\ <<current[1], current[2]>> \o h = aux /\ checks0 = checks
    BY <1>2, <1>6, <1>7
  <1> HIDE DEF aux, checks, checks0
  <1>9. Yields(x, aux, <<Head(chals)>>, Held(vc0), <<>>, checks)
    BY <1>5, <1>8, YieldsAs
  <1> QED
    BY <1>1, <1>9 DEF aux, checks

(* The claim of each branch in an inner round. *)
InnerClaim(d, round, held, chals, b) ==
  IF round = d.nb + d.nx + 2
    THEN Joint(held[d.nb + d.nx + 2][3 * b - 2], held[d.nb + d.nx + 2][3 * b - 1],
               held[d.nb + d.nx + 2][3 * b], Head(chals))
    ELSE EvalAt(held[round][b], Head(chals))

(* What it enforces. *)
InnerChecks(d, poly, round, held, chals) ==
  {<<Claim(poly[b]), InnerClaim(d, round, held, chals, b)>> : b \in Branches}

(* An inner round. *)
LEMMA InnerYields ==
  ASSUME NEW d, Sized(d), NEW vc0, NEW round \in Nat, round > d.nb + 1 + d.nx,
         round < d.nb + d.nx + d.ny + 2,
         NEW held, NEW prev, NEW chals, NEW poly,
         poly = vc0.inner_polys[round - (d.nb + d.nx + 2) + 1]
  PROVE  Yields(Rounds(d, Width, vc0, round, held, prev, chals),
                poly \o <<InnerClaim(d, round, held, chals, 1),
                          InnerClaim(d, round, held, chals, 2)>>, <<Head(chals)>>,
                poly, <<Head(chals)>>, InnerChecks(d, poly, round, held, chals))
  <1> DEFINE j == round - (d.nb + d.nx + 2)
             r0 == Head(chals)
             outer == held[d.nb + d.nx + 2]
             current == [b \in Branches |->
                           IF j = 0 THEN Joint(outer[3 * b - 2], outer[3 * b - 1], outer[3 * b], r0)
                           ELSE EvalAt(held[round][b], r0)]
             x == InnerSynthesis(d, vc0, round, held, chals)
  <1>1. /\ idx_inner_start(d) = d.nb + d.nx + 2 /\ idx_outer_final(d) + 1 = d.nb + d.nx + 2
        /\ d.nb \in Nat /\ d.nx \in Nat
    BY Indices DEF Sized
  <1>2. \A b \in Branches : current[b] = InnerClaim(d, round, held, chals, b)
    <2>1. j = 0 <=> round = d.nb + d.nx + 2
      BY <1>1
    <2> QED
      BY <2>1 DEF InnerClaim
  <1>3. x = Synthesized(poly \o <<current[1], current[2]>>, <<r0>>, poly, <<r0>>,
                        {<<Claim(poly[b]), current[b]>> : b \in Branches})
    BY <1>1, Zenon DEF InnerSynthesis
  <1>4. Rounds(d, Width, vc0, round, held, prev, chals) = x
    BY RoundsCases
  <1> HIDE DEF current, r0, x
  <1>5. /\ <<current[1], current[2]>>
             = <<InnerClaim(d, round, held, chals, 1), InnerClaim(d, round, held, chals, 2)>>
        /\ {<<Claim(poly[b]), current[b]>> : b \in Branches}
             = InnerChecks(d, poly, round, held, chals)
    BY <1>2 DEF Branches, InnerChecks
  <1> DEFINE aux == poly \o <<InnerClaim(d, round, held, chals, 1),
                              InnerClaim(d, round, held, chals, 2)>>
             checks == InnerChecks(d, poly, round, held, chals)
             checks0 == {<<Claim(poly[b]), current[b]>> : b \in Branches}
  <1>6. /\ x = Synthesized(poly \o <<current[1], current[2]>>, <<r0>>, poly, <<r0>>, checks0)
        /\ poly \o <<current[1], current[2]>> = aux /\ checks0 = checks
    BY <1>3, <1>5
  <1> HIDE DEF aux, checks, checks0
  <1>7. Yields(x, aux, <<r0>>, poly, <<r0>>, checks)
    BY <1>6, YieldsAs
  <1> QED
    BY <1>4, <1>7 DEF aux, checks, r0

(* The quotient a branch puts out, with r_y0 from the second inner round. *)
QuotientOf(d, vc0, round, held, prev, chals, b) ==
  Quotient(LastClaim(round, held, chals, b), vc0.eval_W[b], vc0.eval_X[b],
           prev[d.nb + d.nx + 4][1])

(* The final inner round. *)
LEMMA InnerFinalYields ==
  ASSUME NEW d, Sized(d), NEW vc0, NEW round \in Nat, round = d.nb + d.nx + d.ny + 2,
         NEW held, NEW prev, NEW chals
  PROVE  Yields(Rounds(d, Width, vc0, round, held, prev, chals),
                <<LastClaim(round, held, chals, 1), LastClaim(round, held, chals, 2)>>
                  \o vc0.eval_W,
                <<Head(chals), held[d.nb + d.nx + 2][7]>> \o vc0.eval_X
                  \o <<held[d.nb + 1][1],
                       QuotientOf(d, vc0, round, held, prev, chals, 1),
                       QuotientOf(d, vc0, round, held, prev, chals, 2)>>,
                vc0.eval_W, <<>>, {})
  <1> DEFINE current == [b \in Branches |-> EvalAt(held[round][b], Head(chals))]
             q(b) == Quotient(current[b], vc0.eval_W[b], vc0.eval_X[b], Ry0(d, prev))
             x == InnerFinalSynthesis(d, vc0, round, held, prev, chals)
  <1>1. /\ idx_inner_start(d) + 2 = d.nb + d.nx + 4 /\ idx_outer_final(d) + 1 = d.nb + d.nx + 2
        /\ idx_nifs_final(d) + 1 = d.nb + 1
    BY Indices DEF Sized
  <1>2. Rounds(d, Width, vc0, round, held, prev, chals) = x
    BY RoundsCases
  <1>3. x = Synthesized(<<current[1], current[2]>> \o vc0.eval_W,
                <<Head(chals), held[d.nb + d.nx + 2][7]>> \o vc0.eval_X
                  \o <<held[d.nb + 1][1], q(1), q(2)>>,
                vc0.eval_W, <<>>, {})
    BY <1>1, Zenon DEF InnerFinalSynthesis
  <1>4. Ry0(d, prev) = prev[d.nb + d.nx + 4][1]
    BY <1>1, Zenon DEF Ry0
  <1>5. \A b \in Branches : current[b] = LastClaim(round, held, chals, b)
    BY DEF LastClaim
  <1> HIDE DEF current, x
  <1>6. /\ current[1] = LastClaim(round, held, chals, 1)
        /\ current[2] = LastClaim(round, held, chals, 2)
    BY <1>5 DEF Branches
  <1>7. /\ q(1) = QuotientOf(d, vc0, round, held, prev, chals, 1)
        /\ q(2) = QuotientOf(d, vc0, round, held, prev, chals, 2)
    BY <1>4, <1>6, Zenon DEF QuotientOf
  <1> HIDE DEF q
  <1> QED
    BY <1>2, <1>3, <1>6, <1>7, SynthesizedYields, Zenon

(* The row of the commitment to eval_W of a branch. *)
WithZeros(e, width) == [k \in 1 .. width |-> IF k = 1 THEN e ELSE Zero]

(* The rounds that commit to eval_W. *)
LEMMA CommitYields ==
  ASSUME NEW d, Sized(d), NEW vc0, NEW round \in Nat, NEW b \in Branches,
         round = d.nb + d.nx + d.ny + 2 + b, NEW held, NEW prev, NEW chals
  PROVE  Yields(Rounds(d, Width, vc0, round, held, prev, chals),
                WithZeros(vc0.eval_W[b], Width), <<>>, <<>>, <<>>,
                {<<vc0.eval_W[b], held[d.nb + d.nx + d.ny + 3][b]>>})
  <1>1. \/ b = 1 /\ round = d.nb + d.nx + d.ny + 3
        \/ b = 2 /\ round = d.nb + d.nx + d.ny + 4 /\ round - 1 = d.nb + d.nx + d.ny + 3
    BY DEF Branches, Sized
  <1>2. Rounds(d, Width, vc0, round, held, prev, chals)
          = CommitSynthesis(vc0, Width, b, held[d.nb + d.nx + d.ny + 3][b])
    BY <1>1, RoundsCases
  <1>3. CommitSynthesis(vc0, Width, b, held[d.nb + d.nx + d.ny + 3][b])
          = Synthesized(WithZeros(vc0.eval_W[b], Width), <<>>, <<>>, <<>>,
                        {<<vc0.eval_W[b], held[d.nb + d.nx + d.ny + 3][b]>>})
    BY Zenon DEF CommitSynthesis, WithZeros
  <1> QED
    BY <1>2, <1>3, SynthesizedYields, Zenon

(* The fields have the lengths the rounds take for granted. *)
IsTriple(c) == c = <<c[1], c[2], c[3]>>

(* The fields that are pairs and triples. *)
WellFormed(vc0, d) ==
  /\ \A i \in 1 .. d.nx : IsPair(vc0.outer_polys[i])
  /\ \A j \in 1 .. d.ny : IsPair(vc0.inner_polys[j])
  /\ IsTriple(vc0.claims[1]) /\ IsTriple(vc0.claims[2])
  /\ IsPair(vc0.eval_W) /\ IsPair(vc0.eval_X)

(* The elements of what the final outer round hands on. *)
LEMMA HeldIs ==
  ASSUME NEW vc0, IsTriple(vc0.claims[1]), IsTriple(vc0.claims[2])
  PROVE  /\ IsSequence(Held(vc0)) /\ Len(Held(vc0)) = 7
         /\ \A b \in Branches : /\ Held(vc0)[3 * b - 2] = vc0.claims[b][1]
                                /\ Held(vc0)[3 * b - 1] = vc0.claims[b][2]
                                /\ Held(vc0)[3 * b] = vc0.claims[b][3]
         /\ Held(vc0)[7] = vc0.tau_at_rx
  <1> DEFINE c == vc0.claims[1]
             e == vc0.claims[2]
             t == <<vc0.tau_at_rx>>
             ce == c \o e
  <1>1. /\ IsSequence(c) /\ Len(c) = 3 /\ IsSequence(e) /\ Len(e) = 3
        /\ IsSequence(t) /\ Len(t) = 1 /\ t[1] = vc0.tau_at_rx
    <2>1. /\ c = <<c[1], c[2], c[3]>> /\ e = <<e[1], e[2], e[3]>>
      BY DEF IsTriple
    <2>2. \A a1, a2, a3 : IsSequence(<<a1, a2, a3>>) /\ Len(<<a1, a2, a3>>) = 3
      BY Tuples
    <2>3. /\ IsSequence(<<c[1], c[2], c[3]>>) /\ Len(<<c[1], c[2], c[3]>>) = 3
          /\ IsSequence(<<e[1], e[2], e[3]>>) /\ Len(<<e[1], e[2], e[3]>>) = 3
      BY <2>2, Zenon
    <2>4. IsSequence(c) /\ Len(c) = 3 /\ IsSequence(e) /\ Len(e) = 3
      <3> HIDE DEF c, e
      <3> QED
        BY <2>1, <2>3, Zenon
    <2> QED
      BY <2>4, Tuples
  <1>2. Held(vc0) = ce \o t
    BY Zenon DEF Held
  <1> HIDE DEF c, e, t
  <1>3. Concatenates(ce, c, e)
    BY <1>1, Concatenated
  <1> HIDE DEF ce
  <1>4. IsSequence(ce) /\ Len(ce) = 6 /\ ce[1] = c[1] /\ ce[2] = c[2] /\ ce[3] = c[3]
        /\ ce[4] = e[1] /\ ce[5] = e[2] /\ ce[6] = e[3]
    <2>1. /\ IsSequence(ce) /\ Len(ce) = 3 + 3
          /\ \A i \in 1 .. 3 : ce[i] = c[i]
          /\ \A i \in 1 .. 3 : ce[3 + i] = e[i]
      BY <1>1, <1>3 DEF Concatenates
    <2>2. 1 \in 1 .. 3 /\ 2 \in 1 .. 3 /\ 3 \in 1 .. 3
      OBVIOUS
    <2>3. ce[3 + 1] = e[1] /\ ce[3 + 2] = e[2] /\ ce[3 + 3] = e[3]
      BY <2>1, <2>2
    <2> QED
      BY <2>1, <2>2, <2>3
  <1>5. Concatenates(ce \o t, ce, t)
    BY <1>1, <1>4, Concatenated
  <1> DEFINE h == ce \o t
  <1> HIDE DEF h
  <1>6. IsSequence(h) /\ Len(h) = 7 /\ h[7] = vc0.tau_at_rx /\ \A i \in 1 .. 6 : h[i] = ce[i]
    <2>1. Concatenates(h, ce, t)
      BY <1>5 DEF h
    <2>2. /\ IsSequence(h) /\ Len(h) = 6 + 1
          /\ \A i \in 1 .. 6 : h[i] = ce[i]
          /\ \A i \in 1 .. 1 : h[6 + i] = t[i]
      BY <1>1, <1>4, <2>1 DEF Concatenates
    <2>3. h[6 + 1] = t[1]
      BY <2>2
    <2> QED
      BY <1>1, <2>2, <2>3
  <1>7. /\ h[1] = c[1] /\ h[2] = c[2] /\ h[3] = c[3]
        /\ h[4] = e[1] /\ h[5] = e[2] /\ h[6] = e[3]
    BY <1>4, <1>6
  <1>8. ASSUME NEW b \in Branches
        PROVE  /\ h[3 * b - 2] = vc0.claims[b][1]
               /\ h[3 * b - 1] = vc0.claims[b][2]
               /\ h[3 * b] = vc0.claims[b][3]
    <2>1. CASE b = 1
      <3>1. 3 * b - 2 = 1 /\ 3 * b - 1 = 2 /\ 3 * b = 3
        BY <2>1
      <3> QED
        BY <1>7, <2>1, <3>1 DEF c
    <2>2. CASE b = 2
      <3>1. 3 * b - 2 = 4 /\ 3 * b - 1 = 5 /\ 3 * b = 6
        BY <2>2
      <3> QED
        BY <1>7, <2>2, <3>1 DEF e
    <2> QED
      BY <2>1, <2>2 DEF Branches
  <1> QED
    BY <1>2, <1>6, <1>8 DEF h

(* A sequence of length n. *)
SequenceOf(s, n) == IsSequence(s) /\ Len(s) = n

(* Concatenation adds the lengths. *)
LEMMA JoinedLength ==
  ASSUME NEW m \in Nat, NEW n \in Nat, NEW s, SequenceOf(s, m), NEW t, SequenceOf(t, n)
  PROVE  SequenceOf(s \o t, m + n)
  <1>1. Concatenates(s \o t, s, t)
    BY Concatenated DEF SequenceOf
  <1> QED
    BY <1>1 DEF Concatenates, SequenceOf

(* How much each round allocates, when the fields are well formed. *)
LEMMA RoundsFit ==
  ASSUME NEW d, Sized(d), NEW vc0, WellFormed(vc0, d), NEW round \in Nat,
         round < NumRounds(d), NEW held, NEW prev, NEW chals
  PROVE  Fits(Rounds(d, Width, vc0, round, held, prev, chals), AuxLength(d, round),
              InputLength(d, round))
  <1>1. /\ d.nb \in Nat /\ d.nb >= 1 /\ d.nx \in Nat /\ d.nx >= 1 /\ d.ny \in Nat /\ d.ny >= 2
        /\ NumRounds(d) = d.nb + d.nx + d.ny + 5
    BY Indices DEF Sized
  <1> DEFINE x == Rounds(d, Width, vc0, round, held, prev, chals)
  <1>t. /\ \A a : SequenceOf(<<a>>, 1)
        /\ \A a, b : SequenceOf(<<a, b>>, 2)
        /\ \A a, b, c : SequenceOf(<<a, b, c>>, 3)
        /\ SequenceOf(<<>>, 0)
    BY Tuples, EmptyIsSequence DEF SequenceOf
  <1>p. ASSUME NEW p, IsPair(p)
        PROVE  SequenceOf(p, 2)
    BY <1>p, PairIs DEF IsPair, SequenceOf
  <1>j. /\ \A s, t : SequenceOf(s, 2) /\ SequenceOf(t, 1) => SequenceOf(s \o t, 3)
        /\ \A s, t : SequenceOf(s, 2) /\ SequenceOf(t, 2) => SequenceOf(s \o t, 4)
        /\ \A s, t : SequenceOf(s, 2) /\ SequenceOf(t, 7) => SequenceOf(s \o t, 9)
        /\ \A s, t : SequenceOf(s, 4) /\ SequenceOf(t, 3) => SequenceOf(s \o t, 7)
    <2>1. 2 + 1 = 3 /\ 2 + 2 = 4 /\ 2 + 7 = 9 /\ 4 + 3 = 7
      OBVIOUS
    <2>2. \A s, t : SequenceOf(s, 2) /\ SequenceOf(t, 1) => SequenceOf(s \o t, 2 + 1)
      BY JoinedLength
    <2>3. \A s, t : SequenceOf(s, 2) /\ SequenceOf(t, 2) => SequenceOf(s \o t, 2 + 2)
      BY JoinedLength
    <2>4. \A s, t : SequenceOf(s, 2) /\ SequenceOf(t, 7) => SequenceOf(s \o t, 2 + 7)
      BY JoinedLength
    <2>5. \A s, t : SequenceOf(s, 4) /\ SequenceOf(t, 3) => SequenceOf(s \o t, 4 + 3)
      BY JoinedLength
    <2> QED
      BY <2>1, <2>2, <2>3, <2>4, <2>5
  <1>2. CASE round < d.nb
    <2> DEFINE poly == vc0.nifs_polys[round + 1]
    <2>1. Yields(x, <<poly, NifsClaim(round, held, chals)>>,
                 IF round = 0 THEN <<>> ELSE <<Head(chals)>>,
                 <<poly>>, <<>>, {<<Claim(poly), NifsClaim(round, held, chals)>>})
      BY <1>2, NifsYields
    <2>2. PICK a, b, c : x.aux = <<a, b>> /\ x.inputs = IF round = 0 THEN <<>> ELSE <<c>>
      BY <2>1, Zenon DEF Yields
    <2> HIDE DEF x
    <2>3. AuxLength(d, round) = 2 /\ InputLength(d, round) = IF round = 0 THEN 0 ELSE 1
      BY <1>1, <1>2 DEF AuxLength, InputLength
    <2>4. Fits(x, AuxLength(d, round), InputLength(d, round))
      BY <1>t, <2>2, <2>3, <1>t DEF Fits, SequenceOf
    <2> QED
      BY <2>4 DEF x
  <1>3. CASE round = d.nb
    <2> DEFINE current == EvalAt(held[round][1], Head(chals))
    <2>1. Yields(x, <<current, vc0.t_out_step, vc0.eq_rho_at_rb>>, <<Head(chals)>>,
                <<vc0.eq_rho_at_rb, vc0.t_out_step>>, <<>>,
                {<<vc0.t_out_step, <<"divided", current, vc0.eq_rho_at_rb>>>>})
      BY <1>3, NifsFinalYields, Zenon
    <2> HIDE DEF x, current
    <2>2. /\ x.aux = <<current, vc0.t_out_step, vc0.eq_rho_at_rb>>
          /\ x.inputs = <<Head(chals)>>
      BY <2>1, Zenon DEF Yields
    <2>3. AuxLength(d, round) = 3 /\ InputLength(d, round) = 1
      BY <1>1, <1>3 DEF AuxLength, InputLength
    <2>4. Fits(x, AuxLength(d, round), InputLength(d, round))
      BY <1>t, <2>2, <2>3 DEF Fits, SequenceOf
    <2> QED
      BY <2>4 DEF x
  <1>4. CASE round > d.nb /\ round < d.nb + 1 + d.nx
    <2> DEFINE poly == vc0.outer_polys[round - (d.nb + 1) + 1]
               derived == OuterDerived(d, round, held, chals)
    <2> HIDE DEF poly
    <2>1. Yields(Rounds(d, Width, vc0, round, held, prev, chals),
                poly \o derived, OuterInputs(d, round, chals), poly, <<>>,
                OuterChecks(d, poly, round, held, chals))
      BY <1>4, OuterYields DEF poly
    <2>2. IsPair(poly)
      <3>1. round - (d.nb + 1) + 1 \in 1 .. d.nx
        BY <1>1, <1>4
      <3> QED
        BY <3>1 DEF WellFormed, poly
    <2>3. PICK e : x.aux = poly \o derived /\ x.inputs = IF round = d.nb + 1 THEN <<>> ELSE <<e>>
      BY <2>1, Zenon DEF Yields, OuterInputs
    <2> HIDE DEF x, poly
    <2>4. SequenceOf(derived, IF round = d.nb + 1 THEN 1 ELSE 2)
      BY <1>t DEF OuterDerived
    <2> HIDE DEF derived
    <2>5. SequenceOf(poly, 2)
      BY <1>p, <2>2
    <2>6. SequenceOf(x.aux, IF round = d.nb + 1 THEN 3 ELSE 4)
      BY <1>j, <2>3, <2>4, <2>5
    <2>7. /\ AuxLength(d, round) = (IF round = d.nb + 1 THEN 3 ELSE 4)
          /\ InputLength(d, round) = IF round = d.nb + 1 THEN 0 ELSE 1
      BY <1>1, <1>4 DEF AuxLength, InputLength
    <2>8. Fits(x, AuxLength(d, round), InputLength(d, round))
      BY <1>t, <2>3, <2>6, <2>7, <1>t DEF Fits, SequenceOf
    <2> QED
      BY <2>8 DEF x
  <1>5. CASE round = d.nb + 1 + d.nx
    <2> DEFINE c1 == LastClaim(round, held, chals, 1)
               c2 == LastClaim(round, held, chals, 2)
    <2>1. Yields(x, <<c1, c2>> \o Held(vc0), <<Head(chals)>>, Held(vc0), <<>>,
                FinalChecks(vc0, round, held, chals))
      BY <1>5, OuterFinalYields
    <2> HIDE DEF x, c1, c2
    <2>2. x.aux = <<c1, c2>> \o Held(vc0) /\ x.inputs = <<Head(chals)>>
      BY <2>1, Zenon DEF Yields
    <2>3. SequenceOf(Held(vc0), 7)
      BY HeldIs DEF WellFormed, SequenceOf
    <2>4. SequenceOf(x.aux, 9)
      BY <1>j, <1>t, <2>2, <2>3
    <2>5. AuxLength(d, round) = 9 /\ InputLength(d, round) = 1
      BY <1>1, <1>5 DEF AuxLength, InputLength
    <2>6. Fits(x, AuxLength(d, round), InputLength(d, round))
      BY <1>t, <2>2, <2>4, <2>5 DEF Fits, SequenceOf
    <2> QED
      BY <2>6 DEF x
  <1>6. CASE round > d.nb + 1 + d.nx /\ round < d.nb + d.nx + d.ny + 2
    <2> DEFINE poly == vc0.inner_polys[round - (d.nb + d.nx + 2) + 1]
               c1 == InnerClaim(d, round, held, chals, 1)
               c2 == InnerClaim(d, round, held, chals, 2)
    <2>1. Yields(x, poly \o <<c1, c2>>, <<Head(chals)>>, poly, <<Head(chals)>>,
                InnerChecks(d, poly, round, held, chals))
      BY <1>6, InnerYields
    <2>2. IsPair(poly)
      <3>1. round - (d.nb + d.nx + 2) + 1 \in 1 .. d.ny
        BY <1>1, <1>6
      <3> QED
        BY <3>1 DEF WellFormed
    <2> HIDE DEF x, c1, c2, poly
    <2>3. x.aux = poly \o <<c1, c2>> /\ x.inputs = <<Head(chals)>>
      BY <2>1, Zenon DEF Yields
    <2>4. SequenceOf(x.aux, 4)
      BY <1>j, <1>p, <1>t, <2>2, <2>3
    <2>5. AuxLength(d, round) = 4 /\ InputLength(d, round) = 1
      BY <1>1, <1>6 DEF AuxLength, InputLength
    <2>6. Fits(x, AuxLength(d, round), InputLength(d, round))
      BY <1>t, <2>3, <2>4, <2>5 DEF Fits, SequenceOf
    <2> QED
      BY <2>6 DEF x
  <1>7. CASE round = d.nb + d.nx + d.ny + 2
    <2> DEFINE c1 == LastClaim(round, held, chals, 1)
               c2 == LastClaim(round, held, chals, 2)
               r1 == Head(chals)
               tau == held[d.nb + d.nx + 2][7]
               eq == held[d.nb + 1][1]
               q1 == QuotientOf(d, vc0, round, held, prev, chals, 1)
               q2 == QuotientOf(d, vc0, round, held, prev, chals, 2)
    <2>1. Yields(x, <<c1, c2>> \o vc0.eval_W, <<r1, tau>> \o vc0.eval_X \o <<eq, q1, q2>>,
                 vc0.eval_W, <<>>, {})
      BY <1>7, InnerFinalYields
    <2> HIDE DEF x, c1, c2, r1, tau, eq, q1, q2
    <2>2. x.aux = <<c1, c2>> \o vc0.eval_W /\ x.inputs = <<r1, tau>> \o vc0.eval_X \o <<eq, q1, q2>>
      BY <2>1, Zenon DEF Yields
    <2>3. /\ SequenceOf(vc0.eval_W, 2)
          /\ SequenceOf(vc0.eval_X, 2)
      BY <1>p DEF WellFormed
    <2>4. SequenceOf(x.aux, 4)
      BY <1>j, <1>t, <2>2, <2>3
    <2>5. SequenceOf(x.inputs, 7)
      <3> DEFINE s == <<r1, tau>> \o vc0.eval_X
      <3>1. SequenceOf(s, 4)
        BY <1>j, <1>t, <2>3
      <3> HIDE DEF s
      <3>2. SequenceOf(s \o <<eq, q1, q2>>, 7)
        BY <1>j, <1>t, <3>1
      <3> QED
        BY <2>2, <3>2 DEF s
    <2>6. AuxLength(d, round) = 4 /\ InputLength(d, round) = 7
      BY <1>1, <1>7 DEF AuxLength, InputLength
    <2>7. Fits(x, AuxLength(d, round), InputLength(d, round))
      BY <2>4, <2>5, <2>6 DEF Fits, SequenceOf
    <2> QED
      BY <2>7 DEF x
  <1>8. ASSUME NEW b \in Branches, round = d.nb + d.nx + d.ny + 2 + b
        PROVE  Fits(x, AuxLength(d, round), InputLength(d, round))
    <2> DEFINE w == WithZeros(vc0.eval_W[b], Width)
    <2>1. Yields(x, w, <<>>, <<>>, <<>>,
                 {<<vc0.eval_W[b], held[d.nb + d.nx + d.ny + 3][b]>>})
      BY <1>8, CommitYields
    <2>2. x.aux = w /\ x.inputs = <<>>
      BY <2>1, Zenon DEF Yields
    <2>3. Width \in Nat
      BY KeyDimsAssumption
    <2>4. DOMAIN w = 1 .. Width /\ w = [i \in 1 .. Width |-> w[i]]
      BY DEF WithZeros
    <2> HIDE DEF w, x
    <2>5. SequenceOf(w, Width)
      BY <2>3, <2>4, FunctionIsSequence DEF SequenceOf
    <2>6. AuxLength(d, round) = Width /\ InputLength(d, round) = 0
      <3>1. b \in {1, 2}
        BY DEF Branches
      <3> QED
        BY <1>1, <1>8, <3>1 DEF AuxLength, InputLength
    <2>7. Fits(x, AuxLength(d, round), InputLength(d, round))
      BY <2>2, <2>5, <2>6, <1>t DEF Fits, SequenceOf
    <2> QED
      BY <2>7 DEF x
  <1>9. CASE round > d.nb + d.nx + d.ny + 2
    <2>1. \/ round = d.nb + d.nx + d.ny + 2 + 1
          \/ round = d.nb + d.nx + d.ny + 2 + 2
      BY <1>1, <1>9
    <2> HIDE DEF x
    <2>2. Fits(x, AuxLength(d, round), InputLength(d, round))
      BY <1>8, <2>1 DEF Branches
    <2> QED
      BY <2>2 DEF x
  <1> QED
    BY <1>1, <1>2, <1>3, <1>4, <1>5, <1>6, <1>7, <1>9

(* The circuit of setup has well-formed fields. *)
LEMMA DefaultWellFormed ==
  ASSUME NEW d
  PROVE  WellFormed(DefaultCircuit(d), d)
  <1>0. Pair(Zero, Zero) = <<Zero, Zero>> /\ Pair(ZeroPoly, ZeroPoly) = <<ZeroPoly, ZeroPoly>>
        /\ IsPair(Pair(Zero, Zero)) /\ IsPair(Pair(ZeroPoly, ZeroPoly))
    BY PairIs
  <1> DEFINE z == <<Zero, Zero, Zero>>
             c == DefaultCircuit(d)
  <1>1. /\ c.claims = <<z, z>> /\ c.eval_W = <<Zero, Zero>> /\ c.eval_X = <<Zero, Zero>>
        /\ c.outer_polys = [i \in 1 .. d.nx |-> <<ZeroPoly, ZeroPoly>>]
        /\ c.inner_polys = [j \in 1 .. d.ny |-> <<ZeroPoly, ZeroPoly>>]
    BY DEF DefaultCircuit
  <1>2. IsTriple(z)
    BY DEF IsTriple
  <1> HIDE DEF z, c
  <1>3. c.claims[1] = z /\ c.claims[2] = z
    BY <1>1
  <1>4. IsPair(c.eval_W) /\ IsPair(c.eval_X)
    BY <1>0, <1>1
  <1>5. /\ \A i \in 1 .. d.nx : IsPair(c.outer_polys[i])
        /\ \A j \in 1 .. d.ny : IsPair(c.inner_polys[j])
    BY <1>0, <1>1
  <1>6. WellFormed(c, d)
    BY <1>2, <1>3, <1>4, <1>5 DEF WellFormed
  <1> QED
    BY <1>6 DEF c

(* pk.vc_shape in terms of the numbers of rounds. *)
ShapeIs(s, d) ==
  /\ s.num_rounds = NumRounds(d) /\ s.width = Width /\ s.num_public = 6
  /\ IsSequence(s.num_vars_unpadded) /\ Len(s.num_vars_unpadded) = NumRounds(d)
  /\ IsSequence(s.num_vars) /\ Len(s.num_vars) = NumRounds(d)
  /\ Len(s.num_challenges) = NumRounds(d)
  /\ Total(s.num_challenges) = d.nb + d.nx + 1 + d.ny
  /\ \A k \in 1 .. NumRounds(d) :
       /\ s.num_vars_unpadded[k] = AuxLength(d, k - 1)
       /\ s.num_vars[k] = PadToWidth(Width, AuxLength(d, k - 1))
       /\ s.num_challenges[k] = NumChallenges(d, k - 1)

(* The shape made at setup has a place for each round, as long as what the  *)
(* round allocates, and asks for one challenge in the rounds of NIFS and of *)
(* the sum-checks and in the final outer round.                             *)
LEMMA ShapeFacts ==
  ASSUME NEW d, Sized(d)
  PROVE  ShapeIs(SetupShape(d), d)
  <1> DEFINE n == NumRounds(d)
             s == SetupShape(d)
             c == [k \in 1 .. n |-> NumChallenges(d, k - 1)]
  <1>1. /\ d.nb \in Nat /\ d.nb >= 1 /\ d.nx \in Nat /\ d.nx >= 1 /\ d.ny \in Nat /\ d.ny >= 2
        /\ n = d.nb + d.nx + d.ny + 5 /\ n \in Nat
    BY Indices DEF Sized
  <1>2. PICK g : Setups(g, d, n) /\ s = ShapeOf(g, c, Width)
    BY <1>1, SetupShapeIs
  <1> DEFINE a == [k \in DOMAIN g |-> Len(g[k].aux)]
             b == [k \in DOMAIN g |-> PadToWidth(Width, Len(g[k].aux))]
             i == [k \in DOMAIN g |-> Len(g[k].inputs)]
  <1>3. s = [num_rounds |-> Len(g), num_vars_unpadded |-> a, num_vars |-> b,
             num_challenges |-> c, num_public |-> Total(i) - Total(c), width |-> Width]
    BY <1>2, Zenon DEF ShapeOf
  <1> HIDE DEF s, n
  <1>4. /\ DOMAIN g = 1 .. n /\ g = [k \in 1 .. n |-> g[k]]
        /\ \A k \in 1 .. n : g[k] = SetupRound(d, g, k)
    BY <1>2 DEF Setups
  <1>5. ASSUME NEW k \in 1 .. n
        PROVE  Len(g[k].aux) = AuxLength(d, k - 1) /\ Len(g[k].inputs) = InputLength(d, k - 1)
    <2>1. k - 1 \in Nat /\ k - 1 < NumRounds(d)
      BY <1>1 DEF n
    <2>2. Fits(SetupRound(d, g, k), AuxLength(d, k - 1), InputLength(d, k - 1))
      BY <2>1, RoundsFit, DefaultWellFormed DEF SetupRound
    <2> QED
      BY <1>4, <2>2 DEF Fits
  <1>6. Len(g) = n
    BY <1>1, <1>4, FunctionIsSequence
  <1>7. /\ DOMAIN a = 1 .. n /\ a = [k \in 1 .. n |-> a[k]]
        /\ DOMAIN b = 1 .. n /\ b = [k \in 1 .. n |-> b[k]]
        /\ DOMAIN i = 1 .. n /\ i = [k \in 1 .. n |-> i[k]]
        /\ DOMAIN c = 1 .. n /\ c = [k \in 1 .. n |-> c[k]]
        /\ \A k \in 1 .. n : /\ a[k] = AuxLength(d, k - 1)
                             /\ b[k] = PadToWidth(Width, AuxLength(d, k - 1))
                             /\ i[k] = InputLength(d, k - 1)
                             /\ c[k] = NumChallenges(d, k - 1)
    BY <1>4, <1>5
  <1> HIDE DEF a, b, c, i
  <1>8. /\ IsSequence(a) /\ Len(a) = n /\ IsSequence(b) /\ Len(b) = n
        /\ Len(c) = n /\ Len(i) = n
    BY <1>1, <1>7, FunctionIsSequence
  <1> DEFINE m == d.nb + d.nx + d.ny + 2
  <1>9. Total(c) = d.nb + d.nx + 1 + d.ny
    <2> DEFINE h == [k \in 0 .. n |-> IF k <= d.nb THEN k ELSE IF k <= m THEN k - 1 ELSE m - 1]
    <2>1. h[0] = 0 /\ h[n] = d.nb + d.nx + 1 + d.ny
      BY SMTT(30), <1>1
    <2>2. \A k \in 1 .. n : h[k] = h[k - 1] + c[k]
      <3> SUFFICES ASSUME NEW k \in 1 .. n PROVE h[k] = h[k - 1] + c[k]
        OBVIOUS
      <3>0. k - 1 \in Nat
        BY <1>1
      <3>1. c[k] = IF k - 1 = d.nb \/ k - 1 >= m THEN 0 ELSE 1
        <4>1. c[k] = NumChallenges(d, k - 1)
          BY <1>7
        <4>2. c[k] = IF k - 1 = d.nb \/ k - 1 \in {m, m + 1, m + 2} THEN 0 ELSE 1
          BY <1>1, <3>0, <4>1, ChallengeRounds
        <4> QED
          BY <1>1, <3>0, <4>2
      <3>2. k - 1 \in 0 .. n /\ k \in 0 .. n
        BY <1>1
      <3>3. /\ h[k] = IF k <= d.nb THEN k ELSE IF k <= m THEN k - 1 ELSE m - 1
            /\ h[k - 1] = IF k - 1 <= d.nb THEN k - 1 ELSE IF k - 1 <= m THEN k - 1 - 1 ELSE m - 1
        BY <3>2
      <3> HIDE DEF h
      <3> QED
        BY <1>1, <3>1, <3>3
    <2> HIDE DEF h
    <2>3. Adds(h, c, n)
      BY <2>1, <2>2 DEF Adds
    <2>4. \A k \in 0 .. n : SumFirst(c, k) = h[k]
      BY <1>1, <2>3, SumIs
    <2>5. n \in 0 .. n
      BY <1>1
    <2> QED
      BY <1>8, <2>1, <2>4, <2>5 DEF Total
  <1>10. Total(i) = d.nb + d.nx + d.ny + 7
    <2> DEFINE h == [k \in 0 .. n |-> IF k = 0 THEN 0 ELSE IF k <= d.nb + 1 THEN k - 1
                                     ELSE IF k <= m THEN k - 2 ELSE m + 5]
    <2>1. h[0] = 0 /\ h[n] = d.nb + d.nx + d.ny + 7
      BY SMTT(30), <1>1
    <2>2. \A k \in 1 .. n : h[k] = h[k - 1] + i[k]
      <3> SUFFICES ASSUME NEW k \in 1 .. n PROVE h[k] = h[k - 1] + i[k]
        OBVIOUS
      <3>1. i[k] = IF k - 1 = 0 \/ k - 1 = d.nb + 1 \/ k - 1 > m THEN 0
                   ELSE IF k - 1 = m THEN 7 ELSE 1
        <4>1. i[k] = InputLength(d, k - 1)
          BY <1>7
        <4> QED
          BY <4>1, <1>1 DEF InputLength
      <3>2. k - 1 \in 0 .. n /\ k \in 0 .. n /\ k # 0
        BY <1>1
      <3>3. /\ h[k] = IF k <= d.nb + 1 THEN k - 1 ELSE IF k <= m THEN k - 2 ELSE m + 5
            /\ h[k - 1] = IF k - 1 = 0 THEN 0 ELSE IF k - 1 <= d.nb + 1 THEN k - 1 - 1
                          ELSE IF k - 1 <= m THEN k - 1 - 2 ELSE m + 5
        BY <3>2
      <3> HIDE DEF h
      <3> QED
        BY <1>1, <3>1, <3>3
    <2> HIDE DEF h
    <2>3. Adds(h, i, n)
      BY <2>1, <2>2 DEF Adds
    <2>4. \A k \in 0 .. n : SumFirst(i, k) = h[k]
      BY <1>1, <2>3, SumIs
    <2>5. n \in 0 .. n
      BY <1>1
    <2> QED
      BY <1>8, <2>1, <2>4, <2>5 DEF Total
  <1>11. /\ s.num_rounds = Len(g) /\ s.num_vars_unpadded = a /\ s.num_vars = b
         /\ s.num_challenges = c /\ s.num_public = Total(i) - Total(c) /\ s.width = Width
    BY <1>3
  <1>12. s.num_public = 6
    BY <1>1, <1>9, <1>10, <1>11
  <1>13. ShapeIs(s, d)
    BY <1>6, <1>7, <1>8, <1>9, <1>11, <1>12 DEF ShapeIs, n
  <1> QED
    BY <1>13 DEF s

-----------------------------------------------------------------------------
(* The rounds of the prover *)

(* The circuit each round leaves. *)
NifsFilled == [vc EXCEPT !.nifs_polys[Len(r_b) + 1] = NifsPoly(Len(r_b))]

(* The claim NIFS ends with. *)
TOut == <<"divided", claim[1], EqRho>>

(* The circuit after the final round of NIFS. *)
NifsFinalFilled == [vc EXCEPT !.t_out_step = TOut, !.eq_rho_at_rb = EqRho]

(* The polynomials of the two branches, and the circuit after an outer      *)
(* round.                                                                   *)
PolyPair(kind, i) == [b \in Branches |-> BranchPoly(kind, b, i)]
OuterFilled == [vc EXCEPT !.outer_polys[Len(r_x) + 1] = PolyPair("outer", Len(r_x))]

(* The claims after the outer sum-check, and the circuit with them. *)
Claimed == [b \in Branches |-> <<<<"Az", b, r_x>>, <<"Bz", b, r_x>>, <<"Cz", b, r_x>>>>]
OuterFinalFilled == [vc EXCEPT !.claims = Claimed, !.tau_at_rx = <<"tau", r_x>>]

(* The circuit after an inner round, and after the final one. *)
InnerFilled == [vc EXCEPT !.inner_polys[Len(r_y) + 1] = PolyPair("inner", Len(r_y))]
InnerFinalFilled == [vc EXCEPT !.eval_W = EvalsAt("eval_W", Tail(r_y)),
                               !.eval_X = EvalsAt("eval_X", Tail(r_y))]

(* The next round, what it synthesizes, and its exchange. *)
Now == CurrentRound(state)
Syn(circuit) == Synthesis(circuit, Now)
Made(circuit) == RoundExchange(state, shape, Syn(circuit), Now, transcript, oracle)

(* The round gives a challenge. *)
Gives == shape.num_challenges[Now + 1] = 1

(* One round of the prover with its circuit filled in. *)
Rounded(circuit, x) ==
  /\ Now < shape.num_rounds
  /\ Processed(x, Made(circuit), state, shape, Syn(circuit), Now)
  /\ vc' = circuit /\ state' = x.state /\ transcript' = x.transcript /\ oracle' = x.oracle
  /\ UNCHANGED <<shape, key, dims, rhos, U, verifier>>

(* Take is one round of the multi-round witness. *)
LEMMA TakeIs ==
  ASSUME NEW circuit, NEW round, Accepts(round), Take(circuit, Outcome(circuit, round))
  PROVE  round = Now /\ Rounded(circuit, Outcome(circuit, round))
  <1> DEFINE x == Outcome(circuit, round)
  <1>1. /\ vc' = circuit /\ state' = x.state /\ transcript' = x.transcript
        /\ oracle' = x.oracle /\ UNCHANGED <<shape, key, dims, rhos, U, verifier>>
    BY Zenon DEF Take
  <1>2. round = Now /\ round < shape.num_rounds
    BY Zenon DEF Accepts, Now
  <1>3. x = ProcessRound(state, shape, Syn(circuit), Now, transcript, oracle)
    BY <1>2, Zenon DEF Outcome, Syn
  <1> HIDE DEF x
  <1>4. Processed(x, Made(circuit), state, shape, Syn(circuit), Now)
    BY <1>3, ProcessRoundIs, Zenon DEF Made
  <1>5. Now < shape.num_rounds
    BY <1>2
  <1> QED
    BY <1>1, <1>2, <1>4, <1>5, Zenon DEF Rounded, x

(* A round that gives a challenge is accepted. *)
LEMMA GivesIs ==
  ASSUME NEW round, GivesChallenge(round)
  PROVE  Accepts(round) /\ Gives
  BY Zenon DEF GivesChallenge, Accepts, Gives, Now

(* Each action is such a round. *)
NifsTaken(x) ==
  /\ stage = "nifs" /\ Now = Len(r_b) /\ Gives /\ Rounded(NifsFilled, x)
  /\ r_b' = Append(r_b, x.challenges[1])
  /\ claim' = <<EvalAt(NifsPoly(Len(r_b)), x.challenges[1])>>
  /\ stage' = IF Len(r_b) + 1 = dims.nb THEN "nifs_final" ELSE "nifs"
  /\ UNCHANGED <<r_x, r, r_y>>

(* A round of NIFS. *)
LEMMA NifsRoundIs ==
  ASSUME NifsRound
  PROVE  \E x : NifsTaken(x)
  <1> DEFINE x == Outcome(NifsFilled, Len(r_b))
  <1>1. /\ stage = "nifs" /\ GivesChallenge(Len(r_b)) /\ Take(NifsFilled, x)
        /\ r_b' = Append(r_b, x.challenges[1])
        /\ claim' = <<EvalAt(NifsPoly(Len(r_b)), x.challenges[1])>>
        /\ stage' = IF Len(r_b) + 1 = dims.nb THEN "nifs_final" ELSE "nifs"
        /\ UNCHANGED <<r_x, r, r_y>>
    BY Zenon DEF NifsRound, NifsFilled
  <1>2. Now = Len(r_b) /\ Gives /\ Rounded(NifsFilled, x)
    BY <1>1, TakeIs, GivesIs, Zenon
  <1> QED
    BY <1>1, <1>2, Zenon DEF NifsTaken

(* The final round of NIFS. *)
NifsFinalTaken(x) ==
  /\ stage = "nifs_final" /\ Now = dims.nb /\ Rounded(NifsFinalFilled, x)
  /\ claim' = <<TOut, Zero>>
  /\ stage' = "outer"
  /\ UNCHANGED <<r_b, r_x, r, r_y>>

(* So is that action. *)
LEMMA NifsFinalIs ==
  ASSUME NifsFinal
  PROVE  \E x : NifsFinalTaken(x)
  <1> DEFINE x == Outcome(NifsFinalFilled, dims.nb)
  <1>1. /\ stage = "nifs_final" /\ Accepts(dims.nb) /\ Take(NifsFinalFilled, x)
        /\ claim' = <<TOut, Zero>> /\ stage' = "outer"
        /\ UNCHANGED <<r_b, r_x, r, r_y>>
    BY Zenon DEF NifsFinal, NifsFinalFilled, TOut
  <1>2. Now = dims.nb /\ Rounded(NifsFinalFilled, x)
    BY <1>1, TakeIs, Zenon
  <1> QED
    BY <1>1, <1>2, Zenon DEF NifsFinalTaken

(* The claim of each branch after a round of a sum-check. *)
NextClaim(kind, i, c) == [b \in Branches |-> EvalAt(BranchPoly(kind, b, i), c)]

(* A round of the outer sum-check. *)
OuterTaken(x) ==
  /\ stage = "outer" /\ Now = OuterStartIndex + Len(r_x) /\ Gives /\ Rounded(OuterFilled, x)
  /\ r_x' = Append(r_x, x.challenges[1])
  /\ claim' = NextClaim("outer", Len(r_x), x.challenges[1])
  /\ stage' = IF Len(r_x) + 1 = dims.nx THEN "outer_final" ELSE "outer"
  /\ UNCHANGED <<r_b, r, r_y>>

(* So is that action. *)
LEMMA OuterRoundIs ==
  ASSUME OuterRound
  PROVE  \E x : OuterTaken(x)
  <1> DEFINE round == OuterStartIndex + Len(r_x)
             x == Outcome(OuterFilled, round)
  <1>1. /\ stage = "outer" /\ GivesChallenge(round) /\ Take(OuterFilled, x)
        /\ r_x' = Append(r_x, x.challenges[1])
        /\ claim' = NextClaim("outer", Len(r_x), x.challenges[1])
        /\ stage' = IF Len(r_x) + 1 = dims.nx THEN "outer_final" ELSE "outer"
        /\ UNCHANGED <<r_b, r, r_y>>
    BY Zenon DEF OuterRound, OuterFilled, PolyPair, NextClaim
  <1>2. Now = round /\ Gives /\ Rounded(OuterFilled, x)
    BY <1>1, TakeIs, GivesIs, Zenon
  <1> QED
    BY <1>1, <1>2, Zenon DEF OuterTaken

(* What the inner sum-check starts from. *)
JointClaim(c) == [b \in Branches |-> Joint(Claimed[b][1], Claimed[b][2], Claimed[b][3], c)]

(* The final round of the outer sum-check. *)
OuterFinalTaken(x) ==
  /\ stage = "outer_final" /\ Now = OuterStartIndex + dims.nx /\ Gives
  /\ Rounded(OuterFinalFilled, x)
  /\ r' = x.challenges[1]
  /\ claim' = JointClaim(x.challenges[1])
  /\ stage' = "inner"
  /\ UNCHANGED <<r_b, r_x, r_y>>

(* So is that action. *)
LEMMA OuterFinalIs ==
  ASSUME OuterFinal
  PROVE  \E x : OuterFinalTaken(x)
  <1> DEFINE round == OuterStartIndex + dims.nx
             x == Outcome(OuterFinalFilled, round)
  <1>1. /\ stage = "outer_final" /\ GivesChallenge(round) /\ Take(OuterFinalFilled, x)
        /\ r' = x.challenges[1] /\ claim' = JointClaim(x.challenges[1])
        /\ stage' = "inner" /\ UNCHANGED <<r_b, r_x, r_y>>
    BY Zenon DEF OuterFinal, OuterFinalFilled, Claimed, JointClaim
  <1>2. Now = round /\ Gives /\ Rounded(OuterFinalFilled, x)
    BY <1>1, TakeIs, GivesIs, Zenon
  <1> QED
    BY <1>1, <1>2, Zenon DEF OuterFinalTaken

(* A round of the inner sum-check. *)
InnerTaken(x) ==
  /\ stage = "inner" /\ Now = OuterStartIndex + dims.nx + 1 + Len(r_y) /\ Gives
  /\ Rounded(InnerFilled, x)
  /\ r_y' = Append(r_y, x.challenges[1])
  /\ claim' = NextClaim("inner", Len(r_y), x.challenges[1])
  /\ stage' = IF Len(r_y) + 1 = dims.ny THEN "inner_final" ELSE "inner"
  /\ UNCHANGED <<r_b, r_x, r>>

(* So is that action. *)
LEMMA InnerRoundIs ==
  ASSUME InnerRound
  PROVE  \E x : InnerTaken(x)
  <1> DEFINE round == OuterStartIndex + dims.nx + 1 + Len(r_y)
             x == Outcome(InnerFilled, round)
  <1>1. /\ stage = "inner" /\ GivesChallenge(round) /\ Take(InnerFilled, x)
        /\ r_y' = Append(r_y, x.challenges[1])
        /\ claim' = NextClaim("inner", Len(r_y), x.challenges[1])
        /\ stage' = IF Len(r_y) + 1 = dims.ny THEN "inner_final" ELSE "inner"
        /\ UNCHANGED <<r_b, r_x, r>>
    BY Zenon DEF InnerRound, InnerFilled, PolyPair, NextClaim
  <1>2. Now = round /\ Gives /\ Rounded(InnerFilled, x)
    BY <1>1, TakeIs, GivesIs, Zenon
  <1> QED
    BY <1>1, <1>2, Zenon DEF InnerTaken

(* The final round of the inner sum-check. *)
InnerFinalTaken(x) ==
  /\ stage = "inner_final" /\ Now = OuterStartIndex + dims.nx + 1 + dims.ny
  /\ Rounded(InnerFinalFilled, x)
  /\ stage' = "commit_w_step"
  /\ UNCHANGED <<r_b, r_x, r, r_y, claim>>

(* So is that action. *)
LEMMA InnerFinalIs ==
  ASSUME InnerFinal
  PROVE  \E x : InnerFinalTaken(x)
  <1> DEFINE round == OuterStartIndex + dims.nx + 1 + dims.ny
             x == Outcome(InnerFinalFilled, round)
  <1>1. /\ stage = "inner_final" /\ Accepts(round) /\ Take(InnerFinalFilled, x)
        /\ stage' = "commit_w_step" /\ UNCHANGED <<r_b, r_x, r, r_y, claim>>
    BY Zenon DEF InnerFinal, InnerFinalFilled
  <1>2. Now = round /\ Rounded(InnerFinalFilled, x)
    BY <1>1, TakeIs, Zenon
  <1> QED
    BY <1>1, <1>2, Zenon DEF InnerFinalTaken

(* The rounds that commit to the evaluations. *)
CommitTaken(b, x) ==
  /\ stage = (IF b = 1 THEN "commit_w_step" ELSE "commit_w_core")
  /\ Now = OuterStartIndex + dims.nx + 1 + dims.ny + b
  /\ Rounded(vc, x)
  /\ stage' = IF b = 1 THEN "commit_w_core" ELSE "finalize"
  /\ UNCHANGED <<r_b, r_x, r, r_y, claim>>

(* So are those actions. *)
LEMMA CommitWIs ==
  ASSUME NEW b, CommitW(b)
  PROVE  \E x : CommitTaken(b, x)
  <1> DEFINE round == OuterStartIndex + dims.nx + 1 + dims.ny + b
             x == Outcome(vc, round)
  <1>1. /\ stage = (IF b = 1 THEN "commit_w_step" ELSE "commit_w_core")
        /\ Accepts(round) /\ Take(vc, x)
        /\ stage' = IF b = 1 THEN "commit_w_core" ELSE "finalize"
        /\ UNCHANGED <<r_b, r_x, r, r_y, claim>>
    BY Zenon DEF CommitW
  <1>2. Now = round /\ Rounded(vc, x)
    BY <1>1, TakeIs, Zenon
  <1> QED
    BY <1>1, <1>2, Zenon DEF CommitTaken

-----------------------------------------------------------------------------
(* Type correctness *)

(* How far the prover is at each stage. *)
Counted(n, b, x, y) == Now = n /\ Len(r_b) = b /\ Len(r_x) = x /\ Len(r_y) = y

(* The prover is done with its rounds. *)
LateStages == {"finalize", "finalized", "verify", "accepted", "rejected"}

(* The counts at each stage. *)
Counts ==
  /\ stage = "start" => Counted(0, 0, 0, 0)
  /\ stage = "nifs" => Counted(Len(r_b), Len(r_b), 0, 0) /\ Len(r_b) < dims.nb
  /\ stage = "nifs_final" => Counted(dims.nb, dims.nb, 0, 0)
  /\ stage = "outer" =>
       Counted(dims.nb + 1 + Len(r_x), dims.nb, Len(r_x), 0) /\ Len(r_x) < dims.nx
  /\ stage = "outer_final" => Counted(dims.nb + 1 + dims.nx, dims.nb, dims.nx, 0)
  /\ stage = "inner" =>
       Counted(dims.nb + dims.nx + 2 + Len(r_y), dims.nb, dims.nx, Len(r_y)) /\ Len(r_y) < dims.ny
  /\ stage = "inner_final" => Counted(dims.nb + dims.nx + dims.ny + 2, dims.nb, dims.nx, dims.ny)
  /\ stage = "commit_w_step" => Counted(dims.nb + dims.nx + dims.ny + 3, dims.nb, dims.nx, dims.ny)
  /\ stage = "commit_w_core" => Counted(dims.nb + dims.nx + dims.ny + 4, dims.nb, dims.nx, dims.ny)
  /\ stage \in LateStages => Counted(dims.nb + dims.nx + dims.ny + 5, dims.nb, dims.nx, dims.ny)
  /\ Len(r_b) <= dims.nb /\ Len(r_x) <= dims.nx /\ Len(r_y) <= dims.ny

(* The keys and the calls. *)
KeyOK ==
  /\ key \in KeyDims /\ dims.nb \in CallRounds
  /\ dims = [key EXCEPT !.nb = dims.nb]
  /\ shape = SetupShape(key)

(* The inductive invariant behind TypeOK: also the shape is the one of      *)
(* setup.                                                                   *)
TypeInv ==
  /\ KeyOK
  /\ stage \in ProverStages \cup {"start", "failed", "finalized", "verify", "accepted",
                                  "rejected"}
  /\ IsSequence(state.challenges) /\ IsSequence(r_b) /\ IsSequence(r_x) /\ IsSequence(r_y)
  /\ Now <= shape.num_rounds
  /\ OnTo(state.w, Total(shape.num_vars))
  /\ Counts

(* What is known of the dimensions. *)
LEMMA KeyFacts ==
  ASSUME KeyOK
  PROVE  /\ Sized(key) /\ Sized(dims)
         /\ dims.nx = key.nx /\ dims.ny = key.ny
         /\ dims.nb = key.nb => dims = key
         /\ ShapeIs(shape, key)
  <1>1. key \in [nb : Nat \ {0}, nx : Nat \ {0}, ny : Nat \ {0, 1}] /\ dims.nb \in Nat \ {0}
    BY KeyDimsAssumption DEF KeyOK
  <1>2. Sized(key)
    BY <1>1 DEF Sized
  <1>3. dims.nx = key.nx /\ dims.ny = key.ny
    <2> DEFINE n == dims.nb
    <2>1. dims = [key EXCEPT !.nb = n]
      BY DEF KeyOK
    <2> HIDE DEF n
    <2> QED
      BY <1>1, <2>1
  <1>4. Sized(dims)
    BY <1>1, <1>2, <1>3 DEF Sized
  <1>5. dims.nb = key.nb => dims = key
    <2>1. [key EXCEPT !.nb = key.nb] = key
      BY <1>1
    <2> QED
      BY <2>1 DEF KeyOK
  <1>6. ShapeIs(shape, key)
    BY <1>2, ShapeFacts DEF KeyOK
  <1> QED
    BY <1>2, <1>3, <1>4, <1>5, <1>6

(* It holds at the start. *)
LEMMA TypeInit ==
  ASSUME Init
  PROVE  TypeInv
  <1>1. /\ key \in KeyDims /\ dims \in {[key EXCEPT !.nb = nb] : nb \in CallRounds}
        /\ shape = SetupShape(key) /\ stage = "start"
        /\ state = NewState(shape, Zero) /\ r_b = <<>> /\ r_x = <<>> /\ r_y = <<>>
    BY Zenon DEF Init
  <1>2. KeyOK
    <2>1. key \in [nb : Nat \ {0}, nx : Nat \ {0}, ny : Nat \ {0, 1}]
      BY <1>1, KeyDimsAssumption
    <2>2. PICK nb \in CallRounds : dims = [key EXCEPT !.nb = nb]
      BY <1>1
    <2>3. dims.nb = nb
      BY <2>1, <2>2
    <2> QED
      BY <1>1, <2>2, <2>3 DEF KeyOK
  <1>3. /\ state.challenges = <<>>
        /\ state.w = [k \in 1 .. Total(shape.num_vars) |-> Zero]
    BY <1>1 DEF NewState
  <1>4. OnTo(state.w, Total(shape.num_vars))
    BY <1>3 DEF OnTo
  <1>5. Now = 0 /\ Len(r_b) = 0 /\ Len(r_x) = 0 /\ Len(r_y) = 0
    BY <1>1, <1>3, EmptyIsSequence DEF Now, CurrentRound
  <1>6. /\ dims.nb \in Nat /\ dims.nx \in Nat /\ dims.ny \in Nat
        /\ shape.num_rounds = NumRounds(key) /\ NumRounds(key) \in Nat
    BY <1>2, KeyFacts, Indices DEF Sized, ShapeIs
  <1>7. Counts
    BY <1>1, <1>5, <1>6 DEF Counts, Counted, LateStages
  <1> QED
    BY <1>1, <1>2, <1>3, <1>4, <1>5, <1>6, <1>7, EmptyIsSequence DEF TypeInv

(* What a round changes in the lengths. *)
LEMMA RoundedType ==
  ASSUME TypeInv, NEW circuit, NEW x, Rounded(circuit, x)
  PROVE  /\ dims' = dims /\ shape' = shape /\ key' = key /\ rhos' = rhos /\ KeyOK'
         /\ IsSequence(state'.challenges) /\ Now' = Now + 1 /\ Now \in Nat
         /\ Now' <= shape'.num_rounds
         /\ OnTo(state'.w, Total(shape'.num_vars))
         /\ Len(r_b) \in Nat /\ Len(r_x) \in Nat /\ Len(r_y) \in Nat
         /\ Sized(dims)
  <1>1. /\ state' = x.state /\ dims' = dims /\ shape' = shape /\ key' = key /\ rhos' = rhos
        /\ Now < shape.num_rounds
        /\ x.state.challenges = Append(state.challenges, Made(circuit).challenges)
        /\ x.state.w = RoundWitness(state, shape, Syn(circuit), Now)
    BY DEF Rounded, Processed
  <1>2. /\ IsSequence(x.state.challenges)
        /\ Len(x.state.challenges) = Len(state.challenges) + 1
        /\ Len(state.challenges) \in Nat
    BY <1>1, Appended, SequenceFacts DEF TypeInv
  <1>3. OnTo(x.state.w, Total(shape.num_vars))
    BY <1>1, CopiedKeeps DEF TypeInv, RoundWitness
  <1>4. Now = Len(state.challenges) /\ Now' = Len(state'.challenges)
    BY DEF Now, CurrentRound
  <1>5. Len(r_b) \in Nat /\ Len(r_x) \in Nat /\ Len(r_y) \in Nat
    BY SequenceFacts DEF TypeInv
  <1>6. Sized(dims) /\ shape.num_rounds \in Nat
    BY KeyFacts, Indices DEF TypeInv, ShapeIs
  <1>7. KeyOK'
    BY <1>1 DEF TypeInv, KeyOK
  <1> QED
    BY <1>1, <1>2, <1>3, <1>4, <1>5, <1>6, <1>7

(* What the other actions leave alone. *)
LEMMA OthersUnchanged ==
  ASSUME \/ Start \/ ProveFails \/ Finalize \/ StartVerify \/ VerifyRound \/ Conclude
         \/ UNCHANGED vars
  PROVE  UNCHANGED <<shape, key, dims, vc, state, r_b, r_x, r, r_y, claim>>
  BY Zenon DEF Start, ProveFails, Finalize, StartVerify, VerifyRound, Conclude, vars

(* A round keeps the type invariant when the counts go on as they should. *)
LEMMA TypeRounded ==
  ASSUME TypeInv, NEW circuit, NEW x, Rounded(circuit, x),
         stage' \in ProverStages, IsSequence(r_b'), IsSequence(r_x'), IsSequence(r_y'), Counts'
  PROVE  TypeInv'
  BY RoundedType DEF TypeInv

(* Every step keeps it. *)
LEMMA TypeNext ==
  ASSUME TypeInv, [Next]_vars
  PROVE  TypeInv'
  <1>0. /\ Counts /\ IsSequence(r_b) /\ IsSequence(r_x) /\ IsSequence(r_y) /\ KeyOK
        /\ Len(r_b) \in Nat /\ Len(r_x) \in Nat /\ Len(r_y) \in Nat /\ Sized(dims)
    BY SequenceFacts, KeyFacts DEF TypeInv
  <1> DEFINE lb == Len(r_b)
             lx == Len(r_x)
             ly == Len(r_y)
             nb == dims.nb
             nx == dims.nx
             ny == dims.ny
  <1>n. /\ lb \in Nat /\ lx \in Nat /\ ly \in Nat
        /\ nb \in Nat /\ nb >= 1 /\ nx \in Nat /\ nx >= 1 /\ ny \in Nat /\ ny >= 2
    BY <1>0 DEF Sized
  <1>1. CASE NifsRound
    <2>1. PICK x : NifsTaken(x)
      BY <1>1, NifsRoundIs
    <2>2. /\ stage = "nifs" /\ Rounded(NifsFilled, x) /\ r_b' = Append(r_b, x.challenges[1])
          /\ stage' = (IF lb + 1 = nb THEN "nifs_final" ELSE "nifs")
          /\ r_x' = r_x /\ r_y' = r_y
      BY <2>1 DEF NifsTaken
    <2>3. IsSequence(r_b') /\ Len(r_b') = lb + 1
      BY <1>0, <2>2, Appended
    <2>4. dims' = dims /\ Now' = Now + 1
      BY <2>2, RoundedType
    <2>5. Now = lb /\ lx = 0 /\ ly = 0 /\ lb < nb
      BY <1>0, <2>2 DEF Counts, Counted
    <2>6. Counts'
      <3> DEFINE c == lb + 1
      <3>1. /\ Now' = c /\ Len(r_b') = c /\ Len(r_x') = 0 /\ Len(r_y') = 0
            /\ dims'.nb = nb /\ dims'.nx = nx /\ dims'.ny = ny
            /\ c <= nb /\ stage' = (IF c = nb THEN "nifs_final" ELSE "nifs")
        BY <1>n, <2>2, <2>3, <2>4, <2>5
      <3> HIDE DEF c, nb, nx, ny
      <3> QED
        BY <1>n, <3>1 DEF Counts, Counted, LateStages
    <2> QED
      BY <1>0, <2>2, <2>3, <2>6, TypeRounded DEF ProverStages
  <1>2. CASE NifsFinal
    <2>1. PICK x : NifsFinalTaken(x)
      BY <1>2, NifsFinalIs
    <2>2. /\ stage = "nifs_final" /\ Rounded(NifsFinalFilled, x) /\ stage' = "outer"
          /\ r_b' = r_b /\ r_x' = r_x /\ r_y' = r_y
      BY <2>1 DEF NifsFinalTaken
    <2>4. dims' = dims /\ Now' = Now + 1
      BY <2>2, RoundedType
    <2>5. Now = nb /\ lb = nb /\ lx = 0 /\ ly = 0
      BY <1>0, <2>2 DEF Counts, Counted
    <2>6. Counts'
      <3>1. /\ Now' = nb + 1 + 0 /\ Len(r_b') = nb /\ Len(r_x') = 0 /\ Len(r_y') = 0
            /\ dims'.nb = nb /\ dims'.nx = nx /\ dims'.ny = ny
        BY <1>n, <2>2, <2>4, <2>5
      <3> HIDE DEF nb, nx, ny
      <3> QED
        BY <1>n, <2>2, <3>1 DEF Counts, Counted, LateStages
    <2> QED
      BY <1>0, <2>2, <2>6, TypeRounded DEF ProverStages
  <1>3. CASE OuterRound
    <2>1. PICK x : OuterTaken(x)
      BY <1>3, OuterRoundIs
    <2>2. /\ stage = "outer" /\ Rounded(OuterFilled, x) /\ r_x' = Append(r_x, x.challenges[1])
          /\ stage' = (IF lx + 1 = nx THEN "outer_final" ELSE "outer")
          /\ r_b' = r_b /\ r_y' = r_y
      BY <2>1 DEF OuterTaken
    <2>3. IsSequence(r_x') /\ Len(r_x') = lx + 1
      BY <1>0, <2>2, Appended
    <2>4. dims' = dims /\ Now' = Now + 1
      BY <2>2, RoundedType
    <2>5. Now = nb + 1 + lx /\ lb = nb /\ ly = 0 /\ lx < nx
      BY <1>0, <2>2 DEF Counts, Counted
    <2>6. Counts'
      <3> DEFINE c == lx + 1
      <3>0. /\ lx \in Nat /\ nb \in Nat /\ Now' = Now + 1 /\ Now = nb + 1 + lx
        BY <1>n, <2>4, <2>5
      <3>1. /\ Len(r_x') = c /\ Len(r_b') = nb /\ Len(r_y') = 0
            /\ dims'.nb = nb /\ dims'.nx = nx /\ dims'.ny = ny
            /\ c \in Nat /\ c <= nx /\ stage' = (IF c = nx THEN "outer_final" ELSE "outer")
        BY <1>n, <2>2, <2>3, <2>4, <2>5
      <3> HIDE DEF nb, nx, ny, lx
      <3>2. Now' = nb + 1 + c
        BY <3>0
      <3> HIDE DEF c
      <3> QED
        BY <1>n, <3>1, <3>2 DEF Counts, Counted, LateStages
    <2> QED
      BY <1>0, <2>2, <2>3, <2>6, TypeRounded DEF ProverStages
  <1>4. CASE OuterFinal
    <2>1. PICK x : OuterFinalTaken(x)
      BY <1>4, OuterFinalIs
    <2>2. /\ stage = "outer_final" /\ Rounded(OuterFinalFilled, x) /\ stage' = "inner"
          /\ r_b' = r_b /\ r_x' = r_x /\ r_y' = r_y
      BY <2>1 DEF OuterFinalTaken
    <2>4. dims' = dims /\ Now' = Now + 1
      BY <2>2, RoundedType
    <2>5. Now = nb + 1 + nx /\ lb = nb /\ lx = nx /\ ly = 0
      BY <1>0, <2>2 DEF Counts, Counted
    <2>6. Counts'
      <3>1. /\ Now' = nb + nx + 2 + 0 /\ Len(r_b') = nb /\ Len(r_x') = nx /\ Len(r_y') = 0
            /\ dims'.nb = nb /\ dims'.nx = nx /\ dims'.ny = ny
        BY <1>n, <2>2, <2>4, <2>5
      <3> HIDE DEF nb, nx, ny
      <3> QED
        BY <1>n, <2>2, <3>1 DEF Counts, Counted, LateStages
    <2> QED
      BY <1>0, <2>2, <2>6, TypeRounded DEF ProverStages
  <1>5. CASE InnerRound
    <2>1. PICK x : InnerTaken(x)
      BY <1>5, InnerRoundIs
    <2>2. /\ stage = "inner" /\ Rounded(InnerFilled, x) /\ r_y' = Append(r_y, x.challenges[1])
          /\ stage' = (IF ly + 1 = ny THEN "inner_final" ELSE "inner")
          /\ r_b' = r_b /\ r_x' = r_x
      BY <2>1 DEF InnerTaken
    <2>3. IsSequence(r_y') /\ Len(r_y') = ly + 1
      BY <1>0, <2>2, Appended
    <2>4. dims' = dims /\ Now' = Now + 1
      BY <2>2, RoundedType
    <2>5. Now = nb + nx + 2 + ly /\ lb = nb /\ lx = nx /\ ly < ny
      BY <1>0, <2>2 DEF Counts, Counted
    <2>6. Counts'
      <3> DEFINE c == ly + 1
      <3>0. ly \in Nat /\ nb \in Nat /\ nx \in Nat /\ Now' = Now + 1 /\ Now = nb + nx + 2 + ly
        BY <1>n, <2>4, <2>5
      <3>1. /\ Len(r_y') = c /\ Len(r_b') = nb /\ Len(r_x') = nx
            /\ dims'.nb = nb /\ dims'.nx = nx /\ dims'.ny = ny
            /\ c \in Nat /\ c <= ny /\ stage' = (IF c = ny THEN "inner_final" ELSE "inner")
        BY <1>n, <2>2, <2>3, <2>4, <2>5
      <3> HIDE DEF nb, nx, ny, ly
      <3>2. Now' = nb + nx + 2 + c
        BY <3>0
      <3> HIDE DEF c
      <3>3. c = ny => Now' = nb + nx + ny + 2
        BY <1>n, <3>2
      <3> QED
        BY <1>n, <3>1, <3>2, <3>3 DEF Counts, Counted, LateStages
    <2> QED
      BY <1>0, <2>2, <2>3, <2>6, TypeRounded DEF ProverStages
  <1>6. CASE InnerFinal
    <2>1. PICK x : InnerFinalTaken(x)
      BY <1>6, InnerFinalIs
    <2>2. /\ stage = "inner_final" /\ Rounded(InnerFinalFilled, x) /\ stage' = "commit_w_step"
          /\ r_b' = r_b /\ r_x' = r_x /\ r_y' = r_y
      BY <2>1 DEF InnerFinalTaken
    <2>4. dims' = dims /\ Now' = Now + 1
      BY <2>2, RoundedType
    <2>5. Now = nb + nx + ny + 2 /\ lb = nb /\ lx = nx /\ ly = ny
      BY <1>0, <2>2 DEF Counts, Counted
    <2>6. Counts'
      <3>1. /\ Now' = nb + nx + ny + 3 /\ Len(r_b') = nb /\ Len(r_x') = nx /\ Len(r_y') = ny
            /\ dims'.nb = nb /\ dims'.nx = nx /\ dims'.ny = ny
        BY <1>n, <2>2, <2>4, <2>5
      <3> HIDE DEF nb, nx, ny
      <3> QED
        BY <1>n, <2>2, <3>1 DEF Counts, Counted, LateStages
    <2> QED
      BY <1>0, <2>2, <2>6, TypeRounded DEF ProverStages
  <1>7. ASSUME NEW b \in Branches, CommitW(b)
        PROVE  TypeInv'
    <2>1. PICK x : CommitTaken(b, x)
      BY <1>7, CommitWIs
    <2>2. /\ stage = (IF b = 1 THEN "commit_w_step" ELSE "commit_w_core") /\ Rounded(vc, x)
          /\ stage' = (IF b = 1 THEN "commit_w_core" ELSE "finalize")
          /\ r_b' = r_b /\ r_x' = r_x /\ r_y' = r_y
      BY <2>1 DEF CommitTaken
    <2>4. dims' = dims /\ Now' = Now + 1
      BY <2>2, RoundedType
    <2>5. lb = nb /\ lx = nx /\ ly = ny
          /\ Now = IF b = 1 THEN nb + nx + ny + 3 ELSE nb + nx + ny + 4
      BY <1>0, <2>2 DEF Counts, Counted
    <2>6. Counts'
      <3>1. /\ Now' = (IF b = 1 THEN nb + nx + ny + 4 ELSE nb + nx + ny + 5)
            /\ Len(r_b') = nb /\ Len(r_x') = nx /\ Len(r_y') = ny
            /\ dims'.nb = nb /\ dims'.nx = nx /\ dims'.ny = ny
        BY <1>n, <2>2, <2>4, <2>5
      <3> HIDE DEF nb, nx, ny
      <3> QED
        BY <1>n, <2>2, <3>1 DEF Counts, Counted, LateStages
    <2> QED
      BY <1>0, <2>2, <2>6, TypeRounded DEF ProverStages
  <1>8. CASE \/ Start \/ ProveFails \/ Finalize \/ StartVerify \/ VerifyRound \/ Conclude
             \/ UNCHANGED vars
    <2>1. UNCHANGED <<shape, key, dims, state, r_b, r_x, r_y>>
      BY <1>8, OthersUnchanged
    <2>2. Now' = Now
      BY <2>1 DEF Now, CurrentRound
    <2>3. \/ stage = "start" /\ stage' = "nifs"
          \/ stage' = "failed"
          \/ /\ stage \in {"finalize", "finalized", "verify"}
             /\ stage' \in {"finalized", "verify", "accepted", "rejected"}
          \/ stage' = stage
      BY <1>8, Zenon DEF Start, ProveFails, Finalize, StartVerify, VerifyRound, Conclude, vars
    <2>4. /\ Len(r_b') = lb /\ Len(r_x') = lx /\ Len(r_y') = ly
          /\ dims'.nb = nb /\ dims'.nx = nx /\ dims'.ny = ny
      BY <2>1
    <2>5. Counts'
      <3> HIDE DEF nb, nx, ny, lb, lx, ly
      <3>1. lb <= nb /\ lx <= nx /\ ly <= ny
        BY <1>0 DEF Counts, lb, lx, ly, nb, nx, ny
      <3>2. CASE stage = "start" /\ stage' = "nifs"
        <4>1. Now = 0 /\ lb = 0 /\ lx = 0 /\ ly = 0
          BY <1>0, <3>2 DEF Counts, Counted, lb, lx, ly
        <4> QED
          BY <1>n, <2>2, <2>4, <3>1, <3>2, <4>1 DEF Counts, Counted, LateStages
      <3>3. CASE stage' = "failed"
        BY <1>n, <2>2, <2>4, <3>1, <3>3 DEF Counts, Counted, LateStages
      <3>4. CASE /\ stage \in {"finalize", "finalized", "verify"}
                 /\ stage' \in {"finalized", "verify", "accepted", "rejected"}
        <4>1. Now = nb + nx + ny + 5 /\ lb = nb /\ lx = nx /\ ly = ny
          BY <1>0, <3>4 DEF Counts, Counted, LateStages, lb, lx, ly, nb, nx, ny
        <4> QED
          BY <1>n, <2>2, <2>4, <3>1, <3>4, <4>1 DEF Counts, Counted, LateStages
      <3>5. CASE stage' = stage
        BY <1>0, <2>1, <2>2, <3>5 DEF Counts, Counted, LateStages
      <3> QED
        BY <2>3, <3>2, <3>3, <3>4, <3>5
    <2>6. stage' \in ProverStages \cup {"start", "failed", "finalized", "verify", "accepted",
                                        "rejected"}
      BY <2>3 DEF TypeInv, ProverStages
    <2> QED
      BY <2>1, <2>2, <2>5, <2>6 DEF TypeInv, KeyOK
  <1> QED
    BY <1>1, <1>2, <1>3, <1>4, <1>5, <1>6, <1>7, <1>8 DEF Next

(* The witness has the length of the shape. *)
LEMMA WitnessLength ==
  ASSUME KeyOK
  PROVE  /\ Total(shape.num_vars) \in Nat
         /\ \A k \in 1 .. NumRounds(key) : /\ shape.num_vars[k] \in Nat
                                           /\ shape.num_vars_unpadded[k] \in Nat
                                           /\ shape.num_vars[k] >= shape.num_vars_unpadded[k]
  <1>1. ShapeIs(shape, key) /\ Sized(key)
    BY KeyFacts
  <1> DEFINE n == NumRounds(key)
             s == shape.num_vars
  <1>2. n \in Nat /\ n \in 0 .. n /\ Len(s) = n
    BY <1>1, Indices DEF ShapeIs
  <1>3. ASSUME NEW k \in 1 .. n
        PROVE  s[k] \in Nat /\ shape.num_vars_unpadded[k] \in Nat
               /\ s[k] >= shape.num_vars_unpadded[k]
    <2>1. AuxLength(key, k - 1) \in Nat /\ Width \in Nat \ {0}
      BY KeyDimsAssumption DEF AuxLength
    <2>2. /\ s[k] = PadToWidth(Width, AuxLength(key, k - 1))
          /\ shape.num_vars_unpadded[k] = AuxLength(key, k - 1)
      BY <1>1 DEF ShapeIs
    <2> QED
      BY <2>1, <2>2, Padding
  <1> HIDE DEF n, s
  <1>4. SumFirst(s, n) \in Nat
    BY <1>2, <1>3, SumUnfolds
  <1>5. Total(s) \in Nat
    BY <1>2, <1>4 DEF Total
  <1> QED
    BY <1>3, <1>5 DEF n, s

(* It implies the type invariant of the runs. *)
LEMMA TypeInvImplies ==
  ASSUME TypeInv
  PROVE  TypeOK
  <1>1. Len(state.w) = Total(shape.num_vars)
    BY WitnessLength, FunctionIsSequence DEF TypeInv, OnTo
  <1> QED
    BY <1>1 DEF TypeOK, TypeInv, KeyOK, Counts, Now

(* TypeOK holds for any numbers of rounds, of the key and of the call, and  *)
(* any commitment width.                                                    *)
THEOREM TypeCorrect == Spec => []TypeOK
  <1>1. Init => TypeInv
    BY TypeInit
  <1>2. TypeInv /\ [Next]_vars => TypeInv'
    BY TypeNext
  <1>3. TypeInv => TypeOK
    BY TypeInvImplies
  <1> QED
    BY <1>1, <1>2, <1>3, PTL DEF Spec

-----------------------------------------------------------------------------
(* Challenges come after commitments *)

(* The statement bound to a new transcript. *)
Stated(nb) == Absorb(NewTranscript, "statement", <<"statement", nb>>)

(* What drawing tau and the rhos again gives. *)
OpeningAgain(nb, o) ==
  \A p : Grown(Opening(nb, o).oracle, p) =>
           Opening(nb, p) = [challenges |-> Opening(nb, o).challenges,
                             transcript |-> Opening(nb, o).transcript, oracle |-> p]

(* The opening is one answer and then many. *)
OpeningFrom(x, y, m) ==
  x = [challenges |-> <<y.challenge>> \o m.challenges,
       transcript |-> m.transcript, oracle |-> m.oracle]

(* A record with another first field. *)
LEMMA OpeningIs ==
  ASSUME NEW nb, NEW o, NEW y, y = Squeeze(Stated(nb), "tau", o),
         NEW m, m = SqueezeMany(y.transcript, "rho", y.oracle, nb),
         m = [challenges |-> m.challenges, transcript |-> m.transcript, oracle |-> m.oracle]
  PROVE  OpeningFrom(Opening(nb, o), y, m)
  <1>1. Opening(nb, o) = [m EXCEPT !.challenges = <<y.challenge>> \o @]
    BY Zenon DEF Opening, Stated
  <1> DEFINE c == <<y.challenge>> \o m.challenges
  <1>2. Opening(nb, o) = [m EXCEPT !.challenges = c]
    BY <1>1
  <1> HIDE DEF c
  <1>3. [m EXCEPT !.challenges = c]
          = [challenges |-> c, transcript |-> m.transcript, oracle |-> m.oracle]
    OBVIOUS
  <1> QED
    BY <1>2, <1>3 DEF OpeningFrom, c

(* It asks new questions only, and can be made again. *)
LEMMA OpeningFacts ==
  ASSUME NEW nb \in Nat, NEW o, OracleOK(o)
  PROVE  /\ Grown(o, Opening(nb, o).oracle)
         /\ TranscriptOK(Opening(nb, o).transcript, Opening(nb, o).oracle)
         /\ OpeningAgain(nb, o)
  <1> DEFINE t == Stated(nb)
             y == Squeeze(t, "tau", o)
             m == SqueezeMany(y.transcript, "rho", y.oracle, nb)
             x == Opening(nb, o)
  <1>1. TranscriptOK(NewTranscript, o)
    BY SequenceFacts, EmptyIsSequence DEF NewTranscript, TranscriptOK, OracleOK
  <1>2. TranscriptOK(t, o)
    BY <1>1, AbsorbFacts DEF Bound, Stated
  <1>3. y = Squeeze(t, "tau", o) /\ m = SqueezeMany(y.transcript, "rho", y.oracle, nb)
    OBVIOUS
  <1> HIDE DEF t
  <1>4. PICK k \in Nat : Answered(y, t, "tau", o, k)
    BY <1>2, SqueezeAnswers
  <1> HIDE DEF y
  <1>5. /\ Grown(o, y.oracle) /\ TranscriptOK(y.transcript, y.oracle)
        /\ k \in 1 .. Len(y.oracle) /\ y.oracle[k] = Query(t, "tau")
        /\ y = [challenge |-> <<"challenge", k>>, oracle |-> y.oracle,
                transcript |-> [round |-> t.round + 1, state |-> k, absorbed |-> <<>>]]
    BY <1>4 DEF Answered
  <1>6. OracleOK(y.oracle)
    BY <1>5 DEF Grown
  <1>7. ManyDrawn(m, y.oracle, Ancestry(y.oracle, y.transcript.state), nb)
    BY <1>5, <1>6, SqueezeManyDraws
  <1>8. Redraws(y.transcript, "rho", y.oracle, nb)
    BY <1>5, <1>6, SqueezeManyAgain
  <1>9. m = SqueezeMany(y.transcript, "rho", y.oracle, nb)
    BY <1>3
  <1> HIDE DEF m
  <1>10. /\ m = [challenges |-> m.challenges, transcript |-> m.transcript, oracle |-> m.oracle]
         /\ Grown(y.oracle, m.oracle) /\ TranscriptOK(m.transcript, m.oracle)
    BY <1>7 DEF ManyDrawn
  <1>11. OpeningFrom(x, y, m)
    BY <1>3, <1>9, <1>10, OpeningIs DEF t
  <1> HIDE DEF x
  <1>12. /\ x.challenges = <<y.challenge>> \o m.challenges
         /\ x.transcript = m.transcript /\ x.oracle = m.oracle
    BY <1>11 DEF OpeningFrom
  <1>13. Grown(o, m.oracle)
    BY <1>5, <1>10, GrownTransitive
  <1>14. ASSUME NEW p, Grown(x.oracle, p)
         PROVE  Opening(nb, p) = [challenges |-> x.challenges,
                                  transcript |-> x.transcript, oracle |-> p]
    <2> DEFINE z == Squeeze(t, "tau", p)
    <2>1. Grown(y.oracle, p) /\ OracleOK(p)
      BY <1>6, <1>10, <1>12, <1>14, GrownTransitive DEF Grown
    <2>2. k \in 1 .. Len(p) /\ p[k] = Query(t, "tau")
      <3>1. /\ Len(y.oracle) \in Nat /\ Len(p) \in Nat /\ Len(y.oracle) <= Len(p)
            /\ \A j \in 1 .. Len(y.oracle) : p[j] = y.oracle[j]
        BY <1>6, <2>1, SequenceFacts DEF Grown, OracleOK
      <3> QED
        BY <1>5, <3>1
    <2>3. z = [challenge |-> <<"challenge", k>>, oracle |-> p,
               transcript |-> [round |-> t.round + 1, state |-> k, absorbed |-> <<>>]]
      BY <2>1, <2>2, SqueezeAgain
    <2>4. z.challenge = y.challenge /\ z.transcript = y.transcript /\ z.oracle = p
      BY <1>5, <2>3
    <2> DEFINE q == SqueezeMany(z.transcript, "rho", z.oracle, nb)
    <2>5. z = Squeeze(Stated(nb), "tau", p) /\ q = SqueezeMany(z.transcript, "rho", z.oracle, nb)
      BY DEF t
    <2> HIDE DEF z
    <2>6. q = [challenges |-> m.challenges, transcript |-> m.transcript, oracle |-> p]
      <3>1. Grown(m.oracle, p)
        BY <1>12, <1>14
      <3>2. q = SqueezeMany(y.transcript, "rho", p, nb)
        BY <2>4
      <3> HIDE DEF q
      <3> QED
        BY <1>8, <1>9, <3>1, <3>2, Zenon DEF Redraws
    <2> HIDE DEF q
    <2>7. /\ q.challenges = m.challenges /\ q.transcript = m.transcript /\ q.oracle = p
          /\ q = [challenges |-> q.challenges, transcript |-> q.transcript, oracle |-> q.oracle]
      BY <2>6
    <2>8. OpeningFrom(Opening(nb, p), z, q)
      BY <2>5, <2>7, OpeningIs
    <2> QED
      BY <1>12, <2>4, <2>7, <2>8, Zenon DEF OpeningFrom
  <1> QED
    BY <1>12, <1>10, <1>13, <1>14 DEF OpeningAgain, x

(* What every challenge depends on. *)
BoundInv ==
  /\ RoundsBound(state, transcript, oracle, {})
  /\ stage = "start" => /\ oracle = <<>> /\ transcript = NewTranscript
                        /\ state = NewState(shape, Zero)
  /\ stage = "verify" => TranscriptOK(verifier.transcript, oracle)

(* It holds at the start. *)
LEMMA BoundInit ==
  ASSUME Init
  PROVE  BoundInv
  <1>1. /\ oracle = <<>> /\ transcript = NewTranscript
        /\ state = NewState(shape, Zero) /\ stage = "start"
    BY Zenon DEF Init
  <1>2. OracleOK(oracle)
    BY <1>1, EmptyIsSequence DEF OracleOK
  <1>3. TranscriptOK(transcript, oracle)
    BY <1>1, EmptyIsSequence DEF TranscriptOK, NewTranscript
  <1>4. RoundsBound(NewState(shape, Zero), transcript, oracle, {})
    BY <1>2, <1>3, BoundStart
  <1> QED
    BY <1>1, <1>4 DEF BoundInv

(* Every action of the prover that sends a message is a round. *)
SendsRound ==
  \/ NifsRound \/ NifsFinal \/ OuterRound \/ OuterFinal \/ InnerRound \/ InnerFinal
  \/ \E b \in Branches : CommitW(b)

(* They are. *)
LEMMA RoundActions ==
  ASSUME SendsRound
  PROVE  /\ \E circuit, x : Rounded(circuit, x)
         /\ stage \in ProverStages /\ stage' \in ProverStages
  <1>1. CASE NifsRound
    BY <1>1, NifsRoundIs DEF NifsTaken, ProverStages
  <1>2. CASE NifsFinal
    BY <1>2, NifsFinalIs DEF NifsFinalTaken, ProverStages
  <1>3. CASE OuterRound
    BY <1>3, OuterRoundIs DEF OuterTaken, ProverStages
  <1>4. CASE OuterFinal
    BY <1>4, OuterFinalIs DEF OuterFinalTaken, ProverStages
  <1>5. CASE InnerRound
    BY <1>5, InnerRoundIs DEF InnerTaken, ProverStages
  <1>6. CASE InnerFinal
    BY <1>6, InnerFinalIs DEF InnerFinalTaken, ProverStages
  <1>7. ASSUME NEW b \in Branches, CommitW(b)
        PROVE  /\ \E circuit, x : Rounded(circuit, x)
               /\ stage \in ProverStages /\ stage' \in ProverStages
    BY <1>7, CommitWIs DEF CommitTaken, ProverStages
  <1> QED
    BY <1>1, <1>2, <1>3, <1>4, <1>5, <1>6, <1>7 DEF SendsRound

(* Every step keeps it. *)
LEMMA BoundNext ==
  ASSUME TypeInv, BoundInv, [Next]_vars
  PROVE  BoundInv'
  <1>0. /\ RoundsBound(state, transcript, oracle, {}) /\ OracleOK(oracle)
        /\ dims.nb \in Nat /\ key.nb \in Nat
    BY KeyFacts DEF BoundInv, RoundsBound, TypeInv, Sized
  <1>1. CASE Start
    <2> DEFINE x == Opening(dims.nb, oracle)
    <2>1. /\ stage = "start" /\ transcript' = x.transcript /\ oracle' = x.oracle
          /\ stage' = "nifs" /\ UNCHANGED <<shape, state>>
      BY <1>1, Zenon DEF Start
    <2>2. Grown(oracle, x.oracle) /\ TranscriptOK(x.transcript, x.oracle)
      BY <1>0, OpeningFacts
    <2> HIDE DEF x
    <2>3. OracleOK(x.oracle)
      BY <2>2 DEF Grown
    <2>4. RoundsBound(NewState(shape, Zero), x.transcript, x.oracle, {})
      BY <2>2, <2>3, BoundStart
    <2>5. state' = NewState(shape, Zero)
      BY <2>1 DEF BoundInv
    <2> QED
      BY <2>1, <2>4, <2>5 DEF BoundInv
  <1>2. CASE SendsRound
    <2>1. PICK circuit, x : Rounded(circuit, x)
      BY <1>2, RoundActions
    <2>2. /\ Processed(x, Made(circuit), state, shape, Syn(circuit), Now)
          /\ state' = x.state /\ transcript' = x.transcript /\ oracle' = x.oracle
      BY <2>1 DEF Rounded
    <2>3. RoundsBound(x.state, x.transcript, x.oracle, {})
      BY <1>0, <2>2, BoundProcessed DEF Made
    <2>4. stage' \notin {"start", "verify"}
      BY <1>2, RoundActions DEF ProverStages
    <2> QED
      BY <2>2, <2>3, <2>4 DEF BoundInv
  <1>3. CASE ProveFails \/ Finalize \/ Conclude \/ UNCHANGED vars
    <2>1. UNCHANGED <<state, transcript, oracle, verifier, shape>>
      BY <1>3, Zenon DEF ProveFails, Finalize, Conclude, vars
    <2>2. stage' = stage \/ stage' \notin {"start", "verify"}
      BY <1>3, Zenon DEF ProveFails, Finalize, Conclude, vars
    <2> QED
      BY <2>1, <2>2 DEF BoundInv
  <1>4. CASE StartVerify
    <2> DEFINE x == Opening(key.nb, oracle)
    <2>1. /\ verifier' = [transcript |-> x.transcript, rhos |-> Tail(x.challenges), round |-> 0]
          /\ oracle' = x.oracle /\ stage' = "verify"
          /\ UNCHANGED <<state, transcript>>
      BY <1>4, Zenon DEF StartVerify
    <2>2. Grown(oracle, x.oracle) /\ TranscriptOK(x.transcript, x.oracle)
      BY <1>0, OpeningFacts
    <2> HIDE DEF x
    <2>3. RoundsBound(state, transcript, oracle', {})
      BY <1>0, <2>1, <2>2, BoundGrown
    <2>4. verifier'.transcript = x.transcript
      BY <2>1
    <2> QED
      BY <2>1, <2>2, <2>3, <2>4 DEF BoundInv
  <1>5. CASE VerifyRound
    <2> DEFINE round == verifier.round
               comm == U.comm_w_per_round[round + 1]
               x == ValidateRound(U, shape, round, verifier.transcript, oracle)
               e == Exchange(shape, comm, round, verifier.transcript, oracle)
    <2>1. /\ stage = "verify"
          /\ verifier' = [verifier EXCEPT !.transcript = x.transcript, !.round = @ + 1]
          /\ oracle' = x.oracle /\ stage' \in {"verify", "rejected"}
          /\ UNCHANGED <<state, transcript>>
      BY <1>5, Zenon DEF VerifyRound
    <2>2. TranscriptOK(verifier.transcript, oracle)
      BY <2>1 DEF BoundInv
    <2>3. Validated(x, e, U, shape, round)
      BY ValidateIs
    <2>4. Exchanged(e, shape.num_challenges[round + 1] = 0, comm, verifier.transcript, oracle)
      BY <1>0, <2>2, ExchangeFacts
    <2> HIDE DEF x, e
    <2>5. x.transcript = e.transcript /\ x.oracle = e.oracle
      BY <2>3 DEF Validated
    <2>6. Grown(oracle, e.oracle) /\ TranscriptOK(e.transcript, e.oracle)
      BY <2>4 DEF Exchanged
    <2>7. Grown(oracle, oracle') /\ TranscriptOK(x.transcript, oracle')
      BY <2>1, <2>5, <2>6
    <2>8. RoundsBound(state, transcript, oracle', {})
      BY <1>0, <2>7, BoundGrown
    <2>9. stage' = "verify" => verifier'.transcript = x.transcript
      BY <2>1, <2>7
    <2> QED
      BY <2>1, <2>7, <2>8, <2>9 DEF BoundInv
  <1> QED
    BY <1>1, <1>2, <1>3, <1>4, <1>5 DEF Next, SendsRound

(* No challenge, of however many rounds, is drawn before what it answers is *)
(* bound into the transcript.                                               *)
THEOREM ChallengesComeLast == Spec => []CommittedBeforeChallenged
  <1>1. Init => TypeInv /\ BoundInv
    BY TypeInit, BoundInit
  <1>2. TypeInv /\ BoundInv /\ [Next]_vars => (TypeInv /\ BoundInv)'
    BY TypeNext, BoundNext
  <1>3. BoundInv => CommittedBeforeChallenged
    BY BoundShows, Zenon DEF BoundInv, CommittedBeforeChallenged, CurrentRound
  <1> QED
    BY <1>1, <1>2, <1>3, PTL DEF Spec

-----------------------------------------------------------------------------
(* What the rounds hold *)

(* The challenge of round k. *)
Ch(st, k) == st.challenges[k][1]

(* The rounds before the outer and the inner sum-check, and up to the last  *)
(* one with a challenge.                                                    *)
OuterBase == dims.nb + 1
InnerBase == dims.nb + dims.nx + 2
LastChallenge == dims.nb + dims.nx + dims.ny + 2

(* The rounds whose challenge the driver reads. *)
Asks(k) == k <= dims.nb \/ (k > OuterBase /\ k <= LastChallenge)

(* Each round has the challenge its shape asks for; the driver goes on only *)
(* when it has the one it reads.                                            *)
ChallengesGiven ==
  /\ IsSequence(state.vars_per_round) /\ Len(state.vars_per_round) = Now
  /\ IsSequence(state.challenges_per_round) /\ Len(state.challenges_per_round) = Now
  /\ \A k \in 1 .. Now :
       /\ state.challenges[k] = IF shape.num_challenges[k] = 0 THEN <<>> ELSE <<Ch(state, k)>>
       /\ Asks(k) => shape.num_challenges[k] = 1

(* What a round appends to the state, given what it synthesizes. *)
Advanced(x, inputs, held, chs, checks) ==
  /\ Now' = Now + 1
  /\ IsSequence(state'.vars_per_round) /\ Len(state'.vars_per_round) = Now + 1
  /\ IsSequence(state'.challenges_per_round) /\ Len(state'.challenges_per_round) = Now + 1
  /\ \A k \in 1 .. Now : /\ state'.vars_per_round[k] = state.vars_per_round[k]
                         /\ state'.challenges_per_round[k] = state.challenges_per_round[k]
                         /\ state'.challenges[k] = state.challenges[k]
  /\ state'.vars_per_round[Now + 1] = held
  /\ state'.challenges_per_round[Now + 1] = chs
  /\ state'.challenges[Now + 1]
       = IF shape.num_challenges[Now + 1] = 0 THEN <<>> ELSE <<x.challenges[1]>>
  /\ state'.checks = state.checks \cup checks
  /\ state'.inputs = state.inputs \o inputs

(* A round appends what it synthesizes and one challenge or none. *)
LEMMA Advance ==
  ASSUME TypeInv, BoundInv, ChallengesGiven, NEW circuit, NEW x, Rounded(circuit, x),
         NEW aux, NEW inputs, NEW held, NEW chs, NEW checks,
         Yields(Syn(circuit), aux, inputs, held, chs, checks),
         Asks(Now + 1) => Gives
  PROVE  Advanced(x, inputs, held, chs, checks) /\ ChallengesGiven'
  <1> DEFINE e == Made(circuit)
             comm == RoundSent(state, shape, Syn(circuit), Now)
             none == shape.num_challenges[Now + 1] = 0
             n == Now
  <1>1. /\ Processed(x, e, state, shape, Syn(circuit), n) /\ state' = x.state /\ dims' = dims
        /\ shape' = shape
    BY DEF Rounded
  <1>2. Exchanged(e, none, comm, transcript, oracle)
    BY ExchangeFacts DEF BoundInv, RoundsBound, Made, RoundExchange
  <1>3. /\ n \in Nat /\ Len(state.challenges) = n /\ IsSequence(state.challenges)
    BY <1>1, SequenceFacts DEF TypeInv, Now, CurrentRound
  <1> HIDE DEF e, comm, n
  <1>5. e.challenges = IF none THEN <<>> ELSE <<e.challenges[1]>>
    <2> HIDE DEF none
    <2>1. none => e.challenges = <<>>
      BY <1>2 DEF Exchanged
    <2>2. ~none => \E p : e.challenges = <<<<"challenge", p>>>>
      BY <1>2 DEF Exchanged
    <2>3. ~none => e.challenges = <<e.challenges[1]>>
      BY <2>2
    <2> QED
      BY <2>1, <2>3
  <1>6. /\ x.challenges = e.challenges
        /\ x.state.inputs = state.inputs \o inputs
        /\ x.state.checks = state.checks \cup checks
        /\ x.state.vars_per_round = Append(state.vars_per_round, held)
        /\ x.state.challenges_per_round = Append(state.challenges_per_round, chs)
        /\ x.state.challenges = Append(state.challenges, e.challenges)
    BY <1>1 DEF Processed, Yields
  <1>7. /\ IsSequence(state.vars_per_round) /\ Len(state.vars_per_round) = n
        /\ IsSequence(state.challenges_per_round) /\ Len(state.challenges_per_round) = n
        /\ \A k \in 1 .. n :
             /\ state.challenges[k] = IF shape.num_challenges[k] = 0 THEN <<>>
                                      ELSE <<Ch(state, k)>>
             /\ Asks(k) => shape.num_challenges[k] = 1
    BY DEF ChallengesGiven, n
  <1>8. /\ IsSequence(x.state.vars_per_round) /\ Len(x.state.vars_per_round) = n + 1
        /\ \A k \in 1 .. n : x.state.vars_per_round[k] = state.vars_per_round[k]
        /\ x.state.vars_per_round[n + 1] = held
    BY <1>6, <1>7, Appended
  <1>9. /\ IsSequence(x.state.challenges_per_round)
        /\ Len(x.state.challenges_per_round) = n + 1
        /\ \A k \in 1 .. n : x.state.challenges_per_round[k] = state.challenges_per_round[k]
        /\ x.state.challenges_per_round[n + 1] = chs
    BY <1>6, <1>7, Appended
  <1>10. /\ Len(x.state.challenges) = n + 1
         /\ \A k \in 1 .. n : x.state.challenges[k] = state.challenges[k]
         /\ x.state.challenges[n + 1] = e.challenges
    BY <1>3, <1>6, Appended
  <1>11. Now' = n + 1 /\ Now = n
    BY <1>1, <1>10 DEF Now, CurrentRound, n
  <1>12. Advanced(x, inputs, held, chs, checks)
    BY <1>1, <1>5, <1>6, <1>8, <1>9, <1>10, <1>11 DEF Advanced
  <1>13. ASSUME NEW k \in 1 .. n + 1
         PROVE  /\ x.state.challenges[k] = IF shape.num_challenges[k] = 0 THEN <<>>
                                           ELSE <<Ch(x.state, k)>>
                /\ Asks(k) => shape.num_challenges[k] = 1
    <2>2. CASE k = n + 1
      <3>1. x.state.challenges[k] = IF shape.num_challenges[k] = 0 THEN <<>>
                                    ELSE <<e.challenges[1]>>
        BY <1>5, <1>10, <1>11, <2>2
      <3>2. Asks(k) => shape.num_challenges[k] = 1
        BY <1>11, <2>2 DEF Gives
      <3> QED
        BY <1>10, <2>2, <3>1, <3>2 DEF Ch
    <2>3. CASE k # n + 1
      <3>1. k \in 1 .. n
        BY <1>3, <2>3
      <3> QED
        BY <1>7, <1>10, <3>1 DEF Ch
    <2> QED
      BY <2>2, <2>3
  <1>14. \A k : Asks(k)' <=> Asks(k)
    BY <1>1 DEF Asks, OuterBase, LastChallenge
  <1>15. ChallengesGiven'
    <2>1. \A k \in 1 .. n + 1 :
             /\ state'.challenges[k] = IF shape'.num_challenges[k] = 0 THEN <<>>
                                       ELSE <<Ch(state', k)>>
             /\ Asks(k)' => shape'.num_challenges[k] = 1
      BY <1>1, <1>13, <1>14
    <2> QED
      BY <1>1, <1>8, <1>9, <1>11, <2>1 DEF ChallengesGiven
  <1> QED
    BY <1>12, <1>15

(* s lists the challenges of the rounds from base + 1 on. *)
Mirrors(st, s, base) == \A i \in 1 .. Len(s) : s[i] = Ch(st, base + i)

(* The driver keeps the challenges of the rounds they belong to. *)
Kept ==
  /\ Mirrors(state, r_b, 0)
  /\ Mirrors(state, r_x, OuterBase)
  /\ Now >= InnerBase => r = Ch(state, InnerBase)
  /\ Mirrors(state, r_y, InnerBase)

(* The values an honest prover claims. *)
LastNifs == <<"eval", <<"nifs", dims.nb - 1>>, Ch(state, dims.nb)>>
Divided == <<"divided", LastNifs, EqRho>>
EvalW == EvalsAt("eval_W", Tail(r_y))
EvalX == EvalsAt("eval_X", Tail(r_y))

(* What round k of the circuit hands on. *)
HeldOK(k) ==
  LET held == state.vars_per_round[k]
  IN  /\ k <= dims.nb => held[1][2] = <<"nifs", k - 1>>
      /\ k = OuterBase => held[1] = EqRho /\ held[2] = Divided
      /\ k > OuterBase /\ k < InnerBase =>
           \A b \in Branches : held[b][2] = <<"outer", b, k - (OuterBase + 1)>>
      /\ k = InnerBase =>
           /\ \A b \in Branches : /\ held[3 * b - 2] = <<"Az", b, r_x>>
                                  /\ held[3 * b - 1] = <<"Bz", b, r_x>>
                                  /\ held[3 * b] = <<"Cz", b, r_x>>
           /\ held[7] = <<"tau", r_x>>
      /\ k > InnerBase /\ k <= LastChallenge =>
           \A b \in Branches : held[b][2] = <<"inner", b, k - (InnerBase + 1)>>
      /\ k = LastChallenge + 1 => held = EvalW /\ vc.eval_W = EvalW
      /\ k = InnerBase + 2 => state.challenges_per_round[k] = <<Ch(state, InnerBase + 1)>>

(* All rounds up to now hand that on. *)
HandedOn == \A k \in 1 .. Now : HeldOK(k)

(* The claim is the one the circuit will compute in this round. *)
ClaimOK ==
  /\ Now = 0 => claim[1] = Zero
  /\ Now >= 1 /\ Now <= dims.nb => claim[1] = <<"eval", <<"nifs", Now - 1>>, Ch(state, Now)>>
  /\ Now = OuterBase => claim[1] = Divided /\ claim[2] = Zero
  /\ Now > OuterBase /\ Now < InnerBase =>
       \A b \in Branches :
         claim[b] = <<"eval", <<"outer", b, Now - (OuterBase + 1)>>, Ch(state, Now)>>
  /\ Now = InnerBase =>
       \A b \in Branches :
         claim[b] = Joint(<<"Az", b, r_x>>, <<"Bz", b, r_x>>, <<"Cz", b, r_x>>, Ch(state, Now))
  /\ Now > InnerBase /\ Now <= LastChallenge =>
       \A b \in Branches :
         claim[b] = <<"eval", <<"inner", b, Now - (InnerBase + 1)>>, Ch(state, Now)>>

(* The circuit has a field for every message. *)
CircuitOK ==
  /\ vc = [nifs_polys |-> vc.nifs_polys, t_out_step |-> vc.t_out_step,
           eq_rho_at_rb |-> vc.eq_rho_at_rb, tau_at_rx |-> vc.tau_at_rx,
           outer_polys |-> vc.outer_polys, claims |-> vc.claims,
           inner_polys |-> vc.inner_polys, eval_W |-> vc.eval_W, eval_X |-> vc.eval_X]
  /\ DOMAIN vc.nifs_polys = 1 .. dims.nb
  /\ DOMAIN vc.outer_polys = 1 .. dims.nx
  /\ DOMAIN vc.inner_polys = 1 .. dims.ny
  /\ WellFormed(vc, dims)

(* The inductive invariant behind ChecksHold. *)
ValueInv == ChallengesGiven /\ Kept /\ HandedOn /\ ClaimOK /\ CircuitOK /\ ChecksHold

(* The public inputs the circuit allocates in this round. *)
LastEval(b) == <<"eval", <<"inner", b, dims.ny - 1>>, Ch(state, LastChallenge)>>
Quotients(b) == Quotient(LastEval(b), <<"eval_W", b, Tail(r_y)>>, <<"eval_X", b, Tail(r_y)>>,
                         Ch(state, InnerBase + 1))

(* The values the last inner round makes public. *)
PublicValues ==
  <<<<"tau", r_x>>, <<"eval_X", 1, Tail(r_y)>>, <<"eval_X", 2, Tail(r_y)>>, EqRho,
    Quotients(1), Quotients(2)>>

(* What this round allocates. *)
Given ==
  IF Now = 0 \/ Now = OuterBase \/ Now > LastChallenge THEN <<>>
  ELSE IF Now < LastChallenge THEN <<Ch(state, Now)>>
  ELSE <<Ch(state, Now), PublicValues[1], PublicValues[2], PublicValues[3], PublicValues[4],
         PublicValues[5], PublicValues[6]>>

(* The numbers a step compares. *)
LEMMA Numbers ==
  ASSUME TypeInv
  PROVE  /\ Sized(dims) /\ dims.nb \in Nat /\ dims.nb >= 1 /\ dims.nx \in Nat /\ dims.nx >= 1
         /\ dims.ny \in Nat /\ dims.ny >= 2 /\ Now \in Nat
         /\ OuterBase \in Nat /\ OuterBase = dims.nb + 1
         /\ InnerBase \in Nat /\ InnerBase = OuterBase + dims.nx + 1
         /\ LastChallenge \in Nat /\ LastChallenge = InnerBase + dims.ny
         /\ IsSequence(r_b) /\ Len(r_b) \in Nat
         /\ IsSequence(r_x) /\ Len(r_x) \in Nat
         /\ IsSequence(r_y) /\ Len(r_y) \in Nat
  <1>1. Sized(dims)
    BY KeyFacts DEF TypeInv
  <1>2. /\ IsSequence(r_b) /\ IsSequence(r_x) /\ IsSequence(r_y) /\ IsSequence(state.challenges)
    BY DEF TypeInv
  <1>3. Len(r_b) \in Nat /\ Len(r_x) \in Nat /\ Len(r_y) \in Nat /\ Len(state.challenges) \in Nat
    BY <1>2, SequenceFacts
  <1>4. Now \in Nat
    BY <1>3 DEF Now, CurrentRound
  <1>5. /\ OuterBase \in Nat /\ OuterBase = dims.nb + 1
        /\ InnerBase \in Nat /\ InnerBase = OuterBase + dims.nx + 1
        /\ LastChallenge \in Nat /\ LastChallenge = InnerBase + dims.ny
    BY <1>1 DEF Sized, OuterBase, InnerBase, LastChallenge
  <1>6. /\ dims.nb \in Nat /\ dims.nb >= 1 /\ dims.nx \in Nat /\ dims.nx >= 1
        /\ dims.ny \in Nat /\ dims.ny >= 2
    BY <1>1 DEF Sized
  <1> QED
    BY <1>1, <1>2, <1>3, <1>4, <1>5, <1>6

(* It holds at the start. *)
LEMMA ValueInit ==
  ASSUME Init
  PROVE  ValueInv
  <1>0. TypeInv
    BY TypeInit
  <1>1. /\ state = NewState(shape, Zero) /\ vc = DefaultCircuit(dims)
        /\ r_b = <<>> /\ r_x = <<>> /\ r_y = <<>> /\ claim = <<Zero>>
    BY Zenon DEF Init
  <1>2. /\ state.challenges = <<>> /\ state.vars_per_round = <<>> /\ state.checks = {}
        /\ state.challenges_per_round = <<>>
    BY <1>1 DEF NewState
  <1>3. Now = 0 /\ Len(r_b) = 0 /\ Len(r_x) = 0 /\ Len(r_y) = 0
    BY <1>1, <1>2, EmptyIsSequence DEF Now, CurrentRound
  <1>4. ChallengesGiven
    BY <1>2, <1>3, EmptyIsSequence DEF ChallengesGiven
  <1>5. Kept
    BY <1>0, <1>3, Numbers DEF Kept, Mirrors
  <1>6. HandedOn
    BY <1>3 DEF HandedOn
  <1>7. ClaimOK
    <2>1. claim[1] = Zero
      BY <1>1
    <2> QED
      BY <1>0, <1>3, <2>1, Numbers DEF ClaimOK
  <1>8. CircuitOK
    <2>1. WellFormed(vc, dims)
      BY <1>1, DefaultWellFormed
    <2> QED
      BY <1>1, <2>1 DEF CircuitOK, DefaultCircuit
  <1>9. ChecksHold
    BY <1>2 DEF ChecksHold
  <1> QED
    BY <1>4, <1>5, <1>6, <1>7, <1>8, <1>9 DEF ValueInv

(* A round reads the challenge of the round before. *)
LEMMA ReadsLast ==
  ASSUME TypeInv, ChallengesGiven, Now >= 1, Asks(Now)
  PROVE  Head(PassedChallenges(state, Now)) = Ch(state, Now)
  <1>1. Now \in 1 .. Now /\ Now # 0
    BY SMTT(30), Numbers
  <1>2. state.challenges[Now] = <<Ch(state, Now)>>
    <2>1. /\ state.challenges[Now] = IF shape.num_challenges[Now] = 0 THEN <<>>
                                     ELSE <<Ch(state, Now)>>
          /\ shape.num_challenges[Now] = 1
      BY <1>1 DEF ChallengesGiven
    <2>2. shape.num_challenges[Now] # 0
      BY <2>1
    <2> QED
      BY <2>1, <2>2, Zenon
  <1>3. PassedChallenges(state, Now) = state.challenges[Now]
    BY <1>1 DEF PassedChallenges
  <1> QED
    BY <1>2, <1>3

(* Challenges listed stay the same. *)
LEMMA MirrorsKept ==
  ASSUME NEW n \in Nat, NEW st, NEW tt, \A k \in 1 .. n : Ch(tt, k) = Ch(st, k),
         NEW s, IsSequence(s), NEW base \in Nat, base + Len(s) <= n, Mirrors(st, s, base)
  PROVE  Mirrors(tt, s, base)
  <1>1. Len(s) \in Nat
    BY SequenceFacts
  <1>2. \A i \in 1 .. Len(s) : base + i \in 1 .. n
    BY <1>1
  <1> QED
    BY <1>2 DEF Mirrors

(* The next one can be listed. *)
LEMMA MirrorsMore ==
  ASSUME NEW n \in Nat, NEW st, NEW tt, \A k \in 1 .. n : Ch(tt, k) = Ch(st, k),
         NEW s, IsSequence(s), NEW base \in Nat, base + Len(s) = n, Mirrors(st, s, base),
         NEW c, c = Ch(tt, n + 1)
  PROVE  Mirrors(tt, Append(s, c), base)
  <1>1. Len(s) \in Nat
    BY SequenceFacts
  <1>2. Mirrors(tt, s, base)
    BY <1>1, MirrorsKept
  <1>3. /\ Len(Append(s, c)) = Len(s) + 1
        /\ \A i \in 1 .. Len(s) : Append(s, c)[i] = s[i]
        /\ Append(s, c)[Len(s) + 1] = c
    BY Appended
  <1>4. base + (Len(s) + 1) = n + 1
    BY <1>1
  <1> QED
    BY <1>1, <1>2, <1>3, <1>4 DEF Mirrors

(* What is kept and handed on stays as it is when a round is added: it      *)
(* remains to see what this round hands on and claims.                      *)
LEMMA ValueKept ==
  ASSUME TypeInv, ValueInv, NEW circuit, NEW x, Rounded(circuit, x),
         NEW inputs, NEW held, NEW chs, NEW checks,
         Advanced(x, inputs, held, chs, checks), ChallengesGiven',
         \A check \in checks : check[1] = check[2],
         Now >= dims.nb => r_b' = r_b,
         Now >= InnerBase - 1 => r_x' = r_x,
         Now >= LastChallenge => r_y' = r_y,
         Now > LastChallenge => vc'.eval_W = vc.eval_W
  PROVE  /\ \A k \in 1 .. Now : Ch(state', k) = Ch(state, k)
         /\ OuterBase' = OuterBase /\ InnerBase' = InnerBase /\ LastChallenge' = LastChallenge
         /\ dims' = dims /\ rhos' = rhos
         /\ Gives => x.challenges[1] = Ch(state', Now + 1)
         /\ ChecksHold'
         /\ \A m \in Nat : m = Now + 1 /\ HeldOK(m)' => HandedOn'
  <1>1. \A k \in 1 .. Now : Ch(state', k) = Ch(state, k)
    BY DEF Advanced, Ch
  <1>2. dims' = dims /\ rhos' = rhos
    BY DEF Rounded
  <1>3. OuterBase' = OuterBase /\ InnerBase' = InnerBase /\ LastChallenge' = LastChallenge
    BY <1>2 DEF OuterBase, InnerBase, LastChallenge
  <1>4. Gives => x.challenges[1] = Ch(state', Now + 1)
    BY DEF Advanced, Ch, Gives
  <1>5. ChecksHold'
    BY DEF Advanced, ValueInv, ChecksHold
  <1>6. ASSUME NEW k \in 1 .. Now
        PROVE  HeldOK(k)'
    <2>1. HeldOK(k)
      BY DEF ValueInv, HandedOn
    <2>2. /\ k \in Nat /\ k <= Now /\ state'.vars_per_round[k] = state.vars_per_round[k]
          /\ state'.challenges_per_round[k] = state.challenges_per_round[k]
      BY Numbers DEF Advanced
    <2>n. /\ k \in Nat /\ k <= Now /\ Now \in Nat /\ InnerBase \in Nat /\ LastChallenge \in Nat
      BY <2>2, Numbers
    <2>3. k = OuterBase => EqRho' = EqRho /\ Divided' = Divided
      <3> SUFFICES ASSUME k = OuterBase PROVE EqRho' = EqRho /\ Divided' = Divided
        OBVIOUS
      <3>1. Now >= dims.nb /\ dims.nb \in 1 .. Now
        BY SMTT(30), <2>2, Numbers
      <3>2. EqRho' = EqRho
        BY <1>2, <3>1 DEF EqRho
      <3>3. LastNifs' = LastNifs
        BY <1>1, <1>2, <3>1 DEF LastNifs
      <3> QED
        BY <3>2, <3>3 DEF Divided
    <2>4. k = InnerBase => r_x' = r_x
      BY <2>2, Numbers
    <2>5. k = LastChallenge + 1 => EvalW' = EvalW /\ vc'.eval_W = vc.eval_W
      <3> SUFFICES ASSUME k = LastChallenge + 1 PROVE EvalW' = EvalW /\ vc'.eval_W = vc.eval_W
        OBVIOUS
      <3>1. Now > LastChallenge /\ Now >= LastChallenge
        BY <2>n
      <3> QED
        BY <3>1 DEF EvalW
    <2>6. k = InnerBase + 2 => Ch(state', InnerBase + 1) = Ch(state, InnerBase + 1)
      <3> SUFFICES ASSUME k = InnerBase + 2
                   PROVE  Ch(state', InnerBase + 1) = Ch(state, InnerBase + 1)
        OBVIOUS
      <3>1. InnerBase + 1 \in 1 .. Now
        BY <2>n
      <3> QED
        BY <1>1, <3>1
    <2> QED
      BY <1>2, <1>3, <2>1, <2>2, <2>3, <2>4, <2>5, <2>6 DEF HeldOK
  <1>7. ASSUME NEW m \in Nat, m = Now + 1, HeldOK(m)'
        PROVE  HandedOn'
    <2>1. Now' = m /\ Now \in Nat
      BY <1>7, Numbers DEF Advanced
    <2>2. ASSUME NEW k \in 1 .. m
          PROVE  HeldOK(k)'
      <3>1. CASE k = m
        BY <1>7, <3>1
      <3>2. CASE k # m
        <4>1. k \in 1 .. Now
          BY <1>7, <2>1, <3>2
        <4> QED
          BY <1>6, <4>1
      <3> QED
        BY <3>1, <3>2
    <2> QED
      BY <2>1, <2>2 DEF HandedOn
  <1> QED
    BY <1>1, <1>2, <1>3, <1>4, <1>5, <1>7

(* Where the prover is at each stage. *)
LEMMA Where ==
  ASSUME TypeInv
  PROVE  /\ stage = "nifs" => Now = Len(r_b) /\ Now < dims.nb /\ Len(r_x) = 0 /\ Len(r_y) = 0
         /\ stage = "nifs_final" =>
              Now = dims.nb /\ Len(r_b) = dims.nb /\ Len(r_x) = 0 /\ Len(r_y) = 0
         /\ stage = "outer" =>
              /\ Now = OuterBase + Len(r_x) /\ Len(r_b) = dims.nb /\ Len(r_x) < dims.nx
              /\ Len(r_y) = 0
         /\ stage = "outer_final" =>
              /\ Now = OuterBase + dims.nx /\ Len(r_b) = dims.nb /\ Len(r_x) = dims.nx
              /\ Len(r_y) = 0
         /\ stage = "inner" =>
              /\ Now = InnerBase + Len(r_y) /\ Len(r_b) = dims.nb /\ Len(r_x) = dims.nx
              /\ Len(r_y) < dims.ny
         /\ stage = "inner_final" =>
              Now = LastChallenge /\ Len(r_b) = dims.nb /\ Len(r_x) = dims.nx /\ Len(r_y) = dims.ny
         /\ stage = "commit_w_step" =>
              /\ Now = LastChallenge + 1 /\ Len(r_b) = dims.nb /\ Len(r_x) = dims.nx
              /\ Len(r_y) = dims.ny
         /\ stage = "commit_w_core" =>
              /\ Now = LastChallenge + 2 /\ Len(r_b) = dims.nb /\ Len(r_x) = dims.nx
              /\ Len(r_y) = dims.ny
         /\ stage \in LateStages =>
              /\ Now = LastChallenge + 3 /\ Len(r_b) = dims.nb /\ Len(r_x) = dims.nx
              /\ Len(r_y) = dims.ny
  <1> DEFINE nb == dims.nb
             nx == dims.nx
             ny == dims.ny
             lb == Len(r_b)
             lx == Len(r_x)
             ly == Len(r_y)
  <1>1. /\ stage = "nifs" => Now = lb /\ lx = 0 /\ ly = 0 /\ lb < nb
        /\ stage = "nifs_final" => Now = nb /\ lb = nb /\ lx = 0 /\ ly = 0
        /\ stage = "outer" => Now = nb + 1 + lx /\ lb = nb /\ ly = 0 /\ lx < nx
        /\ stage = "outer_final" => Now = nb + 1 + nx /\ lb = nb /\ lx = nx /\ ly = 0
        /\ stage = "inner" => Now = nb + nx + 2 + ly /\ lb = nb /\ lx = nx /\ ly < ny
        /\ stage = "inner_final" => Now = nb + nx + ny + 2 /\ lb = nb /\ lx = nx /\ ly = ny
        /\ stage = "commit_w_step" => Now = nb + nx + ny + 3 /\ lb = nb /\ lx = nx /\ ly = ny
        /\ stage = "commit_w_core" => Now = nb + nx + ny + 4 /\ lb = nb /\ lx = nx /\ ly = ny
        /\ stage \in LateStages => Now = nb + nx + ny + 5 /\ lb = nb /\ lx = nx /\ ly = ny
    BY DEF TypeInv, Counts, Counted
  <1>2. /\ nb \in Nat /\ nx \in Nat /\ ny \in Nat
        /\ OuterBase = nb + 1 /\ InnerBase = nb + nx + 2 /\ LastChallenge = nb + nx + ny + 2
    BY Numbers DEF OuterBase, InnerBase, LastChallenge
  <1> HIDE DEF nb, nx, ny, lb, lx, ly
  <1>3. /\ OuterBase = nb + 1 /\ OuterBase + lx = nb + 1 + lx /\ OuterBase + nx = nb + 1 + nx
        /\ InnerBase + ly = nb + nx + 2 + ly /\ LastChallenge = nb + nx + ny + 2
        /\ LastChallenge + 1 = nb + nx + ny + 3 /\ LastChallenge + 2 = nb + nx + ny + 4
        /\ LastChallenge + 3 = nb + nx + ny + 5
    BY <1>2
  <1> QED
    BY <1>1, <1>3, Zenon DEF nb, nx, ny, lb, lx, ly

(* The numbers in order. *)
LEMMA More ==
  ASSUME TypeInv
  PROVE  /\ Sized(dims) /\ Now \in Nat /\ dims.nb \in Nat /\ dims.nb >= 1
         /\ dims.nx \in Nat /\ dims.nx >= 1 /\ dims.ny \in Nat /\ dims.ny >= 2
         /\ OuterBase \in Nat /\ OuterBase = dims.nb + 1
         /\ InnerBase \in Nat /\ InnerBase > OuterBase /\ InnerBase = OuterBase + dims.nx + 1
         /\ LastChallenge \in Nat /\ LastChallenge > InnerBase
         /\ LastChallenge = InnerBase + dims.ny
         /\ IsSequence(r_b) /\ IsSequence(r_x) /\ IsSequence(r_y)
  <1>1. /\ Sized(dims) /\ IsSequence(r_b) /\ IsSequence(r_x) /\ IsSequence(r_y)
    BY Numbers
  <1> DEFINE nb == dims.nb
             nx == dims.nx
             ny == dims.ny
  <1>2. /\ Now \in Nat /\ nb \in Nat /\ nb >= 1 /\ nx \in Nat /\ nx >= 1 /\ ny \in Nat /\ ny >= 2
        /\ OuterBase \in Nat /\ OuterBase = nb + 1
        /\ InnerBase \in Nat /\ InnerBase = OuterBase + nx + 1
        /\ LastChallenge \in Nat /\ LastChallenge = InnerBase + ny
    BY Numbers
  <1> HIDE DEF nb, nx, ny
  <1>3. InnerBase > OuterBase /\ LastChallenge > InnerBase
    BY <1>2
  <1> QED
    BY <1>1, <1>2, <1>3 DEF nb, nx, ny

(* A round of NIFS keeps it: the circuit computes the claim of the prover. *)
LEMMA ValueNifs ==
  ASSUME TypeInv, BoundInv, ValueInv, NEW x, NifsTaken(x)
  PROVE  ValueInv' /\ state'.inputs = state.inputs \o Given
  <1> DEFINE n == Now
             poly == NifsPoly(n)
             chals == PassedChallenges(state, Now)
             current == NifsClaim(n, state.vars_per_round, chals)
             inputs == IF n = 0 THEN <<>> ELSE <<Head(chals)>>
             checks == {<<Claim(poly), current>>}
  <1>1. /\ stage = "nifs" /\ Gives /\ Rounded(NifsFilled, x)
        /\ r_b' = Append(r_b, x.challenges[1])
        /\ claim' = <<EvalAt(NifsPoly(Len(r_b)), x.challenges[1])>>
        /\ r_x' = r_x /\ r_y' = r_y /\ vc' = NifsFilled
    BY DEF NifsTaken, Rounded
  <1>2. n = Len(r_b) /\ n < dims.nb /\ Len(r_x) = 0 /\ Len(r_y) = 0
    BY <1>1, Where
  <1>3. /\ Sized(dims) /\ n \in Nat /\ dims.nb \in Nat
        /\ OuterBase \in Nat /\ OuterBase = dims.nb + 1
        /\ InnerBase \in Nat /\ InnerBase > OuterBase
        /\ LastChallenge \in Nat /\ LastChallenge > InnerBase
        /\ IsSequence(r_b) /\ IsSequence(r_x) /\ IsSequence(r_y)
    BY More
  <1>4. /\ ChallengesGiven /\ Kept /\ HandedOn /\ ClaimOK /\ CircuitOK /\ ChecksHold
    BY DEF ValueInv
  <1>5. NifsFilled.nifs_polys[n + 1] = poly /\ CircuitOK' /\ NifsFilled.eval_W = vc.eval_W
    <2>1. n + 1 \in DOMAIN vc.nifs_polys
      BY <1>2, <1>3, <1>4 DEF CircuitOK
    <2> DEFINE polys == [vc.nifs_polys EXCEPT ![n + 1] = poly]
    <2>2. polys[n + 1] = poly /\ DOMAIN polys = DOMAIN vc.nifs_polys
      BY <2>1
    <2>3. NifsFilled = [vc EXCEPT !.nifs_polys[n + 1] = poly]
      BY <1>2 DEF NifsFilled
    <2> HIDE DEF poly, n
    <2>4. NifsFilled = [vc EXCEPT !.nifs_polys = polys]
      BY <2>3
    <2> HIDE DEF polys
    <2>5. NifsFilled = [nifs_polys |-> polys, t_out_step |-> vc.t_out_step,
             eq_rho_at_rb |-> vc.eq_rho_at_rb, tau_at_rx |-> vc.tau_at_rx,
             outer_polys |-> vc.outer_polys, claims |-> vc.claims,
             inner_polys |-> vc.inner_polys, eval_W |-> vc.eval_W, eval_X |-> vc.eval_X]
      BY <1>4, <2>4 DEF CircuitOK
    <2>6. dims' = dims
      BY <1>1 DEF Rounded
    <2>7. WellFormed(vc, dims)' 
      BY <1>1, <1>4, <2>5, <2>6 DEF CircuitOK, WellFormed
    <2>8. CircuitOK'
      BY <1>1, <1>4, <2>2, <2>5, <2>6, <2>7 DEF CircuitOK
    <2> QED
      BY <2>2, <2>5, <2>8
  <1>6. Yields(Syn(NifsFilled), <<poly, current>>, inputs, <<poly>>, <<>>, checks)
    <2>1. Syn(NifsFilled) = Rounds(dims, Width, NifsFilled, n, state.vars_per_round,
                                   state.challenges_per_round, chals)
      BY Zenon DEF Syn, Synthesis
    <2> HIDE DEF poly, chals, n
    <2>2. Yields(Rounds(dims, Width, NifsFilled, n, state.vars_per_round,
                        state.challenges_per_round, chals),
                 <<poly, NifsClaim(n, state.vars_per_round, chals)>>,
                 IF n = 0 THEN <<>> ELSE <<Head(chals)>>, <<poly>>, <<>>,
                 {<<Claim(poly), NifsClaim(n, state.vars_per_round, chals)>>})
      <3> HIDE DEF current, inputs, checks
      <3> QED
        BY <1>2, <1>3, <1>5, NifsYields
    <2> QED
      BY <2>1, <2>2, Zenon
  <1> HIDE DEF inputs, chals
  <1>7. n # 0 => Head(chals) = Ch(state, n) /\ n \in 1 .. n
    <2> SUFFICES ASSUME n # 0 PROVE Head(chals) = Ch(state, n) /\ n \in 1 .. n
      OBVIOUS
    <2>1. Now >= 1 /\ Asks(Now)
      BY <1>2, <1>3 DEF Asks
    <2> QED
      BY <1>3, <1>4, <2>1, ReadsLast DEF chals
  <1>8. current = claim[1]
    <2>1. CASE n = 0
      BY <1>4, <2>1 DEF NifsClaim, ClaimOK
    <2>2. CASE n # 0
      <3>1. n >= 1 /\ n <= dims.nb
        BY <1>2, <1>3, <2>2
      <3>2. state.vars_per_round[n][1][2] = <<"nifs", n - 1>>
        <4>1. HeldOK(n)
          BY <1>4, <1>7, <2>2 DEF HandedOn
        <4> QED
          BY <3>1, <4>1 DEF HeldOK
      <3>3. claim[1] = <<"eval", <<"nifs", n - 1>>, Ch(state, n)>>
        BY <1>4, <3>1 DEF ClaimOK
      <3>4. current = EvalAt(state.vars_per_round[n][1], Head(chals))
        BY <2>2 DEF NifsClaim
      <3> HIDE DEF current, n
      <3> QED
        BY <1>7, <2>2, <3>2, <3>3, <3>4 DEF EvalAt
    <2> QED
      BY <2>1, <2>2
  <1>9. poly = <<"poly", <<"nifs", n>>, claim[1]>>
    BY DEF NifsPoly, Poly
  <1>10. \A check \in checks : check[1] = check[2]
    BY <1>8, <1>9 DEF Claim
  <1> HIDE DEF checks, current, poly
  <1>11. Advanced(x, inputs, <<poly>>, <<>>, checks) /\ ChallengesGiven'
    BY <1>1, <1>4, <1>6, Advance
  <1>12. /\ \A k \in 1 .. Now : Ch(state', k) = Ch(state, k)
         /\ OuterBase' = OuterBase /\ InnerBase' = InnerBase /\ LastChallenge' = LastChallenge
         /\ dims' = dims
         /\ x.challenges[1] = Ch(state', Now + 1)
         /\ ChecksHold'
         /\ \A m \in Nat : m = Now + 1 /\ HeldOK(m)' => HandedOn'
    <2>1. ~(Now >= dims.nb) /\ ~(Now >= LastChallenge) /\ ~(Now > LastChallenge)
      BY <1>2, <1>3
    <2> QED
      BY <1>1, <1>10, <1>11, <2>1, ValueKept
  <1>13. Now' = n + 1 /\ state'.vars_per_round[n + 1] = <<poly>>
    BY <1>11 DEF Advanced
  <1>14. HandedOn'
    <2>0. PICK m \in Nat : m = n + 1
      BY <1>3
    <2>1. /\ m <= dims.nb /\ m # OuterBase /\ ~(m > OuterBase) /\ m # InnerBase
          /\ ~(m > InnerBase) /\ m # LastChallenge + 1 /\ m # InnerBase + 2 /\ m - 1 = n
      BY <1>2, <1>3, <2>0
    <2>2. state'.vars_per_round[m][1] = poly
      BY <1>13, <2>0
    <2>3. state'.vars_per_round[m][1][2] = <<"nifs", n>>
      BY <1>9, <2>2
    <2>4. HeldOK(m)'
      BY <1>12, <2>1, <2>3 DEF HeldOK
    <2> QED
      BY <1>12, <2>0, <2>4
  <1>15. Kept'
    <2>1. Mirrors(state', r_b', 0)
      <3>1. 0 + Len(r_b) = n /\ Mirrors(state, r_b, 0) /\ 0 \in Nat
        BY <1>2, <1>3, <1>4 DEF Kept
      <3> DEFINE c == x.challenges[1]
      <3>2. c = Ch(state', n + 1) /\ r_b' = Append(r_b, c)
            /\ \A k \in 1 .. n : Ch(state', k) = Ch(state, k)
        BY <1>1, <1>12
      <3> HIDE DEF n, c
      <3> QED
        BY <1>3, <3>1, <3>2, MirrorsMore
    <2>2. Mirrors(state', r_x', OuterBase') /\ Mirrors(state', r_y', InnerBase')
      BY <1>1, <1>2 DEF Mirrors
    <2>3. ~(Now' >= InnerBase')
      BY <1>2, <1>3, <1>12, <1>13
    <2> QED
      BY <2>1, <2>2, <2>3 DEF Kept
  <1>16. ClaimOK'
    <2>1. claim' = <<<<"eval", <<"nifs", n>>, Ch(state', n + 1)>>>>
      BY <1>1, <1>2, <1>9, <1>12 DEF EvalAt, poly
    <2>2. claim'[1] = <<"eval", <<"nifs", n>>, Ch(state', n + 1)>>
      BY <2>1
    <2> DEFINE m == n + 1
    <2>3. /\ m # 0 /\ m # OuterBase /\ ~(m > OuterBase) /\ m # InnerBase
          /\ ~(m > InnerBase) /\ m - 1 = n /\ Now' = m
      BY <1>2, <1>3, <1>13
    <2>4. claim'[1] = <<"eval", <<"nifs", m - 1>>, Ch(state', m)>>
      BY <2>2, <2>3
    <2> HIDE DEF m, n
    <2> QED
      BY <1>12, <2>3, <2>4 DEF ClaimOK
  <1>17. state'.inputs = state.inputs \o Given
    <2>1. inputs = Given
      <3>1. n # OuterBase /\ ~(n > LastChallenge) /\ n < LastChallenge
        BY <1>2, <1>3
      <3> QED
        BY <1>7, <3>1 DEF inputs, Given
    <2> QED
      BY <1>11, <2>1 DEF Advanced
  <1> QED
    BY <1>5, <1>11, <1>12, <1>14, <1>15, <1>16, <1>17 DEF ValueInv

(* So does the final round of NIFS, which divides. *)
LEMMA ValueNifsFinal ==
  ASSUME TypeInv, BoundInv, ValueInv, NEW x, NifsFinalTaken(x)
  PROVE  ValueInv' /\ state'.inputs = state.inputs \o Given
  <1> DEFINE n == Now
             chals == PassedChallenges(state, Now)
             current == EvalAt(state.vars_per_round[n][1], Head(chals))
             checks == {<<TOut, <<"divided", current, EqRho>>>>}
             held == <<EqRho, TOut>>
  <1>1. /\ stage = "nifs_final" /\ Rounded(NifsFinalFilled, x)
        /\ claim' = <<TOut, Zero>>
        /\ r_b' = r_b /\ r_x' = r_x /\ r' = r /\ r_y' = r_y /\ vc' = NifsFinalFilled
        /\ dims' = dims /\ rhos' = rhos
    BY DEF NifsFinalTaken, Rounded
  <1>2. n = dims.nb /\ Len(r_b) = n /\ Len(r_x) = 0 /\ Len(r_y) = 0
    BY <1>1, Where
  <1>3. /\ Sized(dims) /\ n \in Nat /\ n >= 1
        /\ OuterBase \in Nat /\ OuterBase = n + 1
        /\ InnerBase \in Nat /\ InnerBase > OuterBase
        /\ LastChallenge \in Nat /\ LastChallenge > InnerBase
        /\ IsSequence(r_b) /\ IsSequence(r_x) /\ IsSequence(r_y)
    BY <1>2, More
  <1>4. /\ ChallengesGiven /\ Kept /\ HandedOn /\ ClaimOK /\ CircuitOK /\ ChecksHold
    BY DEF ValueInv
  <1>5. /\ NifsFinalFilled.t_out_step = TOut /\ NifsFinalFilled.eq_rho_at_rb = EqRho /\ CircuitOK'
    <2>1. NifsFinalFilled = [nifs_polys |-> vc.nifs_polys, t_out_step |-> TOut,
             eq_rho_at_rb |-> EqRho, tau_at_rx |-> vc.tau_at_rx,
             outer_polys |-> vc.outer_polys, claims |-> vc.claims,
             inner_polys |-> vc.inner_polys, eval_W |-> vc.eval_W, eval_X |-> vc.eval_X]
      <3> DEFINE a == TOut
                 b == EqRho
      <3>1. NifsFinalFilled = [vc EXCEPT !.t_out_step = a, !.eq_rho_at_rb = b]
        BY Zenon DEF NifsFinalFilled
      <3> HIDE DEF a, b
      <3>2. NifsFinalFilled = [nifs_polys |-> vc.nifs_polys, t_out_step |-> a,
               eq_rho_at_rb |-> b, tau_at_rx |-> vc.tau_at_rx,
               outer_polys |-> vc.outer_polys, claims |-> vc.claims,
               inner_polys |-> vc.inner_polys, eval_W |-> vc.eval_W, eval_X |-> vc.eval_X]
        BY <1>4, <3>1 DEF CircuitOK
      <3> QED
        BY <3>2 DEF a, b
    <2>2. WellFormed(vc, dims)'
      BY <1>1, <1>4, <2>1 DEF CircuitOK, WellFormed
    <2>3. CircuitOK'
      BY <1>1, <1>4, <2>1, <2>2 DEF CircuitOK
    <2> QED
      BY <2>1, <2>3
  <1>6. Yields(Syn(NifsFinalFilled), <<current, TOut, EqRho>>, <<Head(chals)>>, held, <<>>, checks)
    <2>1. Syn(NifsFinalFilled) = Rounds(dims, Width, NifsFinalFilled, n, state.vars_per_round,
                                        state.challenges_per_round, chals)
      BY Zenon DEF Syn, Synthesis
    <2> HIDE DEF chals, n
    <2>2. Yields(Rounds(dims, Width, NifsFinalFilled, n, state.vars_per_round,
                        state.challenges_per_round, chals),
                 <<current, NifsFinalFilled.t_out_step, NifsFinalFilled.eq_rho_at_rb>>,
                 <<Head(chals)>>,
                 <<NifsFinalFilled.eq_rho_at_rb, NifsFinalFilled.t_out_step>>, <<>>,
                 {<<NifsFinalFilled.t_out_step,
                    <<"divided", current, NifsFinalFilled.eq_rho_at_rb>>>>})
      <3>1. current = EvalAt(state.vars_per_round[n][1], Head(chals))
        OBVIOUS
      <3> HIDE DEF current, held, checks
      <3> QED
        BY <1>2, <1>3, <3>1, NifsFinalYields
    <2> HIDE DEF current
    <2> QED
      BY <1>5, <2>1, <2>2, Zenon
  <1>7. Head(chals) = Ch(state, n) /\ n \in 1 .. n
    <2>1. Now >= 1 /\ Asks(Now)
      BY <1>2, <1>3 DEF Asks
    <2> QED
      BY <1>3, <1>4, <2>1, ReadsLast
  <1>8. current = LastNifs /\ claim[1] = LastNifs
    <2>1. state.vars_per_round[n][1][2] = <<"nifs", n - 1>>
      <3>1. HeldOK(n) /\ n <= dims.nb
        BY <1>2, <1>3, <1>4, <1>7 DEF HandedOn
      <3> QED
        BY <3>1 DEF HeldOK
    <2>2. claim[1] = <<"eval", <<"nifs", n - 1>>, Ch(state, n)>>
      <3>1. n <= dims.nb
        BY <1>2, <1>3
      <3> QED
        BY <1>3, <1>4, <3>1 DEF ClaimOK
    <2>3. LastNifs = <<"eval", <<"nifs", n - 1>>, Ch(state, n)>>
      BY <1>2 DEF LastNifs
    <2> HIDE DEF chals, n
    <2> QED
      BY <1>7, <2>1, <2>2, <2>3 DEF EvalAt
  <1>9. TOut = Divided /\ \A check \in checks : check[1] = check[2]
    <2>1. TOut = Divided /\ TOut = <<"divided", current, EqRho>>
      BY <1>8 DEF TOut, Divided
    <2> HIDE DEF current
    <2> QED
      BY <2>1
  <1> HIDE DEF checks, current, chals
  <1>10. Advanced(x, <<Head(chals)>>, held, <<>>, checks) /\ ChallengesGiven'
    <2>1. ~Asks(Now + 1)
      BY <1>2, <1>3 DEF Asks
    <2> HIDE DEF held
    <2> QED
      BY <1>1, <1>4, <1>6, <2>1, Advance
  <1>11. /\ \A k \in 1 .. Now : Ch(state', k) = Ch(state, k)
         /\ OuterBase' = OuterBase /\ InnerBase' = InnerBase /\ LastChallenge' = LastChallenge
         /\ ChecksHold'
         /\ \A m \in Nat : m = Now + 1 /\ HeldOK(m)' => HandedOn'
    <2>1. ~(Now > LastChallenge)
      BY <1>2, <1>3
    <2> HIDE DEF held
    <2> QED
      BY <1>1, <1>9, <1>10, <2>1, ValueKept
  <1>12. Now' = n + 1 /\ state'.vars_per_round[n + 1] = held
    BY <1>10 DEF Advanced
  <1>13. EqRho' = EqRho /\ Divided' = Divided
    <2>1. EqRho' = EqRho
      BY <1>1 DEF EqRho
    <2>2. LastNifs' = LastNifs
      <3>1. Ch(state', dims.nb) = Ch(state, dims.nb)
        BY <1>2, <1>7, <1>11
      <3> QED
        BY <1>1, <3>1 DEF LastNifs
    <2> QED
      BY <2>1, <2>2 DEF Divided
  <1>14. HandedOn'
    <2>0. PICK m \in Nat : m = n + 1
      BY <1>3
    <2>1. /\ ~(m <= dims.nb) /\ m = OuterBase /\ ~(m > OuterBase) /\ m # InnerBase
          /\ ~(m > InnerBase) /\ m # LastChallenge + 1 /\ m # InnerBase + 2
      BY <1>2, <1>3, <2>0
    <2>2. state'.vars_per_round[m][1] = EqRho /\ state'.vars_per_round[m][2] = TOut
      BY <1>12, <2>0
    <2>3. HeldOK(m)'
      BY <1>1, <1>9, <1>11, <1>13, <2>1, <2>2 DEF HeldOK
    <2> QED
      BY <1>11, <2>0, <2>3
  <1>15. Kept'
    <2>1. Mirrors(state', r_b', 0)
      <3>1. 0 + Len(r_b) <= n /\ Mirrors(state, r_b, 0) /\ 0 \in Nat
        BY <1>2, <1>3, <1>4 DEF Kept
      <3>2. \A k \in 1 .. n : Ch(state', k) = Ch(state, k)
        BY <1>11
      <3> HIDE DEF n
      <3>3. Mirrors(state', r_b, 0)
        BY <1>3, <3>1, <3>2, MirrorsKept
      <3> QED
        BY <1>1, <3>3
    <2>2. Mirrors(state', r_x', OuterBase') /\ Mirrors(state', r_y', InnerBase')
      BY <1>1, <1>2 DEF Mirrors
    <2>3. ~(Now' >= InnerBase')
      BY <1>2, <1>3, <1>11, <1>12
    <2> QED
      BY <2>1, <2>2, <2>3 DEF Kept
  <1>16. ClaimOK'
    <2>1. claim'[1] = Divided' /\ claim'[2] = Zero
      BY <1>1, <1>9, <1>13
    <2>2. /\ Now' # 0 /\ ~(Now' <= dims'.nb) /\ ~(Now' > OuterBase') /\ Now' # InnerBase'
          /\ ~(Now' > InnerBase')
      BY <1>1, <1>2, <1>3, <1>11, <1>12
    <2> QED
      BY <2>1, <2>2 DEF ClaimOK
  <1>17. state'.inputs = state.inputs \o Given
    <2>1. <<Head(chals)>> = Given
      <3>1. n # 0 /\ n # OuterBase /\ ~(n > LastChallenge) /\ n < LastChallenge
        BY <1>2, <1>3
      <3> QED
        BY <1>7, <3>1 DEF Given
    <2> QED
      BY <1>10, <2>1 DEF Advanced
  <1> QED
    BY <1>5, <1>10, <1>11, <1>14, <1>15, <1>16, <1>17 DEF ValueInv

(* The polynomials of the branches. *)
LEMMA PolyPairIs ==
  ASSUME NEW kind, NEW i
  PROVE  /\ IsPair(PolyPair(kind, i))
         /\ \A b \in Branches : PolyPair(kind, i)[b] = <<"poly", <<kind, b, i>>, claim[b]>>
         /\ \A b \in Branches : \A c : NextClaim(kind, i, c)[b] = <<"eval", <<kind, b, i>>, c>>
  <1> DEFINE p == PolyPair(kind, i)
  <1>1. \A b \in Branches : p[b] = <<"poly", <<kind, b, i>>, claim[b]>>
    BY DEF PolyPair, BranchPoly, Poly
  <1>2. IsPair(p)
    <2>1. p = [b \in Branches |-> p[b]]
      BY DEF PolyPair
    <2> HIDE DEF p
    <2>2. \A b \in Branches : p[b] = IF b = 1 THEN p[1] ELSE p[2]
      BY DEF Branches
    <2> QED
      BY <2>1, <2>2 DEF IsPair, Pair
  <1>3. \A b \in Branches : \A c : NextClaim(kind, i, c)[b] = <<"eval", <<kind, b, i>>, c>>
    <2>1. \A b \in Branches : \A c : NextClaim(kind, i, c)[b] = EvalAt(BranchPoly(kind, b, i), c)
      BY DEF NextClaim
    <2>2. \A b \in Branches : BranchPoly(kind, b, i)[2] = <<kind, b, i>>
      BY DEF BranchPoly, Poly
    <2> QED
      BY <2>1, <2>2 DEF EvalAt
  <1> QED
    BY <1>1, <1>2, <1>3

(* So does an outer round: the first takes up the divided claim. *)
LEMMA ValueOuter ==
  ASSUME TypeInv, BoundInv, ValueInv, NEW x, OuterTaken(x)
  PROVE  ValueInv' /\ state'.inputs = state.inputs \o Given
  <1> DEFINE n == Now
             l == Len(r_x)
             poly == PolyPair("outer", l)
             chals == PassedChallenges(state, Now)
             inputs == OuterInputs(dims, n, chals)
             checks == OuterChecks(dims, poly, n, state.vars_per_round, chals)
             c == x.challenges[1]
  <1>1. /\ stage = "outer" /\ Gives /\ Rounded(OuterFilled, x)
        /\ r_x' = Append(r_x, c)
        /\ claim' = NextClaim("outer", l, c)
        /\ r_b' = r_b /\ r_y' = r_y /\ vc' = OuterFilled /\ dims' = dims
    BY DEF OuterTaken, Rounded
  <1>2. n = OuterBase + l /\ Len(r_b) = dims.nb /\ l < dims.nx /\ Len(r_y) = 0
    BY <1>1, Where
  <1>3. /\ Sized(dims) /\ n \in Nat /\ dims.nb \in Nat /\ dims.nb >= 1 /\ dims.nx \in Nat
        /\ OuterBase \in Nat /\ OuterBase = dims.nb + 1
        /\ InnerBase \in Nat /\ InnerBase = OuterBase + dims.nx + 1
        /\ LastChallenge \in Nat /\ LastChallenge > InnerBase
        /\ IsSequence(r_b) /\ IsSequence(r_x) /\ IsSequence(r_y) /\ l \in Nat
    BY More, Numbers
  <1>4. /\ ChallengesGiven /\ Kept /\ HandedOn /\ ClaimOK /\ CircuitOK /\ ChecksHold
    BY DEF ValueInv
  <1> HIDE DEF n, l, c
  <1>o. /\ n >= OuterBase /\ n < InnerBase /\ n < LastChallenge /\ n \in 1 .. n /\ n >= 1 /\ n # 0
        /\ n + 1 < InnerBase /\ n - OuterBase + 1 = l + 1 /\ n - OuterBase = l
        /\ n < OuterBase + dims.nx /\ ~(n >= InnerBase - 1) /\ ~(n > LastChallenge)
        /\ n + 1 > OuterBase /\ n + 1 - (OuterBase + 1) = l /\ ~(n >= LastChallenge)
        /\ l + 1 \in 1 .. dims.nx /\ n > dims.nb /\ n >= dims.nb
    <2> DEFINE nx == dims.nx
               nb == dims.nb
               ob == OuterBase
               ib == InnerBase
               lc == LastChallenge
    <2>1. /\ n \in Nat /\ nb \in Nat /\ nx \in Nat /\ ob \in Nat /\ ib \in Nat /\ lc \in Nat
          /\ l \in Nat /\ nb >= 1 /\ n = ob + l /\ l < nx /\ ob = nb + 1 /\ ib = ob + nx + 1
          /\ lc > ib
      BY <1>2, <1>3
    <2> HIDE DEF nx, nb, ob, ib, lc
    <2>2. /\ n >= ob /\ n < ib /\ n < lc /\ n \in 1 .. n /\ n >= 1 /\ n # 0
          /\ n + 1 < ib /\ n - ob + 1 = l + 1 /\ n - ob = l
          /\ n < ob + nx /\ ~(n >= ib - 1) /\ ~(n > lc)
          /\ n + 1 > ob /\ n + 1 - (ob + 1) = l /\ ~(n >= lc)
          /\ l + 1 \in 1 .. nx /\ n > nb /\ n >= nb
      BY <2>1
    <2> QED
      BY <2>2 DEF nx, nb, ob, ib, lc
  <1>p. /\ IsPair(poly)
        /\ \A b \in Branches : poly[b] = <<"poly", <<"outer", b, l>>, claim[b]>>
        /\ \A b \in Branches : claim'[b] = <<"eval", <<"outer", b, l>>, c>>
    BY <1>1, PolyPairIs
  <1> HIDE DEF poly
  <1>5. OuterFilled.outer_polys[l + 1] = poly /\ CircuitOK' /\ OuterFilled.eval_W = vc.eval_W
    <2>1. l + 1 \in DOMAIN vc.outer_polys
      BY <1>o, <1>4 DEF CircuitOK
    <2> DEFINE polys == [vc.outer_polys EXCEPT ![l + 1] = poly]
    <2>2. /\ polys[l + 1] = poly /\ DOMAIN polys = DOMAIN vc.outer_polys
          /\ \A i \in DOMAIN polys : polys[i] = poly \/ polys[i] = vc.outer_polys[i]
      BY <2>1
    <2>3. OuterFilled = [vc EXCEPT !.outer_polys[l + 1] = poly]
      BY Zenon DEF OuterFilled, poly, l
    <2>4. OuterFilled = [vc EXCEPT !.outer_polys = polys]
      BY <2>3
    <2> HIDE DEF polys
    <2>5. OuterFilled = [nifs_polys |-> vc.nifs_polys, t_out_step |-> vc.t_out_step,
             eq_rho_at_rb |-> vc.eq_rho_at_rb, tau_at_rx |-> vc.tau_at_rx,
             outer_polys |-> polys, claims |-> vc.claims,
             inner_polys |-> vc.inner_polys, eval_W |-> vc.eval_W, eval_X |-> vc.eval_X]
      BY <1>4, <2>4 DEF CircuitOK
    <2>6. \A i \in 1 .. dims.nx : IsPair(polys[i])
      BY <1>4, <1>p, <2>2 DEF CircuitOK, WellFormed
    <2>7. WellFormed(vc, dims)'
      BY <1>1, <1>4, <2>5, <2>6 DEF CircuitOK, WellFormed
    <2>8. CircuitOK'
      BY <1>1, <1>4, <2>2, <2>5, <2>7 DEF CircuitOK
    <2> QED
      BY <2>2, <2>5, <2>8
  <1>6. Yields(Syn(OuterFilled), poly \o OuterDerived(dims, n, state.vars_per_round, chals),
               inputs, poly, <<>>, checks)
    <2>1. Syn(OuterFilled) = Rounds(dims, Width, OuterFilled, n, state.vars_per_round,
                                    state.challenges_per_round, chals)
      BY Zenon DEF Syn, Synthesis, n
    <2> HIDE DEF chals
    <2>2. /\ poly = OuterFilled.outer_polys[n - (dims.nb + 1) + 1]
          /\ n > dims.nb /\ n < dims.nb + 1 + dims.nx
      BY <1>3, <1>5, <1>o
    <2>3. Yields(Rounds(dims, Width, OuterFilled, n, state.vars_per_round,
                        state.challenges_per_round, chals),
                 poly \o OuterDerived(dims, n, state.vars_per_round, chals),
                 OuterInputs(dims, n, chals), poly, <<>>,
                 OuterChecks(dims, poly, n, state.vars_per_round, chals))
      <3> HIDE DEF inputs, checks
      <3> QED
        BY <1>3, <2>2, OuterYields
    <2> QED
      BY <2>1, <2>3, Zenon
  <1>7. n # OuterBase => Head(chals) = Ch(state, n)
    <2> SUFFICES ASSUME n # OuterBase PROVE Head(chals) = Ch(state, n)
      OBVIOUS
    <2>1. Now >= 1 /\ Asks(Now)
      BY <1>3, <1>o DEF Asks, n
    <2> QED
      BY <1>4, <2>1, ReadsLast DEF n
  <1>h. HeldOK(n)
    BY <1>4, <1>o DEF HandedOn, n
  <1> HIDE DEF chals
  <1>8. ASSUME NEW b \in Branches
        PROVE  OuterClaim(dims, n, state.vars_per_round, chals, b) = claim[b]
    <2>1. CASE n = OuterBase
      <3>1. state.vars_per_round[n][2] = Divided
        BY <1>h, <2>1 DEF HeldOK
      <3>2. claim[1] = Divided /\ claim[2] = Zero
        BY <1>4, <2>1 DEF ClaimOK, n
      <3>3. OuterClaim(dims, n, state.vars_per_round, chals, b)
              = IF b = 1 THEN state.vars_per_round[n][2] ELSE Zero
        BY <1>3, <2>1 DEF OuterClaim
      <3> QED
        BY <3>1, <3>2, <3>3 DEF Branches
    <2>2. CASE n # OuterBase
      <3>1. n > OuterBase /\ n < InnerBase
        BY <1>3, <1>o, <2>2
      <3>2. state.vars_per_round[n][b][2] = <<"outer", b, n - (OuterBase + 1)>>
        BY <1>h, <3>1 DEF HeldOK
      <3>3. claim[b] = <<"eval", <<"outer", b, n - (OuterBase + 1)>>, Ch(state, n)>>
        BY <1>4, <3>1 DEF ClaimOK, n
      <3>4. OuterClaim(dims, n, state.vars_per_round, chals, b)
              = EvalAt(state.vars_per_round[n][b], Head(chals))
        BY <1>3, <2>2 DEF OuterClaim
      <3> QED
        BY <1>7, <2>2, <3>2, <3>3, <3>4 DEF EvalAt
    <2> QED
      BY <2>1, <2>2
  <1>10. \A check \in checks : check[1] = check[2]
    <2>1. \A b \in Branches : Claim(poly[b]) = OuterClaim(dims, n, state.vars_per_round, chals, b)
      BY <1>8, <1>p DEF Claim
    <2> QED
      BY <2>1 DEF OuterChecks
  <1> DEFINE aux == poly \o OuterDerived(dims, n, state.vars_per_round, chals)
  <1> HIDE DEF checks, inputs, aux
  <1>11. Advanced(x, inputs, poly, <<>>, checks) /\ ChallengesGiven'
    <2>1. Yields(Syn(OuterFilled), aux, inputs, poly, <<>>, checks)
      BY <1>6 DEF aux
    <2> QED
      BY <1>1, <1>4, <2>1, Advance
  <1>12. /\ \A k \in 1 .. n : Ch(state', k) = Ch(state, k)
         /\ OuterBase' = OuterBase /\ InnerBase' = InnerBase /\ LastChallenge' = LastChallenge
         /\ c = Ch(state', n + 1)
         /\ ChecksHold'
         /\ \A m \in Nat : m = n + 1 /\ HeldOK(m)' => HandedOn'
    <2>1. ~(Now >= InnerBase - 1) /\ ~(Now >= LastChallenge) /\ ~(Now > LastChallenge)
      BY <1>o DEF n
    <2> QED
      BY <1>1, <1>10, <1>11, <2>1, ValueKept DEF n, c
  <1>13. Now' = n + 1 /\ state'.vars_per_round[n + 1] = poly
    BY <1>11 DEF Advanced, n
  <1>14. HandedOn'
    <2>0. PICK m \in Nat : m = n + 1
      BY <1>3
    <2>1. /\ ~(m <= dims.nb) /\ m # OuterBase /\ m > OuterBase /\ m # InnerBase
          /\ ~(m > InnerBase) /\ m # LastChallenge + 1 /\ m # InnerBase + 2
          /\ m - (OuterBase + 1) = l
      BY <1>3, <1>o, <2>0
    <2>2. state'.vars_per_round[m] = poly
      BY <1>13, <2>0
    <2>3. \A b \in Branches : state'.vars_per_round[m][b][2] = <<"outer", b, m - (OuterBase + 1)>>
      BY <1>p, <2>1, <2>2
    <2>4. HeldOK(m)'
      BY <1>1, <1>12, <2>1, <2>3 DEF HeldOK
    <2> QED
      BY <1>12, <2>0, <2>4
  <1>15. Kept'
    <2>1. Mirrors(state', r_b, 0)
      <3>1. 0 + Len(r_b) <= n /\ Mirrors(state, r_b, 0) /\ 0 \in Nat
        BY <1>2, <1>3, <1>4, <1>o DEF Kept
      <3> QED
        BY <1>3, <1>12, <3>1, MirrorsKept
    <2>2. Mirrors(state', r_x', OuterBase)
      <3>1. OuterBase + Len(r_x) = n /\ Mirrors(state, r_x, OuterBase)
        BY <1>2, <1>4 DEF Kept, l
      <3> QED
        BY <1>1, <1>3, <1>12, <3>1, MirrorsMore
    <2>3. Mirrors(state', r_y', InnerBase')
      BY <1>1, <1>2 DEF Mirrors
    <2>4. ~(Now' >= InnerBase')
      BY <1>3, <1>o, <1>12, <1>13
    <2> QED
      BY <1>1, <1>12, <2>1, <2>2, <2>3, <2>4 DEF Kept
  <1>16. ClaimOK'
    <2> DEFINE m == n + 1
    <2>1. /\ m # 0 /\ m # OuterBase /\ ~(m <= dims.nb) /\ m # InnerBase
          /\ ~(m > InnerBase) /\ m - (OuterBase + 1) = l /\ Now' = m
      BY <1>3, <1>o, <1>13
    <2>2. \A b \in Branches :
            claim'[b] = <<"eval", <<"outer", b, m - (OuterBase + 1)>>, Ch(state', m)>>
      BY <1>p, <1>12, <2>1
    <2> HIDE DEF m
    <2> QED
      BY <1>1, <1>12, <2>1, <2>2 DEF ClaimOK
  <1>17. state'.inputs = state.inputs \o Given
    <2>1. inputs = Given
      <3>1. n # 0 /\ ~(n > LastChallenge) /\ n < LastChallenge /\ OuterBase = dims.nb + 1
        BY <1>3, <1>o
      <3> QED
        BY <1>7, <3>1 DEF inputs, OuterInputs, Given, n
    <2> QED
      BY <1>11, <2>1 DEF Advanced
  <1> QED
    BY <1>5, <1>11, <1>12, <1>14, <1>15, <1>16, <1>17 DEF ValueInv

(* The claims about the bound polynomials of a branch have the value of its *)
(* last outer polynomial at the last challenge.                             *)
LEMMA FinalValue ==
  ASSUME NEW branch, NEW rx
  PROVE  OuterFinalValue(<<"Az", branch, rx>>, <<"Bz", branch, rx>>, <<"Cz", branch, rx>>,
                         <<"tau", rx>>)
           = <<"eval", <<"outer", branch, Len(rx) - 1>>, rx[Len(rx)]>>
  <1> DEFINE az == <<"Az", branch, rx>>
             tau == <<"tau", rx>>
  <1>1. az[2] = branch /\ tau[2] = rx
    OBVIOUS
  <1>2. az # Zero /\ tau # Zero
    <2>1. az[1] = "Az" /\ tau[1] = "tau" /\ Zero[1] = "zero"
      BY DEF Zero
    <2> QED
      BY <2>1
  <1> HIDE DEF az, tau
  <1>3. OuterFinalValue(az, <<"Bz", branch, rx>>, <<"Cz", branch, rx>>, tau)
          = <<"eval", <<"outer", branch, Len(rx) - 1>>, rx[Len(rx)]>>
    <2>1. az = <<"Az", branch, rx>>
      BY DEF az
    <2> QED
      BY <1>1, <1>2, <2>1 DEF OuterFinalValue
  <1> QED
    BY <1>3 DEF az, tau

(* So does the final outer round: what is claimed of each branch is what    *)
(* its last polynomial says.                                                *)
LEMMA ValueOuterFinal ==
  ASSUME TypeInv, BoundInv, ValueInv, NEW x, OuterFinalTaken(x)
  PROVE  ValueInv' /\ state'.inputs = state.inputs \o Given
  <1> DEFINE n == Now
             f == OuterFinalFilled
             chals == PassedChallenges(state, Now)
             h == Held(f)
             checks == FinalChecks(f, n, state.vars_per_round, chals)
             c == x.challenges[1]
             tau == <<"tau", r_x>>
  <1>1. /\ stage = "outer_final" /\ Gives /\ Rounded(f, x)
        /\ r' = c /\ claim' = JointClaim(c)
        /\ r_b' = r_b /\ r_x' = r_x /\ r_y' = r_y /\ vc' = f /\ dims' = dims
    BY DEF OuterFinalTaken, Rounded
  <1>2. n = OuterBase + dims.nx /\ Len(r_b) = dims.nb /\ Len(r_x) = dims.nx /\ Len(r_y) = 0
    BY <1>1, Where
  <1>3. /\ Sized(dims) /\ n \in Nat /\ dims.nb \in Nat /\ dims.nb >= 1 /\ dims.nx \in Nat
        /\ dims.nx >= 1
        /\ OuterBase \in Nat /\ OuterBase = dims.nb + 1
        /\ InnerBase \in Nat /\ InnerBase = OuterBase + dims.nx + 1
        /\ LastChallenge \in Nat /\ LastChallenge > InnerBase
        /\ IsSequence(r_b) /\ IsSequence(r_x) /\ IsSequence(r_y)
    BY More
  <1>4. /\ ChallengesGiven /\ Kept /\ HandedOn /\ ClaimOK /\ CircuitOK /\ ChecksHold
    BY DEF ValueInv
  <1> HIDE DEF n, c
  <1>o. /\ n > OuterBase /\ n < InnerBase /\ n < LastChallenge /\ n \in 1 .. n /\ n >= 1 /\ n # 0
        /\ n + 1 = InnerBase /\ n - (OuterBase + 1) = dims.nx - 1
        /\ ~(n > LastChallenge) /\ ~(n >= LastChallenge)
        /\ n > dims.nb /\ n >= dims.nb /\ n = dims.nb + 1 + dims.nx /\ n # OuterBase
        /\ InnerBase > OuterBase
    <2> DEFINE nx == dims.nx
               nb == dims.nb
               ob == OuterBase
               ib == InnerBase
               lc == LastChallenge
    <2>1. /\ n \in Nat /\ nb \in Nat /\ nx \in Nat /\ ob \in Nat /\ ib \in Nat /\ lc \in Nat
          /\ nb >= 1 /\ n = ob + nx /\ nx >= 1 /\ ob = nb + 1 /\ ib = ob + nx + 1
          /\ lc > ib
      BY <1>2, <1>3
    <2> HIDE DEF nx, nb, ob, ib, lc
    <2>2. /\ n > ob /\ n < ib /\ n < lc /\ n \in 1 .. n /\ n >= 1 /\ n # 0
          /\ n + 1 = ib /\ n - (ob + 1) = nx - 1
          /\ ~(n > lc) /\ ~(n >= lc)
          /\ n > nb /\ n >= nb /\ n = nb + 1 + nx /\ n # ob /\ ib > ob
      BY <2>1
    <2> QED
      BY <2>2 DEF nx, nb, ob, ib, lc
  <1>p. /\ \A b \in Branches : Claimed[b] = <<<<"Az", b, r_x>>, <<"Bz", b, r_x>>, <<"Cz", b, r_x>>>>
        /\ \A b \in Branches : IsTriple(Claimed[b])
        /\ \A b \in Branches : /\ Claimed[b][1] = <<"Az", b, r_x>>
                               /\ Claimed[b][2] = <<"Bz", b, r_x>>
                               /\ Claimed[b][3] = <<"Cz", b, r_x>>
        /\ 1 \in Branches /\ 2 \in Branches
    BY DEF Claimed, IsTriple, Branches
  <1>5. f.claims = Claimed /\ f.tau_at_rx = tau /\ CircuitOK'
    <2> DEFINE a == Claimed
    <2>1. f = [vc EXCEPT !.claims = a, !.tau_at_rx = tau]
      BY Zenon DEF OuterFinalFilled
    <2> HIDE DEF a, tau, f
    <2>2. f = [nifs_polys |-> vc.nifs_polys, t_out_step |-> vc.t_out_step,
             eq_rho_at_rb |-> vc.eq_rho_at_rb, tau_at_rx |-> tau,
             outer_polys |-> vc.outer_polys, claims |-> a,
             inner_polys |-> vc.inner_polys, eval_W |-> vc.eval_W, eval_X |-> vc.eval_X]
      BY <1>4, <2>1 DEF CircuitOK
    <2>3. IsTriple(f.claims[1]) /\ IsTriple(f.claims[2])
      BY <1>p, <2>2 DEF a
    <2>4. WellFormed(vc, dims)'
      BY <1>1, <1>4, <2>2, <2>3 DEF CircuitOK, WellFormed
    <2>5. CircuitOK'
      BY <1>1, <1>4, <2>2, <2>4 DEF CircuitOK
    <2> QED
      BY <2>2, <2>5 DEF a
  <1> DEFINE aux == <<LastClaim(n, state.vars_per_round, chals, 1),
                      LastClaim(n, state.vars_per_round, chals, 2)>> \o h
  <1>6. Yields(Syn(f), aux, <<Head(chals)>>, h, <<>>, checks)
    <2>1. Syn(f) = Rounds(dims, Width, f, n, state.vars_per_round,
                          state.challenges_per_round, chals)
      BY Zenon DEF Syn, Synthesis, n
    <2> HIDE DEF chals, f
    <2>2. Yields(Rounds(dims, Width, f, n, state.vars_per_round,
                        state.challenges_per_round, chals),
                 <<LastClaim(n, state.vars_per_round, chals, 1),
                   LastClaim(n, state.vars_per_round, chals, 2)>> \o Held(f),
                 <<Head(chals)>>, Held(f), <<>>,
                 FinalChecks(f, n, state.vars_per_round, chals))
      BY <1>3, <1>o, OuterFinalYields
    <2> QED
      BY <2>1, <2>2, Zenon
  <1> HIDE DEF f, aux
  <1>7. Head(chals) = Ch(state, n)
    <2>1. Now >= 1 /\ Asks(Now)
      BY <1>3, <1>o DEF Asks, n
    <2> QED
      BY <1>4, <2>1, ReadsLast DEF n
  <1> HIDE DEF chals
  <1>8. ASSUME NEW b \in Branches
        PROVE  LastClaim(n, state.vars_per_round, chals, b) = FinalValueOf(f, b)
    <2>1. state.vars_per_round[n][b][2] = <<"outer", b, dims.nx - 1>>
      <3>1. HeldOK(n)
        BY <1>4, <1>o DEF HandedOn, n
      <3>2. state.vars_per_round[n][b][2] = <<"outer", b, n - (OuterBase + 1)>>
        BY <1>o, <3>1 DEF HeldOK
      <3> QED
        BY <1>o, <3>2
    <2>2. LastClaim(n, state.vars_per_round, chals, b)
            = <<"eval", <<"outer", b, dims.nx - 1>>, Ch(state, n)>>
      BY <1>7, <2>1 DEF LastClaim, EvalAt
    <2>3. FinalValueOf(f, b)
            = OuterFinalValue(<<"Az", b, r_x>>, <<"Bz", b, r_x>>, <<"Cz", b, r_x>>, <<"tau", r_x>>)
      <3> HIDE DEF tau
      <3>1. FinalValueOf(f, b) = OuterFinalValue(f.claims[b][1], f.claims[b][2], f.claims[b][3],
                                                 f.tau_at_rx)
        BY Zenon DEF FinalValueOf
      <3>2. FinalValueOf(f, b)
              = OuterFinalValue(<<"Az", b, r_x>>, <<"Bz", b, r_x>>, <<"Cz", b, r_x>>, tau)
        BY <1>5, <1>p, <3>1
      <3> QED
        BY <3>2 DEF tau
    <2>4. FinalValueOf(f, b) = <<"eval", <<"outer", b, Len(r_x) - 1>>, r_x[Len(r_x)]>>
      BY <2>3, FinalValue
    <2>5. r_x[Len(r_x)] = Ch(state, n)
      <3>1. Mirrors(state, r_x, OuterBase)
        BY <1>4 DEF Kept
      <3>2. dims.nx \in 1 .. Len(r_x)
        BY <1>2, <1>3
      <3>3. r_x[dims.nx] = Ch(state, OuterBase + dims.nx)
        BY <3>1, <3>2 DEF Mirrors
      <3> QED
        BY <1>2, <3>3
    <2> QED
      BY <1>2, <2>2, <2>4, <2>5
  <1>10. \A check \in checks : check[1] = check[2]
    BY <1>8 DEF FinalChecks
  <1> HIDE DEF checks, h
  <1>11. Advanced(x, <<Head(chals)>>, h, <<>>, checks) /\ ChallengesGiven'
    BY <1>1, <1>4, <1>6, Advance
  <1>12. /\ \A k \in 1 .. n : Ch(state', k) = Ch(state, k)
         /\ OuterBase' = OuterBase /\ InnerBase' = InnerBase /\ LastChallenge' = LastChallenge
         /\ c = Ch(state', n + 1)
         /\ ChecksHold'
         /\ \A m \in Nat : m = n + 1 /\ HeldOK(m)' => HandedOn'
    <2>1. ~(Now > LastChallenge)
      BY <1>o DEF n
    <2> QED
      BY <1>1, <1>10, <1>11, <2>1, ValueKept DEF n, c
  <1>13. Now' = n + 1 /\ state'.vars_per_round[n + 1] = h
    BY <1>11 DEF Advanced, n
  <1>14. HandedOn'
    <2>0. PICK m \in Nat : m = n + 1
      BY <1>3
    <2>1. /\ ~(m <= dims.nb) /\ m # OuterBase /\ m = InnerBase /\ ~(m < InnerBase)
          /\ ~(m > InnerBase) /\ m # LastChallenge + 1 /\ m # InnerBase + 2
      BY <1>3, <1>o, <2>0
    <2>2. state'.vars_per_round[m] = h
      BY <1>13, <2>0
    <2>3. /\ \A b \in Branches : /\ h[3 * b - 2] = <<"Az", b, r_x'>>
                                 /\ h[3 * b - 1] = <<"Bz", b, r_x'>>
                                 /\ h[3 * b] = <<"Cz", b, r_x'>>
          /\ h[7] = <<"tau", r_x'>>
      <3>1. IsTriple(f.claims[1]) /\ IsTriple(f.claims[2])
        BY <1>5, <1>p
      <3>2. /\ \A b \in Branches : /\ h[3 * b - 2] = f.claims[b][1]
                                   /\ h[3 * b - 1] = f.claims[b][2]
                                   /\ h[3 * b] = f.claims[b][3]
            /\ h[7] = f.tau_at_rx
        BY <3>1, HeldIs DEF h
      <3> QED
        BY <1>1, <1>5, <1>p, <3>2
    <2>4. HeldOK(m)'
      BY <1>1, <1>12, <2>1, <2>2, <2>3 DEF HeldOK
    <2> QED
      BY <1>12, <2>0, <2>4
  <1>15. Kept'
    <2>1. Mirrors(state', r_b, 0)
      <3>1. 0 + Len(r_b) <= n /\ Mirrors(state, r_b, 0) /\ 0 \in Nat
        BY <1>2, <1>3, <1>4, <1>o DEF Kept
      <3> QED
        BY <1>3, <1>12, <3>1, MirrorsKept
    <2>2. Mirrors(state', r_x, OuterBase)
      <3>1. OuterBase + Len(r_x) <= n /\ Mirrors(state, r_x, OuterBase)
        BY <1>2, <1>3, <1>4 DEF Kept
      <3> QED
        BY <1>3, <1>12, <3>1, MirrorsKept
    <2>3. Mirrors(state', r_y', InnerBase')
      BY <1>1, <1>2 DEF Mirrors
    <2>4. r' = Ch(state', InnerBase')
      BY <1>1, <1>o, <1>12
    <2> QED
      BY <1>1, <1>12, <2>1, <2>2, <2>3, <2>4 DEF Kept
  <1>16. ClaimOK'
    <2> DEFINE m == n + 1
    <2>1. /\ m # 0 /\ m # OuterBase /\ ~(m <= dims.nb) /\ m = InnerBase /\ ~(m < InnerBase)
          /\ ~(m > InnerBase) /\ Now' = m
      BY <1>3, <1>o, <1>13
    <2>2. \A b \in Branches :
            claim'[b] = Joint(<<"Az", b, r_x'>>, <<"Bz", b, r_x'>>, <<"Cz", b, r_x'>>,
                              Ch(state', m))
      <3>1. \A b \in Branches :
              claim'[b] = Joint(Claimed[b][1], Claimed[b][2], Claimed[b][3], c)
        BY <1>1 DEF JointClaim
      <3> QED
        BY <1>1, <1>p, <1>12, <3>1
    <2> HIDE DEF m
    <2> QED
      BY <1>1, <1>12, <2>1, <2>2 DEF ClaimOK
  <1>17. state'.inputs = state.inputs \o Given
    <2>1. <<Head(chals)>> = Given
      BY <1>7, <1>o DEF Given, n
    <2> QED
      BY <1>11, <2>1 DEF Advanced
  <1> QED
    BY <1>5, <1>11, <1>12, <1>14, <1>15, <1>16, <1>17 DEF ValueInv

(* So does an inner round: the first joins the claims about the bound       *)
(* polynomials.                                                             *)
LEMMA ValueInner ==
  ASSUME TypeInv, BoundInv, ValueInv, NEW x, InnerTaken(x)
  PROVE  ValueInv' /\ state'.inputs = state.inputs \o Given
  <1> DEFINE n == Now
             l == Len(r_y)
             poly == PolyPair("inner", l)
             chals == PassedChallenges(state, Now)
             held == state.vars_per_round
             checks == InnerChecks(dims, poly, n, held, chals)
             c == x.challenges[1]
  <1>1. /\ stage = "inner" /\ Gives /\ Rounded(InnerFilled, x)
        /\ r_y' = Append(r_y, c)
        /\ claim' = NextClaim("inner", l, c)
        /\ r_b' = r_b /\ r_x' = r_x /\ r' = r /\ vc' = InnerFilled /\ dims' = dims
    BY DEF InnerTaken, Rounded
  <1>2. n = InnerBase + l /\ Len(r_b) = dims.nb /\ Len(r_x) = dims.nx /\ l < dims.ny
    BY <1>1, Where
  <1>3. /\ Sized(dims) /\ n \in Nat /\ dims.nb \in Nat /\ dims.nb >= 1 /\ dims.nx \in Nat
        /\ dims.nx >= 1 /\ dims.ny \in Nat
        /\ OuterBase \in Nat /\ OuterBase = dims.nb + 1
        /\ InnerBase \in Nat /\ InnerBase = OuterBase + dims.nx + 1
        /\ LastChallenge \in Nat /\ LastChallenge = InnerBase + dims.ny
        /\ IsSequence(r_b) /\ IsSequence(r_x) /\ IsSequence(r_y) /\ l \in Nat
    BY More, Numbers
  <1>4. /\ ChallengesGiven /\ Kept /\ HandedOn /\ ClaimOK /\ CircuitOK /\ ChecksHold
    BY DEF ValueInv
  <1> HIDE DEF n, l, c
  <1>o. /\ n > OuterBase /\ n >= InnerBase /\ n < LastChallenge /\ n \in 1 .. n /\ n >= 1 /\ n # 0
        /\ n - InnerBase + 1 = l + 1 /\ n + 1 - (InnerBase + 1) = l
        /\ n + 1 > InnerBase /\ n + 1 <= LastChallenge
        /\ ~(n > LastChallenge) /\ ~(n >= LastChallenge)
        /\ n >= dims.nb /\ n # OuterBase /\ InnerBase = dims.nb + dims.nx + 2
        /\ InnerBase > OuterBase /\ n > dims.nb + 1 + dims.nx
        /\ n < dims.nb + dims.nx + dims.ny + 2 /\ InnerBase \in 1 .. n
        /\ l + 1 \in 1 .. dims.ny /\ OuterBase + dims.nx <= n /\ n <= LastChallenge
    <2> DEFINE nx == dims.nx
               nb == dims.nb
               ny == dims.ny
               ob == OuterBase
               ib == InnerBase
               lc == LastChallenge
    <2>1. /\ n \in Nat /\ nb \in Nat /\ nx \in Nat /\ ny \in Nat /\ ob \in Nat /\ ib \in Nat
          /\ lc \in Nat /\ l \in Nat
          /\ nb >= 1 /\ n = ib + l /\ nx >= 1 /\ ob = nb + 1 /\ ib = ob + nx + 1
          /\ lc = ib + ny /\ l < ny
      BY <1>2, <1>3
    <2> HIDE DEF nx, nb, ny, ob, ib, lc
    <2>2. /\ n > ob /\ n >= ib /\ n < lc /\ n \in 1 .. n /\ n >= 1 /\ n # 0
          /\ n - ib + 1 = l + 1 /\ n + 1 - (ib + 1) = l
          /\ n + 1 > ib /\ n + 1 <= lc
          /\ ~(n > lc) /\ ~(n >= lc)
          /\ n >= nb /\ n # ob /\ ib = nb + nx + 2
          /\ ib > ob /\ n > nb + 1 + nx
          /\ n < nb + nx + ny + 2 /\ ib \in 1 .. n
          /\ l + 1 \in 1 .. ny /\ ob + nx <= n /\ n <= lc
      BY <2>1
    <2> QED
      BY <2>2 DEF nx, nb, ny, ob, ib, lc
  <1>p. /\ IsPair(poly)
        /\ \A b \in Branches : poly[b] = <<"poly", <<"inner", b, l>>, claim[b]>>
        /\ \A b \in Branches : claim'[b] = <<"eval", <<"inner", b, l>>, c>>
    BY <1>1, PolyPairIs
  <1> HIDE DEF poly, held
  <1>5. InnerFilled.inner_polys[l + 1] = poly /\ CircuitOK' /\ InnerFilled.eval_W = vc.eval_W
    <2>1. l + 1 \in DOMAIN vc.inner_polys
      BY <1>o, <1>4 DEF CircuitOK
    <2> DEFINE polys == [vc.inner_polys EXCEPT ![l + 1] = poly]
    <2>2. /\ polys[l + 1] = poly /\ DOMAIN polys = DOMAIN vc.inner_polys
          /\ \A i \in DOMAIN polys : polys[i] = poly \/ polys[i] = vc.inner_polys[i]
      BY <2>1
    <2>3. InnerFilled = [vc EXCEPT !.inner_polys[l + 1] = poly]
      BY Zenon DEF InnerFilled, poly, l
    <2>4. InnerFilled = [vc EXCEPT !.inner_polys = polys]
      BY <2>3
    <2> HIDE DEF polys
    <2>5. InnerFilled = [nifs_polys |-> vc.nifs_polys, t_out_step |-> vc.t_out_step,
             eq_rho_at_rb |-> vc.eq_rho_at_rb, tau_at_rx |-> vc.tau_at_rx,
             outer_polys |-> vc.outer_polys, claims |-> vc.claims,
             inner_polys |-> polys, eval_W |-> vc.eval_W, eval_X |-> vc.eval_X]
      BY <1>4, <2>4 DEF CircuitOK
    <2>6. \A i \in 1 .. dims.ny : IsPair(polys[i])
      BY <1>4, <1>p, <2>2 DEF CircuitOK, WellFormed
    <2>7. WellFormed(vc, dims)'
      BY <1>1, <1>4, <2>5, <2>6 DEF CircuitOK, WellFormed
    <2>8. CircuitOK'
      BY <1>1, <1>4, <2>2, <2>5, <2>7 DEF CircuitOK
    <2> QED
      BY <2>2, <2>5, <2>8
  <1> DEFINE aux == poly \o <<InnerClaim(dims, n, held, chals, 1),
                              InnerClaim(dims, n, held, chals, 2)>>
  <1>6. Yields(Syn(InnerFilled), aux, <<Head(chals)>>, poly, <<Head(chals)>>, checks)
    <2>1. Syn(InnerFilled) = Rounds(dims, Width, InnerFilled, n, held,
                                    state.challenges_per_round, chals)
      BY Zenon DEF Syn, Synthesis, n, held
    <2> HIDE DEF chals
    <2>2. poly = InnerFilled.inner_polys[n - (dims.nb + dims.nx + 2) + 1]
      BY <1>5, <1>o
    <2>3. Yields(Rounds(dims, Width, InnerFilled, n, held, state.challenges_per_round, chals),
                 poly \o <<InnerClaim(dims, n, held, chals, 1),
                           InnerClaim(dims, n, held, chals, 2)>>,
                 <<Head(chals)>>, poly, <<Head(chals)>>,
                 InnerChecks(dims, poly, n, held, chals))
      <3> HIDE DEF checks, aux
      <3> QED
        BY <1>3, <1>o, <2>2, InnerYields
    <2> QED
      BY <2>1, <2>3, Zenon
  <1> HIDE DEF aux
  <1>7. Head(chals) = Ch(state, n)
    <2>1. Now >= 1 /\ Asks(Now)
      BY <1>o DEF Asks, n
    <2> QED
      BY <1>4, <2>1, ReadsLast DEF n
  <1>h. HeldOK(n) /\ HeldOK(InnerBase)
    BY <1>4, <1>o DEF HandedOn, n
  <1> HIDE DEF chals
  <1>8. ASSUME NEW b \in Branches
        PROVE  InnerClaim(dims, n, held, chals, b) = claim[b]
    <2>1. CASE n = InnerBase
      <3>1. /\ held[InnerBase][3 * b - 2] = <<"Az", b, r_x>>
            /\ held[InnerBase][3 * b - 1] = <<"Bz", b, r_x>>
            /\ held[InnerBase][3 * b] = <<"Cz", b, r_x>>
        BY <1>h DEF HeldOK, held
      <3>2. claim[b] = Joint(<<"Az", b, r_x>>, <<"Bz", b, r_x>>, <<"Cz", b, r_x>>, Ch(state, n))
        BY <1>4, <2>1 DEF ClaimOK, n
      <3>3. InnerClaim(dims, n, held, chals, b)
              = Joint(held[InnerBase][3 * b - 2], held[InnerBase][3 * b - 1],
                      held[InnerBase][3 * b], Head(chals))
        BY <1>o, <2>1 DEF InnerClaim
      <3> QED
        BY <1>7, <3>1, <3>2, <3>3
    <2>2. CASE n # InnerBase
      <3>1. n > InnerBase /\ n <= LastChallenge
        BY <1>3, <1>o, <2>2
      <3>2. held[n][b][2] = <<"inner", b, n - (InnerBase + 1)>>
        BY <1>h, <3>1 DEF HeldOK, held
      <3>3. claim[b] = <<"eval", <<"inner", b, n - (InnerBase + 1)>>, Ch(state, n)>>
        BY <1>4, <3>1 DEF ClaimOK, n
      <3>4. InnerClaim(dims, n, held, chals, b) = EvalAt(held[n][b], Head(chals))
        BY <1>o, <2>2 DEF InnerClaim
      <3> QED
        BY <1>7, <3>2, <3>3, <3>4 DEF EvalAt
    <2> QED
      BY <2>1, <2>2
  <1>10. \A check \in checks : check[1] = check[2]
    <2>1. \A b \in Branches : Claim(poly[b]) = InnerClaim(dims, n, held, chals, b)
      BY <1>8, <1>p DEF Claim
    <2> QED
      BY <2>1 DEF InnerChecks
  <1> HIDE DEF checks
  <1>11. Advanced(x, <<Head(chals)>>, poly, <<Head(chals)>>, checks) /\ ChallengesGiven'
    BY <1>1, <1>4, <1>6, Advance
  <1>12. /\ \A k \in 1 .. n : Ch(state', k) = Ch(state, k)
         /\ OuterBase' = OuterBase /\ InnerBase' = InnerBase /\ LastChallenge' = LastChallenge
         /\ c = Ch(state', n + 1)
         /\ ChecksHold'
         /\ \A m \in Nat : m = n + 1 /\ HeldOK(m)' => HandedOn'
    <2>1. ~(Now >= LastChallenge) /\ ~(Now > LastChallenge)
      BY <1>o DEF n
    <2> QED
      BY <1>1, <1>10, <1>11, <2>1, ValueKept DEF n, c
  <1>13. /\ Now' = n + 1 /\ state'.vars_per_round[n + 1] = poly
         /\ state'.challenges_per_round[n + 1] = <<Ch(state, n)>>
    BY <1>7, <1>11 DEF Advanced, n
  <1>14. HandedOn'
    <2>0. PICK m \in Nat : m = n + 1
      BY <1>3
    <2>1. /\ ~(m <= dims.nb) /\ m # OuterBase /\ ~(m < InnerBase) /\ m # InnerBase
          /\ m > InnerBase /\ m <= LastChallenge /\ m # LastChallenge + 1
          /\ m - (InnerBase + 1) = l
      BY <1>3, <1>o, <2>0
    <2>2. state'.vars_per_round[m] = poly
      BY <1>13, <2>0
    <2>3. \A b \in Branches : state'.vars_per_round[m][b][2] = <<"inner", b, m - (InnerBase + 1)>>
      BY <1>p, <2>1, <2>2
    <2>4. m = InnerBase + 2 => state'.challenges_per_round[m] = <<Ch(state', InnerBase + 1)>>
      <3> SUFFICES ASSUME m = InnerBase + 2
                   PROVE  state'.challenges_per_round[m] = <<Ch(state', InnerBase + 1)>>
        OBVIOUS
      <3>1. n = InnerBase + 1
        BY <1>3, <2>0
      <3> QED
        BY <1>o, <1>12, <1>13, <2>0, <3>1
    <2>5. HeldOK(m)'
      BY <1>1, <1>12, <2>1, <2>3, <2>4 DEF HeldOK
    <2> QED
      BY <1>12, <2>0, <2>5
  <1>15. Kept'
    <2>1. Mirrors(state', r_b, 0)
      <3>0. dims.nb \in Nat /\ dims.nb <= n /\ Len(r_b) = dims.nb
        BY <1>2, <1>3, <1>o
      <3>1. 0 + Len(r_b) <= n /\ Mirrors(state, r_b, 0) /\ 0 \in Nat
        BY <1>3, <1>4, <3>0 DEF Kept
      <3> QED
        BY <1>3, <1>12, <3>1, MirrorsKept
    <2>2. Mirrors(state', r_x, OuterBase)
      <3>1. OuterBase + Len(r_x) <= n /\ Mirrors(state, r_x, OuterBase)
        BY <1>2, <1>4, <1>o DEF Kept
      <3> QED
        BY <1>3, <1>12, <3>1, MirrorsKept
    <2>3. Mirrors(state', r_y', InnerBase)
      <3>1. InnerBase + Len(r_y) = n /\ Mirrors(state, r_y, InnerBase)
        BY <1>2, <1>4 DEF Kept, l
      <3> QED
        BY <1>1, <1>3, <1>12, <3>1, MirrorsMore
    <2>4. r' = Ch(state', InnerBase)
      BY <1>1, <1>4, <1>o, <1>12 DEF Kept, n
    <2> QED
      BY <1>1, <1>12, <2>1, <2>2, <2>3, <2>4 DEF Kept
  <1>16. ClaimOK'
    <2> DEFINE m == n + 1
    <2>1. /\ m # 0 /\ m # OuterBase /\ ~(m <= dims.nb) /\ m # InnerBase /\ ~(m < InnerBase)
          /\ m > InnerBase /\ m <= LastChallenge /\ m - (InnerBase + 1) = l /\ Now' = m
      BY <1>3, <1>o, <1>13
    <2>2. \A b \in Branches :
            claim'[b] = <<"eval", <<"inner", b, m - (InnerBase + 1)>>, Ch(state', m)>>
      BY <1>p, <1>12, <2>1
    <2> HIDE DEF m
    <2> QED
      BY <1>1, <1>12, <2>1, <2>2 DEF ClaimOK
  <1>17. state'.inputs = state.inputs \o Given
    <2>1. <<Head(chals)>> = Given
      BY <1>7, <1>o DEF Given, n
    <2> QED
      BY <1>11, <2>1 DEF Advanced
  <1> QED
    BY <1>5, <1>11, <1>12, <1>14, <1>15, <1>16, <1>17 DEF ValueInv

(* The evaluations of the branches. *)
LEMMA EvalsIs ==
  ASSUME NEW kind, NEW point
  PROVE  /\ IsPair(EvalsAt(kind, point))
         /\ EvalsAt(kind, point)[1] = <<kind, 1, point>>
         /\ EvalsAt(kind, point)[2] = <<kind, 2, point>>
         /\ EvalsAt(kind, point) = <<<<kind, 1, point>>, <<kind, 2, point>>>>
  <1> DEFINE p == EvalsAt(kind, point)
             a == <<kind, 1, point>>
             b == <<kind, 2, point>>
  <1>1. p[1] = a /\ p[2] = b /\ p = [i \in Branches |-> p[i]]
    BY DEF EvalsAt, Branches
  <1>2. p = Pair(a, b)
    <2> HIDE DEF p, a, b
    <2>1. \A i \in Branches : p[i] = IF i = 1 THEN a ELSE b
      BY <1>1 DEF Branches
    <2> QED
      BY <1>1, <2>1 DEF Pair
  <1> HIDE DEF p, a, b
  <1>3. IsPair(p) /\ p = <<a, b>>
    BY <1>2, PairIs
  <1> QED
    BY <1>1, <1>3 DEF p, a, b

(* Seven elements put together. *)
LEMMA SevenOf ==
  ASSUME NEW a1, NEW a2, NEW a3, NEW a4, NEW a5, NEW a6, NEW a7
  PROVE  <<a1, a2>> \o <<a3, a4>> \o <<a5, a6, a7>> = <<a1, a2, a3, a4, a5, a6, a7>>
  <1> DEFINE s == <<a1, a2>>
             t == <<a3, a4>>
             u == <<a5, a6, a7>>
             st == s \o t
             v == <<a1, a2, a3, a4, a5, a6, a7>>
  <1>1. /\ IsSequence(s) /\ Len(s) = 2 /\ IsSequence(t) /\ Len(t) = 2
        /\ IsSequence(u) /\ Len(u) = 3
    BY Tuples
  <1>2. IsSequence(v) /\ Len(v) = 7
    BY DEF IsSequence, Range
  <1>3. /\ s[1] = a1 /\ s[2] = a2 /\ t[1] = a3 /\ t[2] = a4
        /\ u[1] = a5 /\ u[2] = a6 /\ u[3] = a7
        /\ v[1] = a1 /\ v[2] = a2 /\ v[3] = a3 /\ v[4] = a4 /\ v[5] = a5 /\ v[6] = a6 /\ v[7] = a7
    OBVIOUS
  <1> HIDE DEF s, t, u, v
  <1>4. Concatenates(st, s, t)
    BY <1>1, Concatenated
  <1> HIDE DEF st
  <1>5. IsSequence(st) /\ Len(st) = 4 /\ st[1] = a1 /\ st[2] = a2 /\ st[3] = a3 /\ st[4] = a4
    <2>1. /\ IsSequence(st) /\ Len(st) = 2 + 2
          /\ \A i \in 1 .. 2 : st[i] = s[i]
          /\ \A i \in 1 .. 2 : st[2 + i] = t[i]
      BY <1>1, <1>4 DEF Concatenates
    <2>2. st[2 + 1] = t[1] /\ st[2 + 2] = t[2] /\ st[1] = s[1] /\ st[2] = s[2]
      BY <2>1
    <2> QED
      BY <1>3, <2>1, <2>2
  <1> DEFINE w == st \o u
  <1>6. Concatenates(w, st, u)
    BY <1>1, <1>5, Concatenated
  <1> HIDE DEF w
  <1>7. IsSequence(w) /\ Len(w) = 7 /\ \A i \in 1 .. 7 : w[i] = v[i]
    <2>1. /\ IsSequence(w) /\ Len(w) = 4 + 3
          /\ \A i \in 1 .. 4 : w[i] = st[i]
          /\ \A i \in 1 .. 3 : w[4 + i] = u[i]
      BY <1>1, <1>5, <1>6 DEF Concatenates
    <2>2. w[4 + 1] = u[1] /\ w[4 + 2] = u[2] /\ w[4 + 3] = u[3]
      BY <2>1
    <2>3. w[1] = st[1] /\ w[2] = st[2] /\ w[3] = st[3] /\ w[4] = st[4]
      BY <2>1
    <2>4. /\ w[1] = v[1] /\ w[2] = v[2] /\ w[3] = v[3] /\ w[4] = v[4]
          /\ w[5] = v[5] /\ w[6] = v[6] /\ w[7] = v[7]
      BY <1>3, <1>5, <2>2, <2>3
    <2>5. \A i \in 1 .. 7 : i \in {1, 2, 3, 4, 5, 6, 7}
      OBVIOUS
    <2> QED
      BY <2>1, <2>4, <2>5
  <1>8. w = v
    BY <1>2, <1>7, SameSequence
  <1> QED
    BY <1>8 DEF w, st, v, s, t, u

(* So does the final inner round, which reads the rounds before it. *)
LEMMA ValueInnerFinal ==
  ASSUME TypeInv, BoundInv, ValueInv, NEW x, InnerFinalTaken(x)
  PROVE  ValueInv' /\ state'.inputs = state.inputs \o Given
  <1> DEFINE n == Now
             f == InnerFinalFilled
             chals == PassedChallenges(state, Now)
             held == state.vars_per_round
             prev == state.challenges_per_round
             aux == <<LastClaim(n, held, chals, 1), LastClaim(n, held, chals, 2)>> \o EvalW
             q(b) == QuotientOf(dims, f, n, held, prev, chals, b)
             inputs == <<Head(chals), held[InnerBase][7]>> \o EvalX
                         \o <<held[OuterBase][1], q(1), q(2)>>
  <1>1. /\ stage = "inner_final" /\ Rounded(f, x) /\ claim' = claim
        /\ r_b' = r_b /\ r_x' = r_x /\ r' = r /\ r_y' = r_y /\ vc' = f /\ dims' = dims
    BY DEF InnerFinalTaken, Rounded
  <1>2. n = LastChallenge /\ Len(r_b) = dims.nb /\ Len(r_x) = dims.nx /\ Len(r_y) = dims.ny
    BY <1>1, Where
  <1>3. /\ Sized(dims) /\ n \in Nat /\ dims.nb \in Nat /\ dims.nb >= 1 /\ dims.nx \in Nat
        /\ dims.nx >= 1 /\ dims.ny \in Nat /\ dims.ny >= 2
        /\ OuterBase \in Nat /\ OuterBase = dims.nb + 1
        /\ InnerBase \in Nat /\ InnerBase = OuterBase + dims.nx + 1
        /\ LastChallenge \in Nat /\ LastChallenge = InnerBase + dims.ny
        /\ IsSequence(r_b) /\ IsSequence(r_x) /\ IsSequence(r_y)
    BY More
  <1>4. /\ ChallengesGiven /\ Kept /\ HandedOn /\ ClaimOK /\ CircuitOK /\ ChecksHold
    BY DEF ValueInv
  <1> HIDE DEF n
  <1>o. /\ n > OuterBase /\ n > InnerBase /\ n \in 1 .. n /\ n >= 1 /\ n # 0 /\ n <= LastChallenge
        /\ ~(n < LastChallenge) /\ ~(n > LastChallenge) /\ n # OuterBase
        /\ n >= dims.nb /\ InnerBase = dims.nb + dims.nx + 2
        /\ n = dims.nb + dims.nx + dims.ny + 2 /\ InnerBase + 2 = dims.nb + dims.nx + 4
        /\ InnerBase \in 1 .. n /\ OuterBase \in 1 .. n /\ InnerBase + 2 \in 1 .. n
        /\ OuterBase + dims.nx <= n /\ InnerBase + dims.ny <= n
        /\ InnerBase > OuterBase /\ n - (InnerBase + 1) = dims.ny - 1 /\ ~(n + 1 <= dims.nb)
        /\ n + 1 # OuterBase /\ n + 1 # InnerBase /\ ~(n + 1 < InnerBase)
        /\ n + 1 # InnerBase + 2 /\ n + 1 > InnerBase
    <2> DEFINE nx == dims.nx
               nb == dims.nb
               ny == dims.ny
               ob == OuterBase
               ib == InnerBase
               lc == LastChallenge
    <2>1. /\ n \in Nat /\ nb \in Nat /\ nx \in Nat /\ ny \in Nat /\ ob \in Nat /\ ib \in Nat
          /\ lc \in Nat /\ ny >= 2
          /\ nb >= 1 /\ n = lc /\ nx >= 1 /\ ob = nb + 1 /\ ib = ob + nx + 1
          /\ lc = ib + ny
      BY <1>2, <1>3
    <2> HIDE DEF nx, nb, ny, ob, ib, lc
    <2>2. /\ n > ob /\ n > ib /\ n \in 1 .. n /\ n >= 1 /\ n # 0 /\ n <= lc
          /\ ~(n < lc) /\ ~(n > lc) /\ n # ob
          /\ n >= nb /\ ib = nb + nx + 2
          /\ n = nb + nx + ny + 2 /\ ib + 2 = nb + nx + 4
          /\ ib \in 1 .. n /\ ob \in 1 .. n /\ ib + 2 \in 1 .. n
          /\ ob + nx <= n /\ ib + ny <= n
          /\ ib > ob /\ n - (ib + 1) = ny - 1 /\ ~(n + 1 <= nb)
          /\ n + 1 # ob /\ n + 1 # ib /\ ~(n + 1 < ib)
          /\ n + 1 # ib + 2 /\ n + 1 > ib
      BY <2>1
    <2> QED
      BY <2>2 DEF nx, nb, ny, ob, ib, lc
  <1>5. f.eval_W = EvalW /\ f.eval_X = EvalX /\ CircuitOK'
    <2> DEFINE a == EvalW
               b == EvalX
    <2>1. f = [vc EXCEPT !.eval_W = a, !.eval_X = b]
      BY Zenon DEF InnerFinalFilled, EvalW, EvalX
    <2>2. IsPair(a) /\ IsPair(b)
      BY EvalsIs DEF EvalW, EvalX
    <2> HIDE DEF a, b, f
    <2>3. f = [nifs_polys |-> vc.nifs_polys, t_out_step |-> vc.t_out_step,
             eq_rho_at_rb |-> vc.eq_rho_at_rb, tau_at_rx |-> vc.tau_at_rx,
             outer_polys |-> vc.outer_polys, claims |-> vc.claims,
             inner_polys |-> vc.inner_polys, eval_W |-> a, eval_X |-> b]
      BY <1>4, <2>1 DEF CircuitOK
    <2>4. WellFormed(vc, dims)'
      BY <1>1, <1>4, <2>2, <2>3 DEF CircuitOK, WellFormed
    <2>5. CircuitOK'
      BY <1>1, <1>4, <2>3, <2>4 DEF CircuitOK
    <2> QED
      BY <2>3, <2>5 DEF a, b
  <1>6. Yields(Syn(f), aux, inputs, EvalW, <<>>, {})
    <2>1. Syn(f) = Rounds(dims, Width, f, n, held, prev, chals)
      BY Zenon DEF Syn, Synthesis, n
    <2> HIDE DEF chals, f, held, prev
    <2>2. Yields(Rounds(dims, Width, f, n, held, prev, chals),
                 <<LastClaim(n, held, chals, 1), LastClaim(n, held, chals, 2)>> \o f.eval_W,
                 <<Head(chals), held[dims.nb + dims.nx + 2][7]>> \o f.eval_X
                   \o <<held[dims.nb + 1][1], QuotientOf(dims, f, n, held, prev, chals, 1),
                        QuotientOf(dims, f, n, held, prev, chals, 2)>>,
                 f.eval_W, <<>>, {})
      BY <1>3, <1>o, InnerFinalYields
    <2> QED
      BY <1>3, <1>5, <1>o, <2>1, <2>2, Zenon
  <1> HIDE DEF f, aux
  <1>7. Head(chals) = Ch(state, n)
    <2>1. Now >= 1 /\ Asks(Now)
      BY <1>o DEF Asks, n
    <2> QED
      BY <1>4, <2>1, ReadsLast DEF n
  <1>h. HeldOK(n) /\ HeldOK(InnerBase) /\ HeldOK(OuterBase) /\ HeldOK(InnerBase + 2)
    BY <1>4, <1>o DEF HandedOn, n
  <1> HIDE DEF chals, held, prev
  <1>8. held[InnerBase][7] = <<"tau", r_x>> /\ held[OuterBase][1] = EqRho
        /\ prev[InnerBase + 2][1] = Ch(state, InnerBase + 1)
    <2>1. prev[InnerBase + 2] = <<Ch(state, InnerBase + 1)>>
      BY <1>h DEF HeldOK, prev
    <2>2. held[InnerBase][7] = <<"tau", r_x>>
      BY <1>h, Zenon DEF HeldOK, held
    <2>3. held[OuterBase][1] = EqRho
      BY <1>h, Zenon DEF HeldOK, held
    <2>4. prev[InnerBase + 2][1] = Ch(state, InnerBase + 1)
      BY <2>1
    <2> QED
      BY <2>2, <2>3, <2>4
  <1>9. ASSUME NEW b \in Branches
        PROVE  q(b) = Quotients(b)
    <2>1. held[n][b][2] = <<"inner", b, dims.ny - 1>>
      <3>1. held[n][b][2] = <<"inner", b, n - (InnerBase + 1)>>
        BY <1>h, <1>o DEF HeldOK, held
      <3> QED
        BY <1>o, <3>1
    <2>2. LastClaim(n, held, chals, b) = LastEval(b)
      BY <1>2, <1>7, <2>1 DEF LastClaim, LastEval, EvalAt
    <2>3. EvalW[b] = <<"eval_W", b, Tail(r_y)>> /\ EvalX[b] = <<"eval_X", b, Tail(r_y)>>
      BY DEF EvalW, EvalX, EvalsAt
    <2>4. q(b) = Quotient(LastClaim(n, held, chals, b), f.eval_W[b], f.eval_X[b],
                          prev[dims.nb + dims.nx + 4][1])
      BY Zenon DEF QuotientOf
    <2> HIDE DEF q
    <2> QED
      BY <1>5, <1>8, <1>o, <2>2, <2>3, <2>4 DEF Quotients
  <1>10. inputs = Given
    <2> DEFINE p == <<"tau", r_x>>
               u == Tail(r_y)
               a == <<"eval_X", 1, u>>
               b == <<"eval_X", 2, u>>
               e == EqRho
               v == Quotients(1)
               w == Quotients(2)
               h == Ch(state, n)
    <2>1. /\ Head(chals) = h /\ held[InnerBase][7] = p /\ EvalX = <<a, b>>
          /\ held[OuterBase][1] = e /\ q(1) = v /\ q(2) = w
      <3> HIDE DEF q
      <3>1. EvalX = <<a, b>>
        BY EvalsIs DEF EvalX
      <3>2. q(1) = v /\ q(2) = w
        BY <1>9 DEF Branches
      <3> QED
        BY <1>7, <1>8, <3>1, <3>2
    <2>2. Given = <<h, p, a, b, e, v, w>>
      <3> DEFINE pub == PublicValues
      <3>1. pub = <<p, a, b, e, v, w>>
        BY DEF PublicValues
      <3>2. Given = <<h, pub[1], pub[2], pub[3], pub[4], pub[5], pub[6]>>
        BY <1>o DEF Given, n
      <3> HIDE DEF pub, p, a, b, e, v, w, h
      <3>3. pub[1] = p /\ pub[2] = a /\ pub[3] = b /\ pub[4] = e /\ pub[5] = v /\ pub[6] = w
        BY <3>1
      <3> QED
        BY <3>2, <3>3
    <2> HIDE DEF q, p, a, b, e, v, w, h
    <2>3. inputs = <<h, p>> \o <<a, b>> \o <<e, v, w>>
      BY <2>1, Zenon
    <2>4. <<h, p>> \o <<a, b>> \o <<e, v, w>> = <<h, p, a, b, e, v, w>>
      BY SevenOf
    <2> HIDE DEF inputs
    <2> QED
      BY <2>2, <2>3, <2>4
  <1> HIDE DEF inputs
  <1>11. Advanced(x, inputs, EvalW, <<>>, {}) /\ ChallengesGiven'
    <2>1. ~Asks(Now + 1)
      <3>1. ~(n + 1 <= LastChallenge)
        BY <1>2, <1>3
      <3> QED
        BY <1>o, <3>1 DEF Asks, n
    <2> QED
      BY <1>1, <1>4, <1>6, <2>1, Advance
  <1>12. /\ \A k \in 1 .. n : Ch(state', k) = Ch(state, k)
         /\ OuterBase' = OuterBase /\ InnerBase' = InnerBase /\ LastChallenge' = LastChallenge
         /\ ChecksHold'
         /\ \A m \in Nat : m = n + 1 /\ HeldOK(m)' => HandedOn'
    <2>1. ~(Now > LastChallenge)
      BY <1>o DEF n
    <2> QED
      BY <1>1, <1>11, <2>1, ValueKept DEF n
  <1>13. /\ Now' = n + 1 /\ state'.vars_per_round[n + 1] = EvalW
         /\ state'.inputs = state.inputs \o inputs
    BY <1>11 DEF Advanced, n
  <1>e. EvalW' = EvalW
    BY <1>1 DEF EvalW
  <1>14. HandedOn'
    <2>0. PICK m \in Nat : m = n + 1
      BY <1>3
    <2>1. /\ ~(m <= dims.nb) /\ m # OuterBase /\ ~(m < InnerBase) /\ m # InnerBase
          /\ ~(m <= LastChallenge) /\ m # InnerBase + 2
      BY <1>2, <1>3, <1>o, <2>0
    <2>2. state'.vars_per_round[m] = EvalW' /\ vc'.eval_W = EvalW'
      BY <1>1, <1>5, <1>13, <1>e, <2>0
    <2>3. HeldOK(m)'
      BY <1>1, <1>12, <2>1, <2>2 DEF HeldOK
    <2> QED
      BY <1>12, <2>0, <2>3
  <1>15. Kept'
    <2>1. Mirrors(state', r_b, 0)
      <3>0. dims.nb \in Nat /\ dims.nb <= n /\ Len(r_b) = dims.nb
        BY <1>2, <1>3, <1>o
      <3>1. 0 + Len(r_b) <= n /\ Mirrors(state, r_b, 0) /\ 0 \in Nat
        BY <1>3, <1>4, <3>0 DEF Kept
      <3> QED
        BY <1>3, <1>12, <3>1, MirrorsKept
    <2>2. Mirrors(state', r_x, OuterBase)
      <3>1. OuterBase + Len(r_x) <= n /\ Mirrors(state, r_x, OuterBase)
        BY <1>2, <1>4, <1>o DEF Kept
      <3> QED
        BY <1>3, <1>12, <3>1, MirrorsKept
    <2>3. Mirrors(state', r_y, InnerBase)
      <3>1. InnerBase + Len(r_y) <= n /\ Mirrors(state, r_y, InnerBase)
        BY <1>2, <1>4, <1>o DEF Kept
      <3> QED
        BY <1>3, <1>12, <3>1, MirrorsKept
    <2>4. r' = Ch(state', InnerBase)
      <3>1. Now >= InnerBase
        BY <1>3, <1>o DEF n
      <3> QED
        BY <1>1, <1>4, <1>o, <1>12, <3>1 DEF Kept
    <2> QED
      BY <1>1, <1>12, <2>1, <2>2, <2>3, <2>4 DEF Kept
  <1>16. ClaimOK'
    <2> DEFINE m == n + 1
    <2>1. /\ m # 0 /\ m # OuterBase /\ ~(m <= dims.nb) /\ m # InnerBase /\ ~(m < InnerBase)
          /\ ~(m <= LastChallenge) /\ Now' = m
      <3>1. n + 1 # 0 /\ ~(n + 1 <= LastChallenge)
        BY SMTT(30), <1>2, <1>3
      <3> QED
        BY <1>o, <1>13, <3>1
    <2> HIDE DEF m
    <2> QED
      BY <1>1, <1>12, <2>1 DEF ClaimOK
  <1> QED
    BY <1>5, <1>10, <1>11, <1>12, <1>13, <1>14, <1>15, <1>16 DEF ValueInv

(* So do the rounds that commit to the evaluations.                         *)
LEMMA ValueCommit ==
  ASSUME TypeInv, BoundInv, ValueInv, NEW b \in Branches, NEW x, CommitTaken(b, x)
  PROVE  ValueInv' /\ state'.inputs = state.inputs \o Given
  <1> DEFINE n == Now
             chals == PassedChallenges(state, Now)
             held == state.vars_per_round
             e == EvalW[b]
             aux == WithZeros(e, Width)
             checks == {<<e, held[LastChallenge + 1][b]>>}
  <1>1. /\ stage = (IF b = 1 THEN "commit_w_step" ELSE "commit_w_core") /\ Rounded(vc, x)
        /\ claim' = claim
        /\ r_b' = r_b /\ r_x' = r_x /\ r' = r /\ r_y' = r_y /\ vc' = vc /\ dims' = dims
    BY DEF CommitTaken, Rounded
  <1>2. n = LastChallenge + b /\ Len(r_b) = dims.nb /\ Len(r_x) = dims.nx /\ Len(r_y) = dims.ny
    <2>1. CASE b = 1
      BY <1>1, <2>1, Where
    <2>2. CASE b = 2
      BY <1>1, <2>2, Where
    <2> QED
      BY <2>1, <2>2 DEF Branches
  <1>3. /\ Sized(dims) /\ n \in Nat /\ dims.nb \in Nat /\ dims.nb >= 1 /\ dims.nx \in Nat
        /\ dims.nx >= 1 /\ dims.ny \in Nat /\ dims.ny >= 2
        /\ OuterBase \in Nat /\ OuterBase = dims.nb + 1
        /\ InnerBase \in Nat /\ InnerBase = OuterBase + dims.nx + 1
        /\ LastChallenge \in Nat /\ LastChallenge = InnerBase + dims.ny
        /\ IsSequence(r_b) /\ IsSequence(r_x) /\ IsSequence(r_y)
    BY More
  <1>4. /\ ChallengesGiven /\ Kept /\ HandedOn /\ ClaimOK /\ CircuitOK /\ ChecksHold
    BY DEF ValueInv
  <1> HIDE DEF n, aux, checks, e, held, chals
  <1>o. /\ n # 0 /\ n > LastChallenge /\ LastChallenge + 1 \in 1 .. n
        /\ InnerBase = dims.nb + dims.nx + 2
        /\ n = dims.nb + dims.nx + dims.ny + 2 + b
        /\ LastChallenge + 1 = dims.nb + dims.nx + dims.ny + 3
        /\ dims.nb <= n /\ OuterBase + dims.nx <= n /\ InnerBase + dims.ny <= n
        /\ InnerBase \in 1 .. n /\ n >= InnerBase /\ ~(n + 1 <= dims.nb)
        /\ n + 1 # 0 /\ n + 1 # OuterBase /\ n + 1 # InnerBase /\ ~(n + 1 < InnerBase)
        /\ ~(n + 1 <= LastChallenge) /\ n + 1 # LastChallenge + 1 /\ n + 1 # InnerBase + 2
    <2> DEFINE nx == dims.nx
               nb == dims.nb
               ny == dims.ny
               ob == OuterBase
               ib == InnerBase
               lc == LastChallenge
    <2>0. b \in Nat /\ b >= 1
      BY DEF Branches
    <2>a. n = LastChallenge + b
      BY <1>2
    <2>1. /\ n \in Nat /\ nb \in Nat /\ nx \in Nat /\ ny \in Nat /\ ob \in Nat /\ ib \in Nat
          /\ lc \in Nat /\ ny >= 2 /\ b \in Nat /\ b >= 1
          /\ nb >= 1 /\ n = lc + b /\ nx >= 1 /\ ob = nb + 1 /\ ib = ob + nx + 1
          /\ lc = ib + ny
      BY <2>0, <2>a, <1>3
    <2> HIDE DEF nx, nb, ny, ob, ib, lc
    <2>2. /\ n # 0 /\ n > lc /\ lc + 1 \in 1 .. n
          /\ ib = nb + nx + 2
          /\ n = nb + nx + ny + 2 + b
          /\ lc + 1 = nb + nx + ny + 3
          /\ nb <= n /\ ob + nx <= n /\ ib + ny <= n
          /\ ib \in 1 .. n /\ n >= ib /\ ~(n + 1 <= nb)
          /\ n + 1 # 0 /\ n + 1 # ob /\ n + 1 # ib /\ ~(n + 1 < ib)
          /\ ~(n + 1 <= lc) /\ n + 1 # lc + 1 /\ n + 1 # ib + 2
      BY <2>1
    <2> QED
      BY <2>2 DEF nx, nb, ny, ob, ib, lc
  <1> USE DEF aux, checks, e, held, chals
  <1>5. held[LastChallenge + 1] = EvalW /\ vc.eval_W = EvalW
    <2>1. HeldOK(LastChallenge + 1)
      BY <1>4, <1>o DEF HandedOn, n
    <2> QED
      BY <2>1 DEF HeldOK
  <1> HIDE DEF held
  <1>6. Yields(Syn(vc), aux, <<>>, <<>>, <<>>, checks)
    <2>1. Syn(vc) = Rounds(dims, Width, vc, n, held, state.challenges_per_round, chals)
      BY Zenon DEF Syn, Synthesis, n, held
    <2> HIDE DEF chals
    <2>2. Yields(Rounds(dims, Width, vc, n, held, state.challenges_per_round, chals),
                 WithZeros(vc.eval_W[b], Width), <<>>, <<>>, <<>>,
                 {<<vc.eval_W[b], held[dims.nb + dims.nx + dims.ny + 3][b]>>})
      BY <1>3, <1>o, CommitYields
    <2> QED
      BY <1>5, <1>o, <2>1, <2>2, Zenon
  <1>10. \A check \in checks : check[1] = check[2]
    <2>1. held[LastChallenge + 1][b] = e
      BY <1>5
    <2> HIDE DEF e
    <2> QED
      BY <2>1
  <1> HIDE DEF checks, aux
  <1>11. Advanced(x, <<>>, <<>>, <<>>, checks) /\ ChallengesGiven'
    <2>1. ~Asks(Now + 1)
      BY <1>o DEF Asks, n
    <2> QED
      BY <1>1, <1>4, <1>6, <2>1, Advance
  <1>12. /\ \A k \in 1 .. n : Ch(state', k) = Ch(state, k)
         /\ OuterBase' = OuterBase /\ InnerBase' = InnerBase /\ LastChallenge' = LastChallenge
         /\ ChecksHold'
         /\ \A m \in Nat : m = n + 1 /\ HeldOK(m)' => HandedOn'
    BY <1>1, <1>10, <1>11, ValueKept DEF n
  <1>13. Now' = n + 1
    BY <1>11 DEF Advanced, n
  <1>14. HandedOn'
    <2>0. PICK m \in Nat : m = n + 1
      BY <1>3
    <2>1. /\ ~(m <= dims.nb) /\ m # OuterBase /\ ~(m < InnerBase) /\ m # InnerBase
          /\ ~(m <= LastChallenge) /\ m # InnerBase + 2 /\ m # LastChallenge + 1
      BY <1>o, <2>0
    <2>3. HeldOK(m)'
      BY <1>1, <1>12, <2>1 DEF HeldOK
    <2> QED
      BY <1>12, <2>0, <2>3
  <1>15. Kept'
    <2>1. Mirrors(state', r_b, 0)
      <3>0. dims.nb \in Nat /\ dims.nb <= n /\ Len(r_b) = dims.nb
        BY <1>2, <1>3, <1>o
      <3>1. 0 + Len(r_b) <= n /\ Mirrors(state, r_b, 0) /\ 0 \in Nat
        BY <1>3, <1>4, <3>0 DEF Kept
      <3> QED
        BY <1>3, <1>12, <3>1, MirrorsKept
    <2>2. Mirrors(state', r_x, OuterBase)
      <3>1. OuterBase + Len(r_x) <= n /\ Mirrors(state, r_x, OuterBase)
        BY <1>2, <1>4, <1>o DEF Kept
      <3> QED
        BY <1>3, <1>12, <3>1, MirrorsKept
    <2>3. Mirrors(state', r_y, InnerBase)
      <3>1. InnerBase + Len(r_y) <= n /\ Mirrors(state, r_y, InnerBase)
        BY <1>2, <1>4, <1>o DEF Kept
      <3> QED
        BY <1>3, <1>12, <3>1, MirrorsKept
    <2>4. r' = Ch(state', InnerBase)
      <3>1. Now >= InnerBase
        BY <1>o DEF n
      <3> QED
        BY <1>1, <1>4, <1>o, <1>12, <3>1 DEF Kept
    <2> QED
      BY <1>1, <1>12, <2>1, <2>2, <2>3, <2>4 DEF Kept
  <1>16. ClaimOK'
    <2> DEFINE m == n + 1
    <2>1. /\ m # 0 /\ m # OuterBase /\ ~(m <= dims.nb) /\ m # InnerBase /\ ~(m < InnerBase)
          /\ ~(m <= LastChallenge) /\ Now' = m
      BY <1>o, <1>13
    <2> HIDE DEF m
    <2> QED
      BY <1>1, <1>12, <2>1 DEF ClaimOK
  <1>17. CircuitOK'
    BY <1>1, <1>4 DEF CircuitOK
  <1>18. state'.inputs = state.inputs \o Given
    <2>1. Given = <<>>
      BY <1>o DEF Given, n
    <2> QED
      BY <1>11, <2>1 DEF Advanced
  <1> QED
    BY <1>11, <1>12, <1>14, <1>15, <1>16, <1>17, <1>18 DEF ValueInv

(* What the other actions leave of it: only Start draws the weights, before *)
(* any round.                                                               *)
LEMMA ValueOthers ==
  ASSUME TypeInv, ValueInv,
         \/ Start \/ ProveFails \/ Finalize \/ StartVerify \/ VerifyRound \/ Conclude
         \/ UNCHANGED vars
  PROVE  ValueInv'
  <1>1. UNCHANGED <<shape, key, dims, vc, state, r_b, r_x, r, r_y, claim>>
    BY OthersUnchanged
  <1>2. /\ ChallengesGiven /\ Kept /\ HandedOn /\ ClaimOK /\ CircuitOK /\ ChecksHold
    BY DEF ValueInv
  <1>3. /\ Now' = Now /\ LastChallenge' = LastChallenge /\ OuterBase' = OuterBase
        /\ InnerBase' = InnerBase /\ EvalW' = EvalW /\ LastNifs' = LastNifs
        /\ \A k : (Ch(state', k) = Ch(state, k) /\ (Asks(k)' <=> Asks(k)))
    BY <1>1 DEF Now, CurrentRound, LastChallenge, OuterBase, InnerBase, EvalW, LastNifs, Ch, Asks
  <1>4. Now >= 1 => EqRho' = EqRho
    <2>1. CASE Start
      <3>1. Now = 0
        BY <2>1 DEF Start, TypeInv, Counts, Counted
      <3> QED
        BY <3>1
    <2>2. CASE ~Start
      <3>1. rhos' = rhos
        BY <2>2, Zenon DEF ProveFails, Finalize, StartVerify, VerifyRound, Conclude, vars
      <3> QED
        BY <1>1, <3>1 DEF EqRho
    <2> QED
      BY <2>1, <2>2
  <1>5. Now >= 1 => Divided' = Divided
    BY <1>3, <1>4 DEF Divided
  <1>6. ChallengesGiven' /\ Kept' /\ CircuitOK' /\ ChecksHold'
    BY <1>1, <1>2, <1>3 DEF ChallengesGiven, Kept, Mirrors, CircuitOK, ChecksHold
  <1>7. ClaimOK'
    <2>1. Now = OuterBase => Now >= 1
      BY More
    <2> QED
      BY <1>1, <1>2, <1>3, <1>5, <2>1 DEF ClaimOK
  <1>8. HandedOn'
    <2>1. ASSUME NEW k \in 1 .. Now
          PROVE  HeldOK(k)'
      <3>1. HeldOK(k) /\ Now >= 1
        BY <1>2, More DEF HandedOn
      <3> QED
        BY <1>1, <1>3, <1>4, <1>5, <3>1 DEF HeldOK
    <2> QED
      BY <1>3, <2>1 DEF HandedOn
  <1> QED
    BY <1>6, <1>7, <1>8 DEF ValueInv

(* Each round keeps it, and allocates the public inputs expected of it. *)
LEMMA ValueRound ==
  ASSUME TypeInv, BoundInv, ValueInv, SendsRound
  PROVE  ValueInv' /\ state'.inputs = state.inputs \o Given
  <1>1. CASE NifsRound
    BY <1>1, NifsRoundIs, ValueNifs
  <1>2. CASE NifsFinal
    BY <1>2, NifsFinalIs, ValueNifsFinal
  <1>3. CASE OuterRound
    BY <1>3, OuterRoundIs, ValueOuter
  <1>4. CASE OuterFinal
    BY <1>4, OuterFinalIs, ValueOuterFinal
  <1>5. CASE InnerRound
    BY <1>5, InnerRoundIs, ValueInner
  <1>6. CASE InnerFinal
    BY <1>6, InnerFinalIs, ValueInnerFinal
  <1>7. ASSUME NEW b \in Branches, CommitW(b)
        PROVE  ValueInv' /\ state'.inputs = state.inputs \o Given
    <2>1. PICK x : CommitTaken(b, x)
      BY <1>7, CommitWIs
    <2> QED
      BY <2>1, ValueCommit
  <1> QED
    BY <1>1, <1>2, <1>3, <1>4, <1>5, <1>6, <1>7 DEF SendsRound

(* Every step keeps it. *)
LEMMA ValueNext ==
  ASSUME TypeInv, BoundInv, ValueInv, [Next]_vars
  PROVE  ValueInv'
  <1>1. CASE SendsRound
    BY <1>1, ValueRound
  <1>2. CASE \/ Start \/ ProveFails \/ Finalize \/ StartVerify \/ VerifyRound \/ Conclude
             \/ UNCHANGED vars
    BY <1>2, ValueOthers
  <1> QED
    BY <1>1, <1>2 DEF Next, SendsRound

(* The values of an honest prover satisfy every equation of the circuit,    *)
(* whatever the numbers of rounds of the key and of the call.               *)
THEOREM HonestValuesSatisfy == Spec => []ChecksHold
  <1>1. Init => TypeInv /\ BoundInv /\ ValueInv
    BY TypeInit, BoundInit, ValueInit
  <1>2. TypeInv /\ BoundInv /\ ValueInv /\ [Next]_vars => (TypeInv /\ BoundInv /\ ValueInv)'
    BY TypeNext, BoundNext, ValueNext
  <1>3. ValueInv => ChecksHold
    BY DEF ValueInv
  <1> QED
    BY <1>1, <1>2, <1>3, PTL DEF Spec

-----------------------------------------------------------------------------
(* The public input *)

(* What every round changes, and the last rounds leave alone. *)
LEMMA RoundKeeps ==
  ASSUME TypeInv, SendsRound
  PROVE  /\ Now' = Now + 1 /\ dims' = dims /\ shape' = shape /\ key' = key /\ rhos' = rhos
         /\ \A k \in 1 .. Now : state'.challenges[k] = state.challenges[k]
         /\ Now >= LastChallenge => r_b' = r_b /\ r_x' = r_x /\ r_y' = r_y
  <1>1. PICK circuit, x : Rounded(circuit, x)
    BY RoundActions
  <1>2. Now' = Now + 1 /\ dims' = dims /\ shape' = shape /\ key' = key /\ rhos' = rhos
    BY <1>1, RoundedType
  <1>3. state'.challenges = Append(state.challenges, Made(circuit).challenges)
    BY <1>1 DEF Rounded, Processed
  <1>4. \A k \in 1 .. Now : state'.challenges[k] = state.challenges[k]
    BY <1>3, Appended DEF Now, CurrentRound, TypeInv
  <1>5. ASSUME Now >= LastChallenge PROVE r_b' = r_b /\ r_x' = r_x /\ r_y' = r_y
    <2>1. CASE InnerFinal
      BY <2>1, Zenon DEF InnerFinal
    <2>2. ASSUME NEW b \in Branches, CommitW(b) PROVE r_b' = r_b /\ r_x' = r_x /\ r_y' = r_y
      BY <2>2, Zenon DEF CommitW
    <2>3. CASE NifsRound \/ NifsFinal \/ OuterRound \/ OuterFinal \/ InnerRound
      <3>1. stage \in {"nifs", "nifs_final", "outer", "outer_final", "inner"}
        BY <2>3, Zenon DEF NifsRound, NifsFinal, OuterRound, OuterFinal, InnerRound
      <3> DEFINE n == Now
                 nb == dims.nb
                 nx == dims.nx
                 ny == dims.ny
                 ob == OuterBase
                 ib == InnerBase
                 lc == LastChallenge
                 lb == Len(r_b)
                 lx == Len(r_x)
                 ly == Len(r_y)
      <3>2. /\ n \in Nat /\ nb \in Nat /\ nx \in Nat /\ ny \in Nat /\ ny >= 2
            /\ ob = nb + 1 /\ ib = ob + nx + 1 /\ lc = ib + ny
            /\ lb \in Nat /\ lx \in Nat /\ ly \in Nat
        BY Numbers
      <3>3. \/ n = lb /\ lb < nb
            \/ n = nb
            \/ n = ob + lx /\ lx < nx
            \/ n = ob + nx
            \/ n = ib + ly /\ ly < ny
        BY <3>1, Where
      <3> HIDE DEF n, nb, nx, ny, ob, ib, lc, lb, lx, ly
      <3>4. ~(n >= lc)
        BY <3>2, <3>3
      <3> QED
        BY <1>5, <3>4 DEF n, lc
    <2> QED
      BY <2>1, <2>2, <2>3 DEF SendsRound
  <1> QED
    BY <1>2, <1>4, <1>5

(* How many public inputs there are before round n, and whose challenge the *)
(* i-th is: the final round of NIFS has none.                               *)
InputsBefore(nb, m, n) ==
  IF n = 0 THEN 0 ELSE IF n <= nb + 1 THEN n - 1 ELSE IF n <= m THEN n - 2 ELSE m + 5
RoundOf(nb, i) == IF i <= nb THEN i ELSE i + 1

(* How they go on with the next round. *)
GoesOn(nb, m, n) ==
  /\ InputsBefore(nb, m, n) \in Nat
  /\ \A i \in 1 .. m - 1 : RoundOf(nb, i) < n => /\ i \in 1 .. InputsBefore(nb, m, n)
                                                 /\ RoundOf(nb, i) \in 1 .. n
  /\ n = 0 \/ n = nb + 1 \/ n > m =>
       /\ InputsBefore(nb, m, n + 1) = InputsBefore(nb, m, n)
       /\ \A i \in 1 .. m - 1 : RoundOf(nb, i) < n + 1 => RoundOf(nb, i) < n
  /\ n # 0 /\ n # nb + 1 /\ n <= m =>
       \A i \in 1 .. m - 1 : RoundOf(nb, i) < n + 1 =>
         \/ RoundOf(nb, i) < n
         \/ i = InputsBefore(nb, m, n) + 1 /\ RoundOf(nb, i) = n
  /\ n # 0 /\ n # nb + 1 /\ n < m =>
       InputsBefore(nb, m, n + 1) = InputsBefore(nb, m, n) + 1
  /\ n = m => InputsBefore(nb, m, n) = m - 2 /\ InputsBefore(nb, m, n + 1) = m + 5
  /\ n > m => InputsBefore(nb, m, n) = m + 5

(* They do. *)
LEMMA Places ==
  ASSUME NEW nb \in Nat, nb >= 1, NEW m \in Nat, m >= nb + 5, NEW n \in Nat
  PROVE  GoesOn(nb, m, n)
  <1> DEFINE l == InputsBefore(nb, m, n)
             h == InputsBefore(nb, m, n + 1)
  <1>1. l = IF n = 0 THEN 0 ELSE IF n <= nb + 1 THEN n - 1 ELSE IF n <= m THEN n - 2 ELSE m + 5
    BY DEF InputsBefore
  <1>2. h = IF n + 1 <= nb + 1 THEN n ELSE IF n + 1 <= m THEN n - 1 ELSE m + 5
    BY DEF InputsBefore
  <1>3. \A i \in 1 .. m - 1 : RoundOf(nb, i) = IF i <= nb THEN i ELSE i + 1
    BY DEF RoundOf
  <1> HIDE DEF l, h
  <1>4. l \in Nat
    BY <1>1
  <1>5. ASSUME NEW i \in 1 .. m - 1, RoundOf(nb, i) < n
        PROVE  i \in 1 .. l /\ RoundOf(nb, i) \in 1 .. n
    BY <1>1, <1>3, <1>5
  <1>6. ASSUME n = 0 \/ n = nb + 1 \/ n > m
        PROVE  h = l /\ \A i \in 1 .. m - 1 : RoundOf(nb, i) < n + 1 => RoundOf(nb, i) < n
    <2>1. h = l
      BY <1>1, <1>2, <1>6
    <2> QED
      BY <1>3, <1>6, <2>1
  <1>7. ASSUME n # 0, n # nb + 1, n <= m, NEW i \in 1 .. m - 1, RoundOf(nb, i) < n + 1
        PROVE  RoundOf(nb, i) < n \/ (i = l + 1 /\ RoundOf(nb, i) = n)
    BY <1>1, <1>3, <1>7
  <1>8. n # 0 /\ n # nb + 1 /\ n < m => h = l + 1
    BY <1>1, <1>2
  <1>9. n = m => l = m - 2 /\ h = m + 5
    BY <1>1, <1>2
  <1>10. n > m => l = m + 5
    BY <1>1
  <1> QED
    BY <1>4, <1>5, <1>6, <1>7, <1>8, <1>9, <1>10 DEF l, h, GoesOn

(* The public values are the challenges, in order, and the six others. *)
InputsInv ==
  /\ IsSequence(state.inputs)
  /\ Len(state.inputs) = InputsBefore(dims.nb, LastChallenge, Now)
  /\ \A i \in 1 .. LastChallenge - 1 :
       RoundOf(dims.nb, i) < Now => state.inputs[i] = Ch(state, RoundOf(dims.nb, i))
  /\ Now > LastChallenge =>
       \A i \in 1 .. 6 : state.inputs[LastChallenge - 1 + i] = PublicValues[i]

(* It holds at the start. *)
LEMMA InputsInit ==
  ASSUME Init
  PROVE  InputsInv
  <1>1. state = NewState(shape, Zero) /\ TypeInv
    BY TypeInit, Zenon DEF Init
  <1>2. state.inputs = <<>> /\ state.challenges = <<>>
    BY <1>1 DEF NewState
  <1>3. Now = 0 /\ LastChallenge \in Nat /\ dims.nb \in Nat
    BY <1>1, <1>2, EmptyIsSequence, Numbers DEF Now, CurrentRound
  <1>4. InputsBefore(dims.nb, LastChallenge, Now) = 0
    BY <1>3 DEF InputsBefore
  <1>5. \A i \in 1 .. LastChallenge - 1 : ~(RoundOf(dims.nb, i) < Now)
    BY <1>3 DEF RoundOf
  <1> QED
    BY <1>2, <1>3, <1>4, <1>5, EmptyIsSequence DEF InputsInv

(* A tuple of seven is a sequence. *)
LEMMA SevenTuple ==
  ASSUME NEW a, NEW b, NEW c, NEW d, NEW e, NEW f, NEW g
  PROVE  IsSequence(<<a, b, c, d, e, f, g>>) /\ Len(<<a, b, c, d, e, f, g>>) = 7
  BY DEF IsSequence, Range

(* A round appends what it allocates. *)
LEMMA InputsRound ==
  ASSUME TypeInv, BoundInv, ValueInv, InputsInv, SendsRound
  PROVE  InputsInv'
  <1> DEFINE n == Now
             m == LastChallenge
             nb == dims.nb
             s == state.inputs
             t == Given
             c == state'.inputs
             l == InputsBefore(nb, m, n)
             h == InputsBefore(nb, m, n + 1)
             p == PublicValues
             of(i) == RoundOf(nb, i)
  <1>1. /\ Now' = n + 1 /\ dims' = dims /\ rhos' = rhos
        /\ \A k \in 1 .. n : Ch(state', k) = Ch(state, k)
        /\ n >= m => r_b' = r_b /\ r_x' = r_x /\ r_y' = r_y
        /\ m' = m /\ InnerBase' = InnerBase
    BY RoundKeeps DEF Ch, LastChallenge, InnerBase
  <1>2. c = s \o t
    BY ValueRound
  <1>3. /\ n \in Nat /\ m \in Nat /\ nb \in Nat /\ nb >= 1 /\ m >= nb + 5
        /\ InnerBase \in Nat /\ InnerBase + 1 \in 1 .. m /\ m >= 1 /\ OuterBase = nb + 1
    <2> DEFINE ob == OuterBase
               ib == InnerBase
               nx == dims.nx
               ny == dims.ny
    <2>1. /\ n \in Nat /\ m \in Nat /\ nb \in Nat /\ nb >= 1 /\ nx \in Nat /\ nx >= 1
          /\ ny \in Nat /\ ny >= 2 /\ ob \in Nat /\ ob = nb + 1 /\ ib \in Nat
          /\ ib = ob + nx + 1 /\ m = ib + ny
      BY Numbers
    <2> HIDE DEF ob, ib, nx, ny, m, nb, n
    <2>2. m >= nb + 5 /\ ib + 1 \in 1 .. m /\ m >= 1
      BY <2>1
    <2> QED
      BY <2>1, <2>2 DEF ob, ib
  <1>4. n >= m => PublicValues' = p
    <2> SUFFICES ASSUME n >= m PROVE PublicValues' = PublicValues
      OBVIOUS
    <2>1. InnerBase + 1 \in 1 .. n /\ m \in 1 .. n
      BY <1>3
    <2>2. Ch(state', m) = Ch(state, m) /\ Ch(state', InnerBase + 1) = Ch(state, InnerBase + 1)
      BY <1>1, <2>1
    <2>3. EqRho' = EqRho
      BY <1>1 DEF EqRho
    <2>4. \A b \in Branches : LastEval(b)' = LastEval(b)
      BY <1>1, <2>2 DEF LastEval
    <2>5. \A b \in Branches : Quotients(b)' = Quotients(b)
      BY <1>1, <2>2, <2>4 DEF Quotients
    <2> QED
      BY <1>1, <2>3, <2>5 DEF PublicValues, Branches
  <1>5. t = IF n = 0 \/ n = nb + 1 \/ n > m THEN <<>>
            ELSE IF n < m THEN <<Ch(state, n)>>
            ELSE <<Ch(state, n), p[1], p[2], p[3], p[4], p[5], p[6]>>
    BY <1>3 DEF Given
  <1>6. /\ IsSequence(s) /\ Len(s) = l
        /\ \A i \in 1 .. m - 1 : of(i) < n => s[i] = Ch(state, of(i))
        /\ n > m => \A i \in 1 .. 6 : s[m - 1 + i] = p[i]
    BY DEF InputsInv
  <1>7. /\ l \in Nat
        /\ \A i \in 1 .. m - 1 : of(i) < n => i \in 1 .. l /\ of(i) \in 1 .. n
        /\ n = 0 \/ n = nb + 1 \/ n > m =>
             h = l /\ \A i \in 1 .. m - 1 : of(i) < n + 1 => of(i) < n
        /\ n # 0 /\ n # nb + 1 /\ n <= m =>
             \A i \in 1 .. m - 1 : of(i) < n + 1 => of(i) < n \/ (i = l + 1 /\ of(i) = n)
        /\ n # 0 /\ n # nb + 1 /\ n < m => h = l + 1
        /\ n = m => l = m - 2 /\ h = m + 5
        /\ n > m => l = m + 5
    <2>1. GoesOn(nb, m, n)
      <3> HIDE DEF n, m, nb
      <3> QED
        BY <1>3, Places
    <2> HIDE DEF n, m, nb
    <2> QED
      BY <2>1, Zenon DEF GoesOn
  <1>8. ASSUME IsSequence(c), Len(c) = h,
               \A i \in 1 .. m - 1 : of(i) < n + 1 => c[i] = Ch(state', of(i)),
               n + 1 > m => \A i \in 1 .. 6 : c[m - 1 + i] = PublicValues'[i]
        PROVE  InputsInv'
    <2>1. \A i : RoundOf(dims.nb, i)' = RoundOf(dims.nb, i)
      BY <1>1 DEF RoundOf
    <2>2. InputsBefore(dims.nb, LastChallenge, Now)' = h
      BY <1>1 DEF InputsBefore
    <2> QED
      BY <1>1, <1>8, <2>1, <2>2 DEF InputsInv
  <1> HIDE DEF n, m, nb, s, t, c, l, h, p, of
  <1>9. \A i \in 1 .. m - 1 : of(i) < n => i \in 1 .. l /\ s[i] = Ch(state', of(i))
    BY <1>1, <1>6, <1>7
  <1>10. CASE n = 0 \/ n = nb + 1 \/ n > m
    <2>1. t = <<>>
      BY <1>5, <1>10
    <2>2. Concatenates(c, s, <<>>)
      BY <1>2, <1>6, <2>1, EmptyIsSequence, Concatenated
    <2>3. IsSequence(c) /\ Len(c) = l /\ \A i \in 1 .. l : c[i] = s[i]
      BY <1>6, <1>7, <2>2, EmptyIsSequence DEF Concatenates
    <2>4. \A i \in 1 .. m - 1 : of(i) < n + 1 => c[i] = Ch(state', of(i))
      BY <1>7, <1>9, <1>10, <2>3
    <2>5. ASSUME n + 1 > m, NEW i \in 1 .. 6 PROVE c[m - 1 + i] = PublicValues'[i]
      <3>1. n > m
        BY <1>3, <1>10, <2>5
      <3>2. m - 1 + i \in 1 .. l
        BY <1>3, <1>7, <3>1
      <3>3. n >= m
        BY <1>3, <3>1
      <3>4. PublicValues'[i] = p[i]
        BY <1>4, <3>3
      <3>5. s[m - 1 + i] = p[i]
        BY <1>6, <3>1
      <3> QED
        BY <2>3, <3>2, <3>4, <3>5
    <2> QED
      BY <1>7, <1>8, <1>10, <2>3, <2>4, <2>5
  <1>11. CASE n # 0 /\ n # nb + 1 /\ n < m
    <2> DEFINE e == Ch(state, n)
    <2>1. t = <<e>> /\ <<e>>[1] = e
      BY <1>3, <1>5, <1>11
    <2>2. IsSequence(<<e>>) /\ Len(<<e>>) = 1
      BY Tuples
    <2> HIDE DEF e
    <2>3. Concatenates(c, s, <<e>>)
      BY <1>2, <1>6, <2>1, <2>2, Concatenated
    <2>4. IsSequence(c) /\ Len(c) = l + 1 /\ (\A i \in 1 .. l : c[i] = s[i]) /\ c[l + 1] = e
      <3>1. 1 \in 1 .. 1
        OBVIOUS
      <3> QED
        BY <1>6, <2>1, <2>2, <2>3, <3>1 DEF Concatenates
    <2>5. ASSUME NEW i \in 1 .. m - 1, of(i) < n + 1 PROVE c[i] = Ch(state', of(i))
      <3>1. n \in 1 .. n
        BY <1>3, <1>11
      <3>2. e = Ch(state', n)
        BY <1>1, <3>1 DEF e
      <3>3. of(i) < n \/ (i = l + 1 /\ of(i) = n)
        BY <1>3, <1>7, <1>11, <2>5
      <3> QED
        BY <1>9, <2>4, <3>2, <3>3
    <2>6. ~(n + 1 > m)
      BY <1>3, <1>11
    <2> QED
      BY <1>7, <1>8, <1>11, <2>4, <2>5, <2>6
  <1>12. CASE n # 0 /\ n # nb + 1 /\ n = m
    <2> DEFINE u == <<Ch(state, n), p[1], p[2], p[3], p[4], p[5], p[6]>>
    <2>1. t = u /\ l = m - 2 /\ h = m + 5
      <3>1. ~(n > m) /\ ~(n < m)
        BY <1>3, <1>12
      <3> QED
        BY <1>5, <1>7, <1>12, <3>1
    <2>2. IsSequence(u) /\ Len(u) = 7
      BY SevenTuple
    <2>3. u[1] = Ch(state, n) /\ \A i \in 1 .. 6 : u[1 + i] = p[i]
      OBVIOUS
    <2> HIDE DEF u
    <2>4. Concatenates(c, s, u)
      BY <1>2, <1>6, <2>1, <2>2, Concatenated
    <2>5. /\ IsSequence(c) /\ Len(c) = l + 7 /\ (\A i \in 1 .. l : c[i] = s[i])
          /\ \A i \in 1 .. 7 : c[l + i] = u[i]
      BY <1>6, <2>2, <2>4 DEF Concatenates
    <2>6. ASSUME NEW i \in 1 .. m - 1, of(i) < n + 1 PROVE c[i] = Ch(state', of(i))
      <3>1. n \in 1 .. n /\ n <= m
        BY <1>3, <1>12
      <3>2. c[l + 1] = Ch(state', n)
        <4>1. 1 \in 1 .. 7
          OBVIOUS
        <4> QED
          BY <1>1, <2>3, <2>5, <3>1, <4>1
      <3>3. of(i) < n \/ (i = l + 1 /\ of(i) = n)
        BY <1>7, <1>12, <2>6, <3>1
      <3> QED
        BY <1>9, <2>5, <3>2, <3>3
    <2>7. ASSUME NEW i \in 1 .. 6 PROVE c[m - 1 + i] = PublicValues'[i]
      <3>1. 1 + i \in 1 .. 7 /\ l + (1 + i) = m - 1 + i
        BY <1>3, <2>1
      <3>2. c[m - 1 + i] = p[i]
        BY <2>3, <2>5, <3>1
      <3> QED
        BY <1>3, <1>4, <1>12, <3>2
    <2>8. Len(c) = h
      BY <1>3, <2>1, <2>5
    <2> QED
      BY <1>8, <2>5, <2>6, <2>7, <2>8
  <1> QED
    BY <1>3, <1>10, <1>11, <1>12

(* Every step keeps it. *)
LEMMA InputsNext ==
  ASSUME TypeInv, BoundInv, ValueInv, InputsInv, [Next]_vars
  PROVE  InputsInv'
  <1>1. CASE SendsRound
    BY <1>1, InputsRound
  <1>2. CASE \/ Start \/ ProveFails \/ Finalize \/ StartVerify \/ VerifyRound \/ Conclude
             \/ UNCHANGED vars
    <2>1. UNCHANGED <<state, dims, r_b, r_x, r_y>>
      BY <1>2, OthersUnchanged
    <2>2. /\ Now' = Now /\ LastChallenge' = LastChallenge /\ InnerBase' = InnerBase
          /\ \A k : Ch(state', k) = Ch(state, k)
          /\ \A i : RoundOf(dims.nb, i)' = RoundOf(dims.nb, i)
          /\ InputsBefore(dims.nb, LastChallenge, Now)'
               = InputsBefore(dims.nb, LastChallenge, Now)
      BY <2>1 DEF Now, CurrentRound, LastChallenge, InnerBase, Ch, RoundOf, InputsBefore
    <2>3. Now > LastChallenge => PublicValues' = PublicValues
      <3>1. stage = "start" => Now = 0
        BY DEF TypeInv, Counts, Counted
      <3>2. Now > LastChallenge => stage # "start"
        BY <3>1, More
      <3>3. stage # "start" => rhos' = rhos
        BY <1>2, Zenon DEF Start, ProveFails, Finalize, StartVerify, VerifyRound, Conclude, vars
      <3> QED
        BY <2>1, <2>2, <3>2, <3>3 DEF PublicValues, Quotients, LastEval, EqRho
    <2> QED
      BY <2>1, <2>2, <2>3 DEF InputsInv
  <1> QED
    BY <1>1, <1>2 DEF Next, SendsRound

-----------------------------------------------------------------------------
(* The witness vector *)

(* Where the segments of the rounds lie. *)
Sizes(s, n) ==
  /\ Total(s.num_vars) \in Nat
  /\ \A k \in 0 .. n : /\ SumFirst(s.num_vars, k) \in Nat
                       /\ SumFirst(s.num_vars_unpadded, k) \in Nat
                       /\ SumFirst(s.num_vars, k) <= Total(s.num_vars)
  /\ SumFirst(s.num_vars_unpadded, 0) = 0
  /\ \A k \in 1 .. n :
       /\ s.num_vars[k] \in Nat /\ s.num_vars_unpadded[k] \in Nat
       /\ s.num_vars_unpadded[k] <= s.num_vars[k]
       /\ SumFirst(s.num_vars, k) = SumFirst(s.num_vars, k - 1) + s.num_vars[k]
       /\ SumFirst(s.num_vars_unpadded, k)
            = SumFirst(s.num_vars_unpadded, k - 1) + s.num_vars_unpadded[k]
  /\ \A i, k \in 0 .. n : i <= k =>
       /\ SumFirst(s.num_vars, i) <= SumFirst(s.num_vars, k)
       /\ SumFirst(s.num_vars_unpadded, i) <= SumFirst(s.num_vars_unpadded, k)

(* The places of the shape made at setup lie one after the other. *)
LEMMA SizesAre ==
  ASSUME NEW d, Sized(d), NEW s, ShapeIs(s, d)
  PROVE  /\ Sizes(s, NumRounds(d))
         /\ \A b \in Branches :
              LET k == d.nb + d.nx + d.ny + 3 + b
              IN  s.num_vars[k] = Width /\ s.num_vars_unpadded[k] = Width
  <1> DEFINE n == NumRounds(d)
             a == s.num_vars
             u == s.num_vars_unpadded
  <1>1. /\ n \in Nat /\ n = d.nb + d.nx + d.ny + 5 /\ n \in 1 .. n
        /\ d.nb \in Nat /\ d.nb >= 1 /\ d.nx \in Nat /\ d.nx >= 1 /\ d.ny \in Nat /\ d.ny >= 2
        /\ Width \in Nat \ {0}
    BY Indices, KeyDimsAssumption DEF Sized
  <1>2. /\ Len(a) = n
        /\ \A k \in 1 .. n : /\ u[k] = AuxLength(d, k - 1)
                             /\ a[k] = PadToWidth(Width, AuxLength(d, k - 1))
    BY DEF ShapeIs
  <1> HIDE DEF n, a, u
  <1>3. ASSUME NEW k \in 1 .. n PROVE a[k] \in Nat /\ u[k] \in Nat /\ u[k] <= a[k]
    <2>1. AuxLength(d, k - 1) \in Nat
      BY <1>1 DEF AuxLength
    <2> DEFINE q == AuxLength(d, k - 1)
    <2>2. q \in Nat /\ u[k] = q /\ a[k] = PadToWidth(Width, q)
      BY <1>2, <2>1
    <2> HIDE DEF q
    <2> QED
      BY <1>1, <2>2, Padding
  <1>4. /\ \A k \in 0 .. n : SumFirst(a, k) \in Nat
        /\ \A k \in 1 .. n : SumFirst(a, k) = SumFirst(a, k - 1) + a[k]
    BY <1>1, <1>3, SumUnfolds
  <1>5. /\ SumFirst(u, 0) = 0
        /\ \A k \in 0 .. n : SumFirst(u, k) \in Nat
        /\ \A k \in 1 .. n : SumFirst(u, k) = SumFirst(u, k - 1) + u[k]
    BY <1>1, <1>3, SumUnfolds
  <1>6. \A i, k \in 0 .. n : i <= k => SumFirst(a, i) <= SumFirst(a, k)
    BY <1>1, <1>3, SumIncreases
  <1>7. \A i, k \in 0 .. n : i <= k => SumFirst(u, i) <= SumFirst(u, k)
    BY <1>1, <1>3, SumIncreases
  <1>8. Total(a) = SumFirst(a, n) /\ n \in 0 .. n
    BY <1>1, <1>2 DEF Total
  <1>9. \A k \in 0 .. n : SumFirst(a, k) <= Total(a)
    <2>1. \A k \in 0 .. n : k <= n
      BY <1>1
    <2> QED
      BY <1>6, <1>8, <2>1
  <1>10. Sizes(s, n)
    <2>1. Total(a) \in Nat
      BY <1>4, <1>8
    <2> QED
      BY <1>3, <1>4, <1>5, <1>6, <1>7, <1>9, <2>1 DEF Sizes, a, u
  <1>11. ASSUME NEW b \in Branches
         PROVE  LET k == d.nb + d.nx + d.ny + 3 + b IN a[k] = Width /\ u[k] = Width
    <2> DEFINE k == d.nb + d.nx + d.ny + 3 + b
    <2>0. b \in Nat /\ b >= 1 /\ b <= 2
      BY DEF Branches
    <2>1. k \in 1 .. n
      BY <1>1, <2>0
    <2>2. k - 1 = d.nb + d.nx + d.ny + 2 + b
      BY <1>1, <2>0
    <2>3. AuxLength(d, k - 1) = Width
      <3> DEFINE q == k - 1
      <3>1. /\ q >= d.nb + d.nx + d.ny + 3 /\ q \in Nat
        BY <1>1, <2>0, <2>2
      <3> HIDE DEF q, k
      <3>2. /\ ~(q < d.nb) /\ q # d.nb /\ q # d.nb + 1 /\ ~(q < d.nb + 1 + d.nx)
            /\ q # d.nb + 1 + d.nx /\ ~(q < d.nb + d.nx + d.ny + 3)
        BY <1>1, <3>1
      <3>3. AuxLength(d, q) = Width
        BY <3>2 DEF AuxLength
      <3> QED
        BY <3>3 DEF q
    <2>4. PadToWidth(Width, Width) = Width
      BY <1>1, Padding
    <2> HIDE DEF k
    <2>5. a[k] = Width /\ u[k] = Width
      BY <1>2, <2>1, <2>3, <2>4
    <2> QED
      BY <2>5 DEF k
  <1> QED
    BY <1>10, <1>11 DEF n, a, u

(* The place of the i-th variable of round k in the witness vector, and its *)
(* unpadded column.                                                         *)
Place(s, k, i) == SumFirst(s.num_vars, k - 1) + i
Column(s, k, i) == SumFirst(s.num_vars_unpadded, k - 1) + i

(* Each variable is at its place, and everything else is zero. *)
Laid(w, aux, s, n) ==
  /\ \A k \in 1 .. n : \A i \in 1 .. s.num_vars_unpadded[k] :
       w[Place(s, k, i)] = aux[Column(s, k, i)]
  /\ \A p \in DOMAIN w :
       (\A k \in 1 .. n : \A i \in 1 .. s.num_vars_unpadded[k] : p # Place(s, k, i)) => w[p] = Zero

(* A round lays out what it allocates. *)
LEMMA LaidRound ==
  ASSUME NEW s, NEW m \in Nat, Sizes(s, m), NEW n \in Nat, n < m,
         NEW w, OnTo(w, Total(s.num_vars)), NEW u, IsSequence(u),
         Len(u) = SumFirst(s.num_vars_unpadded, n), Laid(w, u, s, n),
         NEW a, IsSequence(a), Len(a) = s.num_vars_unpadded[n + 1], NEW aux, Concatenates(aux, u, a)
  PROVE  Laid(Copied(s, w, aux, n), aux, s, n + 1)
  <1> DEFINE from == SumFirst(s.num_vars_unpadded, n)
             to == SumFirst(s.num_vars, n)
             min == s.num_vars_unpadded[n + 1]
             v == Copied(s, w, aux, n)
             size == Total(s.num_vars)
  <1>1. n + 1 \in 1 .. m /\ n \in 0 .. m /\ n + 1 \in 0 .. m /\ (n + 1) - 1 = n
    OBVIOUS
  <1>2. /\ from \in Nat /\ to \in Nat /\ min \in Nat /\ size \in Nat /\ to + min <= size
    <2>1. /\ from \in Nat /\ to \in Nat /\ min \in Nat /\ size \in Nat
          /\ s.num_vars[n + 1] \in Nat /\ min <= s.num_vars[n + 1]
          /\ SumFirst(s.num_vars, n + 1) = SumFirst(s.num_vars, (n + 1) - 1) + s.num_vars[n + 1]
          /\ SumFirst(s.num_vars, n + 1) <= size
      BY <1>1, Zenon DEF Sizes
    <2>2. SumFirst(s.num_vars, n + 1) = to + s.num_vars[n + 1]
      BY <1>1, <2>1
    <2> HIDE DEF from, to, min, size
    <2> QED
      BY <2>1, <2>2
  <1>3. /\ Len(aux) = from + min
        /\ \A i \in 1 .. from : aux[i] = u[i]
        /\ \A i \in 1 .. min : aux[from + i] = a[i]
    BY DEF Concatenates
  <1>4. /\ DOMAIN v = 1 .. size
        /\ \A p \in 1 .. size :
             v[p] = IF p \in to + 1 .. to + min THEN aux[from + p - to] ELSE w[p]
    <2> DEFINE x == [p \in DOMAIN w |-> IF p \in to + 1 .. to + min THEN aux[from + p - to]
                                        ELSE w[p]]
    <2>1. v = IF Len(aux) >= from + min THEN x ELSE w
      BY Zenon DEF Copied
    <2>2. Len(aux) >= from + min
      <3> HIDE DEF from, min
      <3> QED
        BY <1>2, <1>3
    <2>3. DOMAIN w = 1 .. size
      BY DEF OnTo
    <2>4. v = x
      <3> HIDE DEF v, x
      <3> QED
        BY <2>1, <2>2
    <2> HIDE DEF v, from, to, min, size
    <2> QED
      BY <2>3, <2>4
  <1>5. ASSUME NEW k \in 1 .. n, NEW i \in 1 .. s.num_vars_unpadded[k]
        PROVE  /\ Place(s, k, i) \in 1 .. size /\ Place(s, k, i) <= to
               /\ Column(s, k, i) \in 1 .. from
    <2>1. k \in 1 .. m /\ k \in 0 .. m /\ k - 1 \in 0 .. m /\ k <= n
      OBVIOUS
    <2> DEFINE b == SumFirst(s.num_vars, k - 1)
               c == SumFirst(s.num_vars_unpadded, k - 1)
               e == s.num_vars[k]
               f == s.num_vars_unpadded[k]
    <2>2. /\ b \in Nat /\ c \in Nat /\ e \in Nat /\ f \in Nat /\ f <= e
          /\ SumFirst(s.num_vars, k) = b + e /\ SumFirst(s.num_vars_unpadded, k) = c + f
          /\ SumFirst(s.num_vars, k) <= to /\ SumFirst(s.num_vars_unpadded, k) <= from
          /\ to <= size
      BY <1>1, <2>1, Zenon DEF Sizes
    <2>3. Place(s, k, i) = b + i /\ Column(s, k, i) = c + i
      BY DEF Place, Column
    <2>4. i \in 1 .. f
      OBVIOUS
    <2> HIDE DEF b, c, e, f, to, from, size
    <2> QED
      BY <1>2, <2>2, <2>3, <2>4
  <1>6. ASSUME NEW k \in 1 .. n, NEW i \in 1 .. s.num_vars_unpadded[k]
        PROVE  v[Place(s, k, i)] = aux[Column(s, k, i)]
    <2> DEFINE p == Place(s, k, i)
               j == Column(s, k, i)
    <2>1. p \in 1 .. size /\ p <= to /\ j \in 1 .. from
      BY <1>5
    <2>2. w[p] = u[j]
      BY DEF Laid
    <2> HIDE DEF p, j, v, to, from, min, size
    <2>3. p \notin to + 1 .. to + min
      BY <1>2, <2>1
    <2>4. v[p] = aux[j]
      BY <1>3, <1>4, <2>1, <2>2, <2>3
    <2> QED
      BY <2>4 DEF p, j
  <1>7. ASSUME NEW i \in 1 .. min
        PROVE  v[Place(s, n + 1, i)] = aux[Column(s, n + 1, i)]
    <2>1. Place(s, n + 1, i) = to + i /\ Column(s, n + 1, i) = from + i
      BY <1>1 DEF Place, Column
    <2> HIDE DEF v, to, from, min, size
    <2>2. /\ to + i \in 1 .. size /\ to + i \in to + 1 .. to + min
          /\ from + (to + i) - to = from + i
      BY <1>2
    <2> QED
      BY <1>4, <2>1, <2>2
  <1>8. ASSUME NEW p \in DOMAIN v,
               \A k \in 1 .. n + 1 : \A i \in 1 .. s.num_vars_unpadded[k] : p # Place(s, k, i)
        PROVE  v[p] = Zero
    <2>1. p \in 1 .. size
      BY <1>4
    <2>2. w[p] = Zero
      <3>1. \A k \in 1 .. n : k \in 1 .. n + 1
        OBVIOUS
      <3>2. p \in DOMAIN w
        BY <2>1 DEF OnTo
      <3> QED
        BY <1>8, <3>1, <3>2 DEF Laid
    <2>3. p \notin to + 1 .. to + min
      <3> SUFFICES ASSUME p \in to + 1 .. to + min PROVE FALSE
        OBVIOUS
      <3>1. PICK i \in 1 .. min : p = to + i
        <4> HIDE DEF to, min
        <4>1. p - to \in 1 .. min /\ p = to + (p - to)
          BY <1>2
        <4> QED
          BY <4>1
      <3>2. p = Place(s, n + 1, i)
        BY <1>1, <3>1 DEF Place
      <3>3. n + 1 \in 1 .. n + 1
        OBVIOUS
      <3> QED
        BY <1>8, <3>2, <3>3
    <2> HIDE DEF v, to, from, min, size
    <2> QED
      BY <1>4, <2>1, <2>2, <2>3
  <1> HIDE DEF v, to, from, size
  <1>9. ASSUME NEW k \in 1 .. n + 1, NEW i \in 1 .. s.num_vars_unpadded[k]
        PROVE  v[Place(s, k, i)] = aux[Column(s, k, i)]
    <2>1. CASE k = n + 1
      BY <1>7, <2>1
    <2>2. CASE k # n + 1
      <3>1. k \in 1 .. n
        BY <2>2
      <3> QED
        BY <1>6, <3>1
    <2> QED
      BY <2>1, <2>2
  <1>10. Laid(v, aux, s, n + 1)
    BY <1>8, <1>9, Zenon DEF Laid
  <1> QED
    BY <1>10 DEF v

(* Every column is of one round. *)
LEMMA ColumnsCovered ==
  ASSUME NEW s, NEW m \in Nat, Sizes(s, m)
  PROVE  \A n \in 0 .. m : \A c \in 1 .. SumFirst(s.num_vars_unpadded, n) :
           \E k \in 1 .. n : c \in SumFirst(s.num_vars_unpadded, k - 1) + 1
                                     .. SumFirst(s.num_vars_unpadded, k)
  <1> DEFINE F(n) == SumFirst(s.num_vars_unpadded, n)
             S == {n \in Nat : n <= m => \A c \in 1 .. F(n) :
                                \E k \in 1 .. n : c \in F(k - 1) + 1 .. F(k)}
  <1>1. F(0) = 0 /\ \A n \in 0 .. m : F(n) \in Nat
    BY DEF Sizes
  <1> HIDE DEF F
  <1>2. 0 \in S
    BY <1>1
  <1>3. ASSUME NEW n \in Nat, n \in S PROVE n + 1 \in S
    <2> SUFFICES ASSUME n + 1 <= m, NEW c \in 1 .. F(n + 1)
                 PROVE  \E k \in 1 .. n + 1 : c \in F(k - 1) + 1 .. F(k)
      OBVIOUS
    <2>1. n \in 0 .. m /\ n <= m /\ (n + 1) - 1 = n /\ F(n) \in Nat
      BY <1>1
    <2>2. CASE c \in 1 .. F(n)
      <3>1. PICK k \in 1 .. n : c \in F(k - 1) + 1 .. F(k)
        BY <1>3, <2>1, <2>2
      <3>2. k \in 1 .. n + 1
        OBVIOUS
      <3> QED
        BY <3>1, <3>2
    <2>3. CASE c \notin 1 .. F(n)
      <3>1. c \in F((n + 1) - 1) + 1 .. F(n + 1)
        <4>1. c \in F(n) + 1 .. F(n + 1)
          BY <2>1, <2>3
        <4> QED
          BY <2>1, <4>1
      <3>2. n + 1 \in 1 .. n + 1
        OBVIOUS
      <3> QED
        BY <3>1, <3>2
    <2> QED
      BY <2>2, <2>3
  <1> HIDE DEF S
  <1>4. \A n \in Nat : n \in S
    BY <1>2, <1>3, NatSetInduction
  <1>5. \A n \in 0 .. m : n \in Nat /\ n <= m
    OBVIOUS
  <1> QED
    BY <1>4, <1>5 DEF S, F

(* apply_pad moves the columns of a round to its places. *)
LEMMA PaddedColumnIs ==
  ASSUME NEW s, NEW m \in Nat, s.num_rounds = m, Sizes(s, m),
         NEW k \in 1 .. m, NEW i \in 1 .. s.num_vars_unpadded[k]
  PROVE  PaddedColumn(s, Column(s, k, i)) = Place(s, k, i)
  <1> DEFINE F(n) == SumFirst(s.num_vars_unpadded, n)
             c == Column(s, k, i)
             round == CHOOSE h \in 1 .. s.num_rounds :
                        c \in SumFirst(s.num_vars_unpadded, h - 1) + 1
                                .. SumFirst(s.num_vars_unpadded, h)
  <1>1. /\ k - 1 \in 0 .. m /\ k \in 0 .. m
        /\ \A n \in 0 .. m : F(n) \in Nat /\ SumFirst(s.num_vars, n) \in Nat
        /\ \A a, b \in 0 .. m : a <= b => F(a) <= F(b)
        /\ F(k) = F(k - 1) + s.num_vars_unpadded[k] /\ s.num_vars_unpadded[k] \in Nat
    BY DEF Sizes
  <1>2. c = F(k - 1) + i
    BY DEF Column
  <1>3. c \in F(k - 1) + 1 .. F(k) /\ c \in Nat
    <2> DEFINE a == F(k - 1)
               b == F(k)
               f == s.num_vars_unpadded[k]
    <2>1. a \in Nat /\ b = a + f /\ f \in Nat /\ c = a + i /\ i \in 1 .. f
      BY <1>1, <1>2
    <2> HIDE DEF a, b, f, c
    <2>2. c \in a + 1 .. b /\ c \in Nat
      BY <2>1
    <2> QED
      BY <2>2 DEF a, b
  <1>4. \E h \in 1 .. s.num_rounds : c \in SumFirst(s.num_vars_unpadded, h - 1) + 1
                                             .. SumFirst(s.num_vars_unpadded, h)
    BY <1>3
  <1> HIDE DEF c
  <1>5. /\ round \in 1 .. s.num_rounds
        /\ c \in SumFirst(s.num_vars_unpadded, round - 1) + 1
                   .. SumFirst(s.num_vars_unpadded, round)
    BY <1>4, Zenon
  <1>6. PaddedColumn(s, c) = SumFirst(s.num_vars, round - 1) + c
                               - SumFirst(s.num_vars_unpadded, round - 1)
    BY Zenon DEF PaddedColumn
  <1> HIDE DEF round
  <1>7. round \in 1 .. m /\ c \in F(round - 1) + 1 .. F(round)
    BY <1>5
  <1>8. PaddedColumn(s, c) = SumFirst(s.num_vars, round - 1) + c - F(round - 1)
    BY <1>6
  <1> HIDE DEF F
  <1>9. round = k
    <2>1. round - 1 \in 0 .. m /\ round \in 0 .. m
      BY <1>7
    <2>2. F(round) \in Nat /\ F(k) \in Nat /\ F(round - 1) \in Nat /\ F(k - 1) \in Nat
      BY <1>1, <2>1
    <2>3. CASE round < k
      <3>1. F(round) <= F(k - 1)
        <4>1. round <= k - 1
          BY <1>7, <2>3
        <4> QED
          BY <1>1, <2>1, <4>1
      <3> QED
        BY <1>3, <1>7, <2>2, <3>1
    <2>4. CASE k < round
      <3>1. F(k) <= F(round - 1)
        <4>1. k <= round - 1
          BY <1>7, <2>4
        <4> QED
          BY <1>1, <2>1, <4>1
      <3> QED
        BY <1>3, <1>7, <2>2, <3>1
    <2> QED
      BY <1>7, <2>3, <2>4
  <1>10. SumFirst(s.num_vars, k - 1) + c - F(k - 1) = SumFirst(s.num_vars, k - 1) + i
    <2> DEFINE a == SumFirst(s.num_vars, k - 1)
               b == F(k - 1)
    <2>1. a \in Nat /\ b \in Nat /\ c = b + i /\ i \in Nat
      BY <1>1, <1>2
    <2> HIDE DEF a, b
    <2>2. a + c - b = a + i
      BY <2>1
    <2> QED
      BY <2>2 DEF a, b
  <1> QED
    BY <1>8, <1>9, <1>10 DEF Place, c

(* When the call is one the keys are for: the variables fill the rounds up  *)
(* to now and lie at their places, each commitment is to a segment as long  *)
(* as the shape says, and the last two are to the rows of eval_W.           *)
WitnessInv ==
  dims = key =>
    /\ IsSequence(state.aux)
    /\ Len(state.aux) = SumFirst(shape.num_vars_unpadded, Now)
    /\ Laid(state.w, state.aux, shape, Now)
    /\ \A k \in 1 .. Now : Len(state.comm_w_per_round[k].segment) = shape.num_vars[k]
    /\ \A b \in Branches : Now > LastChallenge + b =>
         state.comm_w_per_round[LastChallenge + 1 + b].segment = WithZeros(EvalW[b], Width)

(* It holds at the start. *)
LEMMA WitnessInit ==
  ASSUME Init
  PROVE  WitnessInv
  <1>1. state = NewState(shape, Zero) /\ TypeInv
    BY TypeInit, Zenon DEF Init
  <1>2. /\ state.aux = <<>> /\ state.challenges = <<>>
        /\ state.w = [k \in 1 .. Total(shape.num_vars) |-> Zero]
    BY <1>1 DEF NewState
  <1>3. Now = 0 /\ LastChallenge \in Nat
    BY <1>1, <1>2, EmptyIsSequence, Numbers DEF Now, CurrentRound
  <1>4. SumFirst(shape.num_vars_unpadded, 0) = 0
    BY SumUnfolds
  <1>5. Laid(state.w, state.aux, shape, 0)
    <2>1. \A p \in DOMAIN state.w : state.w[p] = Zero
      BY <1>2
    <2> QED
      BY <2>1 DEF Laid
  <1>6. \A b \in Branches : ~(Now > LastChallenge + b)
    BY <1>3 DEF Branches
  <1>7. \A k \in 1 .. Now : Len(state.comm_w_per_round[k].segment) = shape.num_vars[k]
    BY <1>3
  <1> QED
    BY <1>2, <1>3, <1>4, <1>5, <1>6, <1>7, EmptyIsSequence DEF WitnessInv

(* A round lays out its variables, and commits to a segment of the right    *)
(* length that consists of them where they fill it.                         *)
Committed(aux) ==
  /\ IsSequence(state'.aux)
  /\ Len(state'.aux) = SumFirst(shape.num_vars_unpadded, Now + 1)
  /\ Laid(state'.w, state'.aux, shape, Now + 1)
  /\ \A k \in 1 .. Now : state'.comm_w_per_round[k] = state.comm_w_per_round[k]
  /\ \A k \in 1 .. Now + 1 : Len(state'.comm_w_per_round[k].segment) = shape.num_vars[k]
  /\ shape.num_vars[Now + 1] = shape.num_vars_unpadded[Now + 1] =>
       CutFrom(state'.comm_w_per_round[Now + 1].segment, aux, 0, shape.num_vars[Now + 1])

(* The fields that are pairs and triples stay so. *)
LEMMA FilledWellFormed ==
  ASSUME TypeInv, BoundInv, ValueInv, NEW circuit, NEW x, Rounded(circuit, x), SendsRound
  PROVE  WellFormed(circuit, dims)
  <1>1. ValueInv' /\ vc' = circuit /\ dims' = dims
    BY ValueRound DEF Rounded
  <1>2. CircuitOK'
    BY <1>1 DEF ValueInv
  <1>3. WellFormed(vc', dims')
    BY <1>2, Zenon DEF CircuitOK
  <1> QED
    BY <1>1, <1>3

(* A round commits so. *)
LEMMA WitnessRound ==
  ASSUME TypeInv, BoundInv, ValueInv, WitnessInv, dims = key, SendsRound,
         NEW circuit, NEW x, Rounded(circuit, x)
  PROVE  Committed(Syn(circuit).aux)
  <1> DEFINE n == Now
             a == Syn(circuit).aux
             u == state.aux
             aux == u \o a
             comm == RoundSent(state, shape, Syn(circuit), n)
             from == SumFirst(shape.num_vars_unpadded, n)
             len == shape.num_vars[n + 1]
             min == shape.num_vars_unpadded[n + 1]
  <1>1. /\ Sized(dims) /\ ShapeIs(shape, dims) /\ OnTo(state.w, Total(shape.num_vars))
        /\ n \in Nat /\ n < NumRounds(dims) /\ NumRounds(dims) \in Nat
    <2>1. /\ Sized(dims) /\ ShapeIs(shape, dims) /\ OnTo(state.w, Total(shape.num_vars))
          /\ n \in Nat
      BY KeyFacts, Numbers DEF TypeInv
    <2>2. NumRounds(dims) \in Nat
      BY <2>1, Indices
    <2>3. n < shape.num_rounds
      BY DEF Rounded
    <2> QED
      BY <2>1, <2>2, <2>3 DEF ShapeIs
  <1>2. /\ Sizes(shape, NumRounds(dims)) /\ n + 1 \in 1 .. NumRounds(dims)
        /\ n \in 0 .. NumRounds(dims) /\ n + 1 \in 0 .. NumRounds(dims) /\ (n + 1) - 1 = n
    BY <1>1, SizesAre
  <1>3. /\ Total(shape.num_vars) \in Nat /\ SumFirst(shape.num_vars, n) \in Nat /\ from \in Nat
        /\ len \in Nat /\ min \in Nat
        /\ SumFirst(shape.num_vars_unpadded, n + 1) = from + min
        /\ SumFirst(shape.num_vars, n) + len <= Total(shape.num_vars)
    <2> HIDE DEF n
    <2>1. /\ SumFirst(shape.num_vars_unpadded, n + 1)
               = SumFirst(shape.num_vars_unpadded, (n + 1) - 1) + shape.num_vars_unpadded[n + 1]
          /\ SumFirst(shape.num_vars, n + 1)
               = SumFirst(shape.num_vars, (n + 1) - 1) + shape.num_vars[n + 1]
          /\ SumFirst(shape.num_vars, n + 1) <= Total(shape.num_vars)
      BY <1>2 DEF Sizes
    <2> QED
      BY <1>2, <2>1 DEF Sizes
  <1>4. IsSequence(a) /\ Len(a) = min
    <2> DEFINE held == state.vars_per_round
               prev == state.challenges_per_round
               chals == PassedChallenges(state, n)
    <2>0. WellFormed(circuit, dims)
      BY FilledWellFormed
    <2>1. Syn(circuit) = Rounds(dims, Width, circuit, n, held, prev, chals)
      BY Zenon DEF Syn, Synthesis
    <2>2. Fits(Rounds(dims, Width, circuit, n, held, prev, chals), AuxLength(dims, n),
               InputLength(dims, n))
      <3> HIDE DEF held, prev, chals, n
      <3> QED
        BY <1>1, <2>0, RoundsFit
    <2>3. min = AuxLength(dims, n)
      <3> HIDE DEF n
      <3> QED
        BY <1>1, <1>2 DEF ShapeIs
    <2> HIDE DEF n, min, held, prev, chals
    <2> QED
      BY <2>1, <2>2, <2>3 DEF Fits
  <1>5. IsSequence(u) /\ Len(u) = from /\ Laid(state.w, u, shape, n)
    BY DEF WitnessInv
  <1>6. Concatenates(aux, u, a)
    <2> HIDE DEF u, a
    <2> QED
      BY <1>4, <1>5, Concatenated
  <1>17. Laid(Copied(shape, state.w, aux, n), aux, shape, n + 1)
    <2> HIDE DEF u, a, n, aux
    <2> QED
      BY <1>1, <1>2, <1>4, <1>5, <1>6, LaidRound DEF from, min
  <1> HIDE DEF u, a, n, aux, from, len, min
  <1>7. /\ IsSequence(aux) /\ Len(aux) = from + min
        /\ \A i \in 1 .. min : aux[from + i] = a[i]
    BY <1>4, <1>5, <1>6 DEF Concatenates
  <1>8. Segments(comm, shape, aux, n)
    <2>1. Len(aux) >= SumFirst(shape.num_vars_unpadded, n) + shape.num_vars_unpadded[n + 1]
      BY <1>3, <1>7 DEF from, min
    <2>2. /\ SumFirst(shape.num_vars, n) \in Nat /\ shape.num_vars[n + 1] \in Nat
          /\ SumFirst(shape.num_vars_unpadded, n) \in Nat
          /\ Total(shape.num_vars) \in Nat
          /\ SumFirst(shape.num_vars, n) + shape.num_vars[n + 1] <= Total(shape.num_vars)
      BY <1>3 DEF from, len
    <2>3. Segments(RoundCommitment(shape, Copied(shape, state.w, aux, n), n), shape, aux, n)
      BY <1>1, <2>1, <2>2, SegmentIs
    <2>4. comm = RoundCommitment(shape, Copied(shape, state.w, aux, n), n)
      BY Zenon DEF RoundSent, RoundWitness, aux, u, a
    <2> QED
      BY <2>3, <2>4, Zenon
  <1> HIDE DEF comm
  <1>9. /\ state'.aux = aux
        /\ state'.w = Copied(shape, state.w, aux, n)
        /\ state'.comm_w_per_round = Append(state.comm_w_per_round, comm)
    BY Zenon DEF Rounded, Processed, RoundWitness, comm, aux, u, a, n
  <1>10. IsSequence(state.comm_w_per_round) /\ Len(state.comm_w_per_round) = n
    BY DEF BoundInv, RoundsBound, n, Now, CurrentRound
  <1>11. /\ \A k \in 1 .. n : state'.comm_w_per_round[k] = state.comm_w_per_round[k]
         /\ state'.comm_w_per_round[n + 1] = comm
    BY <1>9, <1>10, Appended
  <1>12. \A k \in 1 .. n : Len(state.comm_w_per_round[k].segment) = shape.num_vars[k]
    BY DEF WitnessInv, n
  <1>13. \A k \in 1 .. n + 1 : Len(state'.comm_w_per_round[k].segment) = shape.num_vars[k]
    <2> SUFFICES ASSUME NEW k \in 1 .. n + 1
                 PROVE  Len(state'.comm_w_per_round[k].segment) = shape.num_vars[k]
      OBVIOUS
    <2>1. CASE k = n + 1
      BY <1>8, <1>11, <2>1 DEF Segments
    <2>2. CASE k # n + 1
      <3>1. k \in 1 .. n
        BY <1>1, <2>2
      <3> QED
        BY <1>11, <1>12, <3>1
    <2> QED
      BY <2>1, <2>2
  <1>14. ASSUME len = min PROVE CutFrom(comm.segment, a, 0, len)
    <2>1. CutFrom(comm.segment, aux, from, len)
      BY <1>8, <1>14 DEF Segments, len, min, from
    <2>2. ASSUME NEW i \in 1 .. len PROVE comm.segment[i] = a[0 + i]
      <3>1. 0 + i = i /\ i \in 1 .. min
        BY <1>3, <1>14
      <3> QED
        BY <1>7, <2>1, <3>1 DEF CutFrom
    <2> QED
      BY <2>1, <2>2 DEF CutFrom
  <1>15. Laid(state'.w, state'.aux, shape, n + 1)
    BY <1>9, <1>17
  <1>16. Committed(a)
    BY <1>3, <1>7, <1>9, <1>11, <1>13, <1>14, <1>15 DEF Committed, n, len, min
  <1> QED
    BY <1>16 DEF a

(* The commitment to an evaluation is to its row. *)
LEMMA CommitsRow ==
  ASSUME TypeInv, BoundInv, ValueInv, WitnessInv, dims = key, SendsRound,
         NEW b \in Branches, Now = LastChallenge + b
  PROVE  /\ state'.comm_w_per_round[Now + 1].segment = WithZeros(EvalW[b], Width)
         /\ EvalW' = EvalW
  <1> DEFINE n == Now
             lc == LastChallenge
  <1>1. /\ n \in Nat /\ lc \in Nat /\ n = lc + b /\ b \in Nat /\ b >= 1 /\ b <= 2
        /\ Sized(dims) /\ lc = dims.nb + dims.nx + dims.ny + 2 /\ lc + 1 \in 1 .. n
    <2>1. b \in Nat /\ b >= 1 /\ b <= 2
      BY DEF Branches
    <2>2. n \in Nat /\ lc \in Nat /\ Sized(dims) /\ lc = dims.nb + dims.nx + dims.ny + 2
      BY More DEF LastChallenge
    <2>3. n = lc + b
      OBVIOUS
    <2> HIDE DEF n, lc
    <2>4. lc + 1 \in 1 .. n
      BY <2>1, <2>2, <2>3
    <2> QED
      BY <2>1, <2>2, <2>3, <2>4
  <1>2. EvalW' = EvalW
    <2>1. n >= lc
      <3> HIDE DEF n, lc
      <3> QED
        BY <1>1
    <2> QED
      BY <2>1, RoundKeeps DEF EvalW
  <1>3. CommitW(b)
    <2>1. stage = IF b = 1 THEN "commit_w_step" ELSE "commit_w_core"
      <3>1. stage \in ProverStages \ {"finalize"}
        BY Zenon DEF SendsRound, NifsRound, NifsFinal, OuterRound, OuterFinal, InnerRound,
                     InnerFinal, CommitW, ProverStages
      <3> DEFINE nb == dims.nb
                 nx == dims.nx
                 ny == dims.ny
                 ob == OuterBase
                 ib == InnerBase
                 lb == Len(r_b)
                 lx == Len(r_x)
                 ly == Len(r_y)
      <3>2. /\ nb \in Nat /\ nx \in Nat /\ ny \in Nat /\ ny >= 2
            /\ ob = nb + 1 /\ ib = ob + nx + 1 /\ lc = ib + ny
            /\ lb \in Nat /\ lx \in Nat /\ ly \in Nat
        BY Numbers
      <3>3. /\ stage = "nifs" => n = lb /\ lb < nb
            /\ stage = "nifs_final" => n = nb
            /\ stage = "outer" => n = ob + lx /\ lx < nx
            /\ stage = "outer_final" => n = ob + nx
            /\ stage = "inner" => n = ib + ly /\ ly < ny
            /\ stage = "inner_final" => n = lc
            /\ stage = "commit_w_step" => n = lc + 1
            /\ stage = "commit_w_core" => n = lc + 2
        BY Where
      <3> HIDE DEF n, nb, nx, ny, ob, ib, lc, lb, lx, ly
      <3>4. /\ ~(n = lb /\ lb < nb) /\ n # nb /\ ~(n = ob + lx /\ lx < nx) /\ n # ob + nx
            /\ ~(n = ib + ly /\ ly < ny) /\ n # lc
            /\ n = lc + 1 => b = 1
            /\ n = lc + 2 => b # 1
        BY <1>1, <3>2
      <3> QED
        BY <3>1, <3>3, <3>4 DEF ProverStages
    <2>2. ASSUME NEW e \in Branches, CommitW(e) PROVE e = b
      <3>1. stage = IF e = 1 THEN "commit_w_step" ELSE "commit_w_core"
        BY <2>2, Zenon DEF CommitW
      <3> QED
        BY <2>1, <3>1 DEF Branches
    <2>3. ~NifsRound /\ ~NifsFinal /\ ~OuterRound /\ ~OuterFinal /\ ~InnerRound /\ ~InnerFinal
      <3>1. stage \in {"commit_w_step", "commit_w_core"}
        BY <2>1
      <3>2. /\ stage # "nifs" /\ stage # "nifs_final" /\ stage # "outer"
            /\ stage # "outer_final" /\ stage # "inner" /\ stage # "inner_final"
        BY <3>1
      <3> QED
        BY <3>2, Zenon DEF NifsRound, NifsFinal, OuterRound, OuterFinal, InnerRound, InnerFinal
    <2> QED
      BY <2>2, <2>3 DEF SendsRound
  <1>4. PICK y : CommitTaken(b, y)
    BY <1>3, CommitWIs
  <1>5. Rounded(vc, y)
    BY <1>4 DEF CommitTaken
  <1>6. vc.eval_W = EvalW
    <2>1. lc + 1 \in 1 .. Now
      BY <1>1
    <2>2. HeldOK(lc + 1)
      BY <2>1 DEF ValueInv, HandedOn
    <2> QED
      BY <2>2 DEF HeldOK
  <1>7. Syn(vc).aux = WithZeros(EvalW[b], Width)
    <2> DEFINE chals == PassedChallenges(state, n)
               held == state.vars_per_round
               prev == state.challenges_per_round
    <2>1. Syn(vc) = Rounds(dims, Width, vc, n, held, prev, chals)
      BY Zenon DEF Syn, Synthesis
    <2> HIDE DEF n, chals, held, prev
    <2>2. n = dims.nb + dims.nx + dims.ny + 2 + b
      BY <1>1
    <2>3. Yields(Rounds(dims, Width, vc, n, held, prev, chals),
                 WithZeros(vc.eval_W[b], Width), <<>>, <<>>, <<>>,
                 {<<vc.eval_W[b], held[dims.nb + dims.nx + dims.ny + 3][b]>>})
      BY <1>1, <2>2, CommitYields
    <2>4. Rounds(dims, Width, vc, n, held, prev, chals).aux = WithZeros(vc.eval_W[b], Width)
      BY <2>3, Zenon DEF Yields
    <2> QED
      BY <1>6, <2>1, <2>4
  <1> DEFINE q == state'.comm_w_per_round[n + 1].segment
             p == WithZeros(EvalW[b], Width)
  <1>8. CutFrom(q, p, 0, Width)
    <2>1. Committed(p)
      BY <1>5, <1>7, WitnessRound
    <2>2. shape.num_vars[n + 1] = Width /\ shape.num_vars_unpadded[n + 1] = Width
      <3>1. ShapeIs(shape, dims) /\ Sized(dims)
        BY KeyFacts DEF TypeInv
      <3> DEFINE k == dims.nb + dims.nx + dims.ny + 3 + b
      <3>2. n + 1 = k
        <4> DEFINE i == dims.nb
                   j == dims.nx
                   h == dims.ny
        <4>1. i \in Nat /\ j \in Nat /\ h \in Nat
          BY <1>1 DEF Sized
        <4> HIDE DEF i, j, h, n, lc
        <4>2. n + 1 = i + j + h + 3 + b
          BY <1>1, <4>1 DEF i, j, h
        <4> QED
          BY <4>2 DEF i, j, h
      <3>3. shape.num_vars[k] = Width /\ shape.num_vars_unpadded[k] = Width
        BY <3>1, SizesAre
      <3> QED
        BY <3>2, <3>3
    <2> HIDE DEF p
    <2>3. shape.num_vars[n + 1] = shape.num_vars_unpadded[n + 1] =>
            CutFrom(q, p, 0, shape.num_vars[n + 1])
      BY <2>1 DEF Committed
    <2> QED
      BY <2>2, <2>3
  <1>9. q = p
    <2>1. Width \in Nat
      BY KeyDimsAssumption
    <2>2. DOMAIN p = 1 .. Width /\ p = [k \in 1 .. Width |-> p[k]]
      BY DEF WithZeros
    <2> HIDE DEF p, q
    <2>3. IsSequence(p) /\ Len(p) = Width
      <3>1. IsSequence(p)
        BY <2>1, <2>2, FunctionIsSequence
      <3>2. Len(p) \in Nat /\ DOMAIN p = 1 .. Len(p)
        BY <3>1, LenProperties DEF IsSequence
      <3>3. Len(p) = Width
        BY <2>1, <2>2, <3>2
      <3> QED
        BY <3>1, <3>3
    <2>4. IsSequence(q) /\ Len(q) = Width /\ \A i \in 1 .. Width : q[i] = p[i]
      <3>1. \A i \in 1 .. Width : 0 + i = i
        BY <2>1
      <3> QED
        BY <1>8, <3>1 DEF CutFrom
    <2> QED
      BY <2>3, <2>4, SameSequence
  <1> QED
    BY <1>2, <1>9

(* Every step keeps it. *)
LEMMA WitnessNext ==
  ASSUME TypeInv, BoundInv, ValueInv, WitnessInv, [Next]_vars
  PROVE  WitnessInv'
  <1>1. CASE SendsRound
    <2>1. PICK circuit, x : Rounded(circuit, x)
      BY <1>1, RoundActions
    <2>2. /\ Now' = Now + 1 /\ shape' = shape /\ dims' = dims /\ key' = key /\ Now \in Nat
          /\ LastChallenge' = LastChallenge /\ LastChallenge \in Nat
          /\ Now >= LastChallenge => EvalW' = EvalW
      BY <1>1, RoundKeeps, Numbers DEF LastChallenge, EvalW
    <2> SUFFICES ASSUME dims = key PROVE WitnessInv'
      BY <2>2 DEF WitnessInv
    <2>3. Committed(Syn(circuit).aux)
      BY <1>1, <2>1, WitnessRound
    <2>4. ASSUME NEW b \in Branches, Now + 1 > LastChallenge + b
          PROVE  state'.comm_w_per_round[LastChallenge + 1 + b].segment = WithZeros(EvalW'[b], Width)
      <3> DEFINE n == Now
                 lc == LastChallenge
      <3>1. b \in Nat /\ b >= 1
        BY DEF Branches
      <3>2. CASE n = lc + b
        <4>1. n + 1 = lc + 1 + b
          <5> HIDE DEF n, lc
          <5> QED
            BY <2>2, <3>1, <3>2 DEF n, lc
        <4>2. state'.comm_w_per_round[n + 1].segment = WithZeros(EvalW[b], Width) /\ EvalW' = EvalW
          BY <1>1, <3>2, CommitsRow
        <4> QED
          BY <4>1, <4>2
      <3>3. CASE n # lc + b
        <4>1. n > lc + b /\ lc + 1 + b \in 1 .. n /\ n >= lc
          <5>1. n \in Nat /\ lc \in Nat /\ n + 1 > lc + b
            BY <2>2, <2>4
          <5> HIDE DEF n, lc
          <5> QED
            BY <3>1, <3>3, <5>1
        <4>2. state.comm_w_per_round[lc + 1 + b].segment = WithZeros(EvalW[b], Width)
          BY <4>1 DEF WitnessInv
        <4>3. state'.comm_w_per_round[lc + 1 + b] = state.comm_w_per_round[lc + 1 + b]
          BY <2>3, <4>1 DEF Committed
        <4> QED
          BY <2>2, <4>1, <4>2, <4>3
      <3> QED
        BY <3>2, <3>3
    <2>5. /\ IsSequence(state'.aux)
          /\ Len(state'.aux) = SumFirst(shape.num_vars_unpadded, Now + 1)
          /\ Laid(state'.w, state'.aux, shape, Now + 1)
          /\ \A k \in 1 .. Now + 1 : Len(state'.comm_w_per_round[k].segment) = shape.num_vars[k]
      BY <2>3 DEF Committed
    <2> QED
      BY <2>2, <2>4, <2>5 DEF WitnessInv
  <1>2. CASE \/ Start \/ ProveFails \/ Finalize \/ StartVerify \/ VerifyRound \/ Conclude
             \/ UNCHANGED vars
    <2>1. UNCHANGED <<shape, key, dims, state, r_y>>
      BY <1>2, OthersUnchanged
    <2>2. Now' = Now /\ EvalW' = EvalW /\ LastChallenge' = LastChallenge
      BY <2>1 DEF Now, CurrentRound, EvalW, LastChallenge
    <2> QED
      BY <2>1, <2>2 DEF WitnessInv
  <1> QED
    BY <1>1, <1>2 DEF Next, SendsRound

-----------------------------------------------------------------------------
(* The finalized instance *)

(* f lists the challenges c of the rounds that have one, up to round m.     *)
Taken(f, c, nb, l) ==
  IsSequence(f) /\ Len(f) = l /\ \A j \in 1 .. l : f[j] = c[RoundOf(nb, j)]

(* How many of the first i rounds have one. *)
Answers(nb, m, i) == IF i <= nb THEN i ELSE IF i <= m THEN i - 1 ELSE m - 1

(* The challenges of the rounds, in a row: the final round of NIFS and the  *)
(* last three rounds have none.                                             *)
LEMMA FlattenChallenges ==
  ASSUME NEW n \in Nat, NEW m \in 1 .. n, NEW nb \in Nat, nb >= 1, m >= nb + 2,
         NEW s, Len(s) = n, NEW c,
         \A k \in 1 .. n : s[k] = IF k = nb + 1 \/ k > m THEN <<>> ELSE <<c[k]>>
  PROVE  Taken(FlattenSeq(s), c, nb, m - 1)
  <1>1. \E h : Flattens(h, s, n)
    BY FlattensExist
  <1> DEFINE g == CHOOSE h : Flattens(h, s, n)
  <1>2. Flattens(g, s, n) /\ FlattenSeq(s) = g[n]
    <2>1. n # 0
      OBVIOUS
    <2> QED
      BY <1>1, <2>1, Zenon DEF FlattenSeq, Flattens
  <1> HIDE DEF g
  <1>3. \A i \in 1 .. n : g[i] = IF i = 1 THEN s[i] ELSE g[i - 1] \o s[i]
    BY <1>2, Zenon DEF Flattens
  <1> DEFINE S == {i \in Nat : i \in 1 .. n => Taken(g[i], c, nb, Answers(nb, m, i))}
  <1>4. 0 \in S
    OBVIOUS
  <1>5. ASSUME NEW i \in Nat, i \in S PROVE i + 1 \in S
    <2> SUFFICES ASSUME i + 1 \in 1 .. n
                 PROVE  Taken(g[i + 1], c, nb, Answers(nb, m, i + 1))
      OBVIOUS
    <2>1. CASE i = 0
      <3>1. g[1] = <<c[1]>> /\ i + 1 = 1 /\ Answers(nb, m, 1) = 1
        <4>1. 1 # nb + 1 /\ ~(1 > m) /\ 1 \in 1 .. n /\ i + 1 = 1
          BY <2>1
        <4>2. s[1] = <<c[1]>>
          BY <4>1
        <4>3. g[1] = s[1]
          BY <1>3, <4>1
        <4> QED
          BY <4>1, <4>2, <4>3 DEF Answers
      <3>2. IsSequence(<<c[1]>>) /\ Len(<<c[1]>>) = 1
        BY Tuples
      <3>3. \A j \in 1 .. 1 : RoundOf(nb, j) = 1 /\ <<c[1]>>[j] = c[1]
        BY DEF RoundOf
      <3>4. Taken(<<c[1]>>, c, nb, 1)
        BY <3>2, <3>3 DEF Taken
      <3> QED
        BY <3>1, <3>4
    <2>2. CASE i # 0
      <3> DEFINE l == Answers(nb, m, i)
                 t == s[i + 1]
                 f == g[i + 1]
                 u == g[i]
      <3>1. Taken(u, c, nb, l) /\ f = u \o t
        <4>1. i \in 1 .. n /\ i + 1 # 1 /\ (i + 1) - 1 = i
          BY <2>2
        <4>2. Taken(g[i], c, nb, l)
          BY <1>5, <4>1
        <4>3. g[i + 1] = IF i + 1 = 1 THEN s[i + 1] ELSE g[(i + 1) - 1] \o s[i + 1]
          BY <1>3
        <4> QED
          BY <4>1, <4>2, <4>3
      <3>2. l \in Nat
        BY DEF Answers
      <3>3. IsSequence(u) /\ Len(u) = l /\ \A j \in 1 .. l : u[j] = c[RoundOf(nb, j)]
        BY <3>1 DEF Taken
      <3>4. CASE i + 1 = nb + 1 \/ i + 1 > m
        <4>1. t = <<>>
          BY <3>4
        <4>2. Answers(nb, m, i + 1) = l
          BY <3>4 DEF Answers
        <4> HIDE DEF f, u, t, l
        <4>3. Concatenates(f, u, <<>>)
          BY <3>1, <3>3, <4>1, EmptyIsSequence, Concatenated
        <4>4. IsSequence(f) /\ Len(f) = l /\ \A k \in 1 .. l : f[k] = u[k]
          BY <3>2, <3>3, <4>3, EmptyIsSequence DEF Concatenates
        <4>5. Taken(f, c, nb, l)
          BY <3>3, <4>4 DEF Taken
        <4> QED
          BY <4>2, <4>5 DEF f
      <3>5. CASE i + 1 # nb + 1 /\ ~(i + 1 > m)
        <4> DEFINE e == c[i + 1]
        <4>1. t = <<e>>
          BY <3>5
        <4>2. Answers(nb, m, i + 1) = l + 1 /\ RoundOf(nb, l + 1) = i + 1
          BY <3>5 DEF Answers, RoundOf
        <4>3. <<e>>[1] = e /\ IsSequence(<<e>>) /\ Len(<<e>>) = 1 /\ 1 \in 1 .. 1
          BY Tuples
        <4> HIDE DEF f, u, t, l, e
        <4>4. Concatenates(f, u, <<e>>)
          BY <3>1, <3>3, <4>1, <4>3, Concatenated
        <4>5. IsSequence(f) /\ Len(f) = l + 1 /\ f[l + 1] = e /\ \A k \in 1 .. l : f[k] = u[k]
          BY <3>3, <4>3, <4>4 DEF Concatenates
        <4>6. ASSUME NEW k \in 1 .. l + 1 PROVE f[k] = c[RoundOf(nb, k)]
          <5>1. k = l + 1 \/ k \in 1 .. l
            BY <3>2
          <5> QED
            BY <3>3, <4>2, <4>5, <5>1 DEF e
        <4>7. Taken(f, c, nb, l + 1)
          BY <4>5, <4>6 DEF Taken
        <4> QED
          BY <4>2, <4>7 DEF f
      <3> QED
        BY <3>4, <3>5
    <2> QED
      BY <2>1, <2>2
  <1> HIDE DEF S
  <1>6. \A i \in Nat : i \in S
    BY <1>4, <1>5, NatSetInduction
  <1>7. Taken(g[n], c, nb, Answers(nb, m, n))
    BY <1>6 DEF S
  <1>8. Answers(nb, m, n) = m - 1
    BY DEF Answers
  <1> QED
    BY <1>2, <1>7, <1>8

(* The numbers when all rounds are done. *)
LEMMA Finished ==
  ASSUME TypeInv, stage \in LateStages, dims = key
  PROVE  LET nb == dims.nb
             nx == dims.nx
             ny == dims.ny
             m  == LastChallenge
         IN  /\ Now \in Nat /\ Now = m + 3 /\ m \in Nat /\ m = nb + nx + ny + 2
             /\ nb \in Nat /\ nb >= 1 /\ nx \in Nat /\ nx >= 1 /\ ny \in Nat /\ ny >= 2
             /\ OuterBase = nb + 1 /\ InnerBase = nb + nx + 2 /\ Now = NumRounds(dims)
             /\ Len(r_b) = nb /\ Len(r_x) = nx /\ Len(r_y) = ny
             /\ IsSequence(r_b) /\ IsSequence(r_x) /\ IsSequence(r_y)
             /\ ShapeIs(shape, dims) /\ Sized(dims) /\ shape.num_rounds = Now
             /\ Total(shape.num_challenges) = m - 1
             /\ InputsBefore(nb, m, Now) = m + 5
  <1> DEFINE nb == dims.nb
             nx == dims.nx
             ny == dims.ny
             m  == LastChallenge
             n == Now
  <1>1. /\ n \in Nat /\ n = m + 3 /\ m \in Nat /\ m = nb + nx + ny + 2
        /\ nb \in Nat /\ nb >= 1 /\ nx \in Nat /\ nx >= 1 /\ ny \in Nat /\ ny >= 2
        /\ OuterBase = nb + 1 /\ InnerBase = nb + nx + 2
        /\ Len(r_b) = nb /\ Len(r_x) = nx /\ Len(r_y) = ny
        /\ IsSequence(r_b) /\ IsSequence(r_x) /\ IsSequence(r_y)
    BY Where, More DEF LastChallenge, OuterBase, InnerBase
  <1>2. /\ ShapeIs(shape, dims) /\ Sized(dims)
        /\ NumRounds(dims) = nb + nx + ny + 5
        /\ Total(shape.num_challenges) = nb + nx + 1 + ny
        /\ shape.num_rounds = NumRounds(dims)
    <2>1. ShapeIs(shape, dims) /\ Sized(dims)
      BY KeyFacts DEF TypeInv
    <2> QED
      BY <2>1, Indices DEF ShapeIs
  <1> HIDE DEF nb, nx, ny, m, n
  <1>3. /\ n = NumRounds(dims) /\ shape.num_rounds = n /\ Total(shape.num_challenges) = m - 1
    BY <1>1, <1>2
  <1>4. InputsBefore(nb, m, n) = m + 5
    <2>1. n # 0 /\ ~(n <= nb + 1) /\ ~(n <= m)
      BY <1>1
    <2> QED
      BY <2>1 DEF InputsBefore
  <1> QED
    BY <1>1, <1>2, <1>3, <1>4 DEF nb, nx, ny, m, n

(* The public input of the finalized instance is what the circuit           *)
(* allocated, in the order in which it did.                                 *)
LEMMA RegularIs ==
  ASSUME TypeInv, BoundInv, ValueInv, InputsInv, stage \in LateStages, dims = key
  PROVE  RegularX(Finalized(state, shape)) = state.inputs
  <1> DEFINE n == Now
             m == LastChallenge
             nb == dims.nb
             nx == dims.nx
             ny == dims.ny
             c == [k \in 1 .. m |-> Ch(state, k)]
             F == Finalized(state, shape)
             s == state.inputs
             q == SubSeq(s, (m - 1) + 1, (m - 1) + 6)
             f == FlattenSeq(state.challenges)
             X == RegularX(F)
  <1>1. /\ n \in Nat /\ n = m + 3 /\ m \in Nat /\ m = nb + nx + ny + 2
        /\ nb \in Nat /\ nb >= 1 /\ nx \in Nat /\ nx >= 1 /\ ny \in Nat /\ ny >= 2
        /\ ShapeIs(shape, dims) /\ Sized(dims) /\ n = NumRounds(dims)
        /\ Total(shape.num_challenges) = m - 1 /\ InputsBefore(nb, m, n) = m + 5
    BY Finished
  <1>2. /\ IsSequence(s) /\ Len(s) = m + 5
        /\ \A i \in 1 .. m - 1 : RoundOf(nb, i) < n => s[i] = Ch(state, RoundOf(nb, i))
    BY <1>1 DEF InputsInv
  <1>3. /\ Len(state.challenges) = n
        /\ \A k \in 1 .. n : state.challenges[k] = IF shape.num_challenges[k] = 0 THEN <<>>
                                                   ELSE <<Ch(state, k)>>
    BY DEF ValueInv, ChallengesGiven, Now, CurrentRound
  <1>4. \A k \in 1 .. n : shape.num_challenges[k] = 0 <=> k = nb + 1 \/ k > m
    <2> SUFFICES ASSUME NEW k \in 1 .. n
                 PROVE  shape.num_challenges[k] = 0 <=> k = nb + 1 \/ k > m
      OBVIOUS
    <2>1. k \in 1 .. NumRounds(dims) /\ k - 1 \in Nat
      BY <1>1
    <2>2. shape.num_challenges[k] = NumChallenges(dims, k - 1)
      BY <1>1, <2>1 DEF ShapeIs
    <2>3. NumChallenges(dims, k - 1)
            = IF \/ k - 1 = nb
                 \/ k - 1 \in {nb + nx + ny + 2, nb + nx + ny + 3, nb + nx + ny + 4}
                THEN 0 ELSE 1
      <3> DEFINE h == k - 1
      <3>1. h \in Nat
        BY <2>1
      <3> HIDE DEF h
      <3>2. NumChallenges(dims, h)
              = IF \/ h = dims.nb
                   \/ h \in {dims.nb + dims.nx + dims.ny + 2, dims.nb + dims.nx + dims.ny + 3,
                             dims.nb + dims.nx + dims.ny + 4}
                  THEN 0 ELSE 1
        BY <1>1, <3>1, ChallengeRounds
      <3> QED
        BY <3>2 DEF h
    <2> HIDE DEF n, m, nb, nx, ny
    <2>4. (\/ k - 1 = nb
           \/ k - 1 \in {nb + nx + ny + 2, nb + nx + ny + 3, nb + nx + ny + 4})
            <=> k = nb + 1 \/ k > m
      BY <1>1
    <2> QED
      BY <2>2, <2>3, <2>4
  <1>5. /\ F.public_values = q /\ F.challenges_per_round = state.challenges
    <2>1. F = [comm_w_per_round |-> state.comm_w_per_round,
               public_values |-> SubSeq(s, Total(shape.num_challenges) + 1, Len(s)),
               challenges_per_round |-> state.challenges]
      BY Zenon DEF Finalized
    <2>2. Len(s) = (m - 1) + 6
      <3> HIDE DEF m, s, n, nb, nx, ny
      <3> QED
        BY <1>1, <1>2
    <2> DEFINE tot == Total(shape.num_challenges)
               len == Len(s)
    <2>3. F.public_values = SubSeq(s, tot + 1, len) /\ F.challenges_per_round = state.challenges
      <3> HIDE DEF F, s, tot, len
      <3> QED
        BY <2>1 DEF tot, len
    <2> HIDE DEF F, s, m
    <2> QED
      BY <1>1, <2>2, <2>3 DEF m
  <1>6. CutFrom(q, s, m - 1, 6)
    <2>1. m - 1 \in Nat
      BY <1>1
    <2> HIDE DEF s, m
    <2> QED
      BY <2>1, Cut
  <1>7. Taken(f, c, nb, m - 1)
    <2>1. \A k \in 1 .. n : state.challenges[k] = IF k = nb + 1 \/ k > m THEN <<>> ELSE <<c[k]>>
      <3> SUFFICES ASSUME NEW k \in 1 .. n
                   PROVE  state.challenges[k] = IF k = nb + 1 \/ k > m THEN <<>> ELSE <<c[k]>>
        OBVIOUS
      <3>1. ~(k > m) => k \in 1 .. m /\ c[k] = Ch(state, k)
        BY <1>1
      <3> HIDE DEF c, n, m, nb
      <3> QED
        BY <1>3, <1>4, <3>1
    <2>2. m \in 1 .. n /\ m >= nb + 2
      <3> HIDE DEF m, n, nb, nx, ny
      <3> QED
        BY <1>1
    <2> HIDE DEF n, m, c, nb, nx, ny
    <2> QED
      BY <1>1, <1>3, <2>1, <2>2, FlattenChallenges
  <1>8. \A k \in 1 .. m : c[k] = Ch(state, k)
    OBVIOUS
  <1> HIDE DEF n, m, nb, nx, ny, c, F, q, f, X, s
  <1>9. IsSequence(q) /\ Len(q) = 6 /\ \A i \in 1 .. 6 : q[i] = s[(m - 1) + i]
    BY <1>6 DEF CutFrom
  <1>10. Concatenates(X, f, q)
    <2>1. X = FlattenSeq(F.challenges_per_round) \o F.public_values
      BY Zenon DEF RegularX, X
    <2>2. X = f \o q
      BY <1>5, <2>1, Zenon DEF f
    <2>3. IsSequence(f) /\ IsSequence(q)
      BY <1>7, <1>9 DEF Taken
    <2> QED
      BY <2>2, <2>3, Concatenated
  <1>11. /\ IsSequence(X) /\ Len(X) = m + 5
         /\ \A i \in 1 .. m - 1 : X[i] = f[i]
         /\ \A i \in 1 .. 6 : X[(m - 1) + i] = q[i]
    <2>1. Len(f) = m - 1
      BY <1>7 DEF Taken
    <2>2. (m - 1) + 6 = m + 5
      BY <1>1
    <2> QED
      BY <1>9, <1>10, <2>1, <2>2 DEF Concatenates
  <1>12. ASSUME NEW i \in 1 .. m + 5 PROVE X[i] = s[i]
    <2>1. CASE i \in 1 .. m - 1
      <3>1. RoundOf(nb, i) \in 1 .. m /\ RoundOf(nb, i) < n
        BY <1>1, <2>1 DEF RoundOf
      <3>2. f[i] = c[RoundOf(nb, i)]
        BY <1>7, <2>1 DEF Taken
      <3> QED
        BY <1>2, <1>8, <1>11, <2>1, <3>1, <3>2
    <2>2. CASE i \notin 1 .. m - 1
      <3>1. i - (m - 1) \in 1 .. 6 /\ (m - 1) + (i - (m - 1)) = i
        BY <1>1, <2>2
      <3> QED
        BY <1>9, <1>11, <3>1
    <2> QED
      BY <2>1, <2>2
  <1>13. X = s
    BY <1>2, <1>11, <1>12, SameSequence
  <1> QED
    BY <1>13 DEF X, F, s

(* What the verifier slices out of a public input. *)
Readable(X) ==
  /\ Len(X) = key.nb + key.nx + 1 + key.ny + 6
  /\ SliceOf(X, key).r_b = r_b /\ SliceOf(X, key).r_x = r_x
  /\ SliceOf(X, key).r = r /\ SliceOf(X, key).r_y = r_y
  /\ SliceOf(X, key).public_values = PublicValues

(* t lists the b entries of s from a + 1 on. *)
Lists(t, s, a, b) == IsSequence(t) /\ Len(t) = b /\ \A i \in 1 .. b : t[i] = s[a + i]

(* A part of s that t lists is t. *)
LEMMA CutIs ==
  ASSUME NEW s, NEW a \in Nat, NEW b \in Nat, NEW t, Lists(t, s, a, b)
  PROVE  SubSeq(s, a + 1, a + b) = t
  <1> DEFINE q == SubSeq(s, a + 1, a + b)
  <1>1. CutFrom(q, s, a, b)
    BY Cut
  <1> HIDE DEF q
  <1>2. q = t
    BY <1>1, SameSequence DEF CutFrom, Lists
  <1> QED
    BY <1>2 DEF q

(* A tuple of six is a sequence. *)
LEMMA SixTuple ==
  ASSUME NEW a, NEW b, NEW c, NEW d, NEW e, NEW f
  PROVE  IsSequence(<<a, b, c, d, e, f>>) /\ Len(<<a, b, c, d, e, f>>) = 6
  BY DEF IsSequence, Range

(* The verifier reads the prover's challenges and the values it expects.    *)
LEMMA ReadableAtTheEnd ==
  ASSUME TypeInv, BoundInv, ValueInv, InputsInv, stage \in LateStages, dims = key
  PROVE  Readable(RegularX(Finalized(state, shape)))
  <1> DEFINE n == Now
             m == LastChallenge
             nb == dims.nb
             nx == dims.nx
             ny == dims.ny
             ob == OuterBase
             ib == InnerBase
             p == PublicValues
             X == state.inputs
             v == SliceOf(X, key)
  <1>1. /\ n \in Nat /\ n = m + 3 /\ m \in Nat /\ m = nb + nx + ny + 2
        /\ nb \in Nat /\ nb >= 1 /\ nx \in Nat /\ nx >= 1 /\ ny \in Nat /\ ny >= 2
        /\ ob = nb + 1 /\ ib = nb + nx + 2
        /\ Len(r_b) = nb /\ Len(r_x) = nx /\ Len(r_y) = ny
        /\ IsSequence(r_b) /\ IsSequence(r_x) /\ IsSequence(r_y)
        /\ InputsBefore(nb, m, n) = m + 5
    BY Finished
  <1>2. /\ Len(X) = m + 5
        /\ \A i \in 1 .. m - 1 : RoundOf(nb, i) < n => X[i] = Ch(state, RoundOf(nb, i))
        /\ n > m => \A i \in 1 .. 6 : X[m - 1 + i] = p[i]
    BY <1>1 DEF InputsInv
  <1>3. /\ \A i \in 1 .. nb : r_b[i] = Ch(state, 0 + i)
        /\ \A i \in 1 .. nx : r_x[i] = Ch(state, ob + i)
        /\ n >= ib => r = Ch(state, ib)
        /\ \A i \in 1 .. ny : r_y[i] = Ch(state, ib + i)
    BY <1>1 DEF ValueInv, Kept, Mirrors
  <1>4. /\ v.r_b = SubSeq(X, 1, nb) /\ v.r_x = SubSeq(X, nb + 1, nb + nx)
        /\ v.r = X[nb + nx + 1] /\ v.r_y = SubSeq(X, nb + nx + 2, nb + nx + 1 + ny)
        /\ v.public_values = SubSeq(X, nb + nx + 1 + ny + 1, Len(X))
    BY DEF SliceOf
  <1>5. IsSequence(p) /\ Len(p) = 6
    <2>1. \A a, b, c, d, e, f :
            IsSequence(<<a, b, c, d, e, f>>) /\ Len(<<a, b, c, d, e, f>>) = 6
      BY SixTuple
    <2> QED
      BY <2>1, Zenon DEF PublicValues
  <1> HIDE DEF n, m, nb, nx, ny, ob, ib, p, X, v
  <1>6. /\ \A i \in 1 .. nb : X[0 + i] = Ch(state, 0 + i)
        /\ \A i \in 1 .. nx : X[nb + i] = Ch(state, ob + i)
        /\ X[nb + nx + 1] = Ch(state, ib)
        /\ \A i \in 1 .. ny : X[nb + nx + 1 + i] = Ch(state, ib + i)
    <2>1. ASSUME NEW i \in 1 .. nb PROVE X[0 + i] = Ch(state, 0 + i)
      <3>1. 0 + i = i /\ i \in 1 .. m - 1 /\ RoundOf(nb, i) = i /\ i < n
        BY <1>1 DEF RoundOf
      <3> QED
        BY <1>2, <3>1
    <2>2. ASSUME NEW i \in 1 .. nx PROVE X[nb + i] = Ch(state, ob + i)
      <3>1. nb + i \in 1 .. m - 1 /\ RoundOf(nb, nb + i) = ob + i /\ ob + i < n
        BY <1>1 DEF RoundOf
      <3> QED
        BY <1>2, <3>1
    <2>3. X[nb + nx + 1] = Ch(state, ib)
      <3>1. nb + nx + 1 \in 1 .. m - 1 /\ RoundOf(nb, nb + nx + 1) = ib /\ ib < n
        BY <1>1 DEF RoundOf
      <3> QED
        BY <1>2, <3>1
    <2>4. ASSUME NEW i \in 1 .. ny PROVE X[nb + nx + 1 + i] = Ch(state, ib + i)
      <3>1. /\ nb + nx + 1 + i \in 1 .. m - 1 /\ RoundOf(nb, nb + nx + 1 + i) = ib + i
            /\ ib + i < n
        BY <1>1 DEF RoundOf
      <3> QED
        BY <1>2, <3>1
    <2> QED
      BY <2>1, <2>2, <2>3, <2>4
  <1>7. v.r_b = r_b
    <2>1. 1 = 0 + 1 /\ nb = 0 + nb
      BY <1>1
    <2>2. Lists(r_b, X, 0, nb)
      BY <1>1, <1>3, <1>6 DEF Lists
    <2>3. SubSeq(X, 0 + 1, 0 + nb) = r_b
      BY <1>1, <2>2, CutIs
    <2> QED
      BY <1>4, <2>1, <2>3
  <1>8. v.r_x = r_x
    <2>1. Lists(r_x, X, nb, nx)
      BY <1>1, <1>3, <1>6 DEF Lists
    <2>2. SubSeq(X, nb + 1, nb + nx) = r_x
      BY <1>1, <2>1, CutIs
    <2> QED
      BY <1>4, <2>2
  <1>9. v.r = r
    <2>1. n >= ib
      BY <1>1
    <2> QED
      BY <1>3, <1>4, <1>6, <2>1
  <1>10. v.r_y = r_y
    <2>1. PICK a \in Nat : a = nb + nx + 1
      BY <1>1
    <2>2. nb + nx + 2 = a + 1 /\ nb + nx + 1 + ny = a + ny
      BY <1>1, <2>1
    <2>3. Lists(r_y, X, a, ny)
      BY <1>1, <1>3, <1>6, <2>1 DEF Lists
    <2>4. SubSeq(X, a + 1, a + ny) = r_y
      BY <1>1, <2>3, CutIs
    <2> QED
      BY <1>4, <2>2, <2>4
  <1>11. v.public_values = p
    <2>1. PICK a \in Nat : a = m - 1
      BY <1>1
    <2>2. nb + nx + 1 + ny + 1 = a + 1 /\ Len(X) = a + 6 /\ n > m
      BY <1>1, <1>2, <2>1
    <2>3. Lists(p, X, a, 6)
      BY <1>2, <1>5, <2>1, <2>2 DEF Lists
    <2>4. SubSeq(X, a + 1, a + 6) = p
      BY <2>3, CutIs
    <2> QED
      BY <1>4, <2>2, <2>4
  <1>12. Len(X) = nb + nx + 1 + ny + 6
    BY <1>1, <1>2
  <1>13. Readable(X)
    BY <1>7, <1>8, <1>9, <1>10, <1>11, <1>12 DEF Readable, nb, nx, ny, p, v
  <1> QED
    BY <1>13, RegularIs DEF X

-----------------------------------------------------------------------------
(* The verifier's replay *)

(* Whoever opens the transcript again gets the same rhos. *)
Reopens(t) ==
  \A p : Grown(oracle, p) => /\ Opening(dims.nb, p).transcript = t
                             /\ Tail(Opening(dims.nb, p).challenges) = rhos
                             /\ Opening(dims.nb, p).oracle = p

(* Whoever sends the commitment of round k again gets the same challenges. *)
Resends(k, before, after) ==
  \A p : Grown(oracle, p) =>
           Exchange(shape, state.comm_w_per_round[k], k - 1, before, p)
             = [challenges |-> state.challenges[k], transcript |-> after, oracle |-> p]

(* T has the transcripts after the opening and after each round. *)
Replayed(T) ==
  /\ T[Now] = transcript
  /\ Reopens(T[0])
  /\ \A k \in 1 .. Now : Resends(k, T[k - 1], T[k])

(* The verifier has come to one of them. *)
Verifying(T) ==
  /\ verifier.round \in 0 .. Now
  /\ verifier = [transcript |-> T[verifier.round], rhos |-> rhos, round |-> verifier.round]

(* The stages after finalize. *)
Ended == {"finalized", "verify", "accepted", "rejected"}

(* The inductive invariant behind FinalizedInstancesVerify: the verifier can make  *)
(* every exchange again and has found nothing to refuse.                    *)
ReplayInv ==
  /\ stage # "start" => \E T : Replayed(T) /\ (stage = "verify" => Verifying(T))
  /\ stage \in Ended => U = Finalized(state, shape) /\ dims = key
  /\ stage # "rejected"

(* Transcripts stay replayed while nobody asks the oracle. *)
LEMMA ReplayKept ==
  ASSUME UNCHANGED <<shape, dims, state, transcript, oracle, rhos>>, NEW T, Replayed(T)
  PROVE  Replayed(T)'
  <1>1. Now' = Now
    BY DEF Now, CurrentRound
  <1>2. Reopens(T[0])'
    <2>1. \A p : Opening(dims.nb, p)' = Opening(dims.nb, p)
      BY DEF Opening
    <2>2. Reopens(T[0])
      BY DEF Replayed
    <2> QED
      BY <2>1, <2>2 DEF Reopens
  <1>3. ASSUME NEW k \in 1 .. Now PROVE Resends(k, T[k - 1], T[k])'
    BY DEF Replayed, Resends
  <1> QED
    BY <1>1, <1>2, <1>3 DEF Replayed

(* Start opens the transcript. *)
LEMMA ReplayStart ==
  ASSUME TypeInv, BoundInv, Start
  PROVE  ReplayInv'
  <1> DEFINE x == Opening(dims.nb, oracle)
  <1>1. /\ stage = "start" /\ transcript' = x.transcript /\ oracle' = x.oracle
        /\ rhos' = Tail(x.challenges) /\ stage' = "nifs" /\ UNCHANGED <<shape, dims, state>>
    BY Zenon DEF Start
  <1>2. OpeningAgain(dims.nb, oracle)
    BY KeyFacts, OpeningFacts DEF TypeInv, Sized, BoundInv, RoundsBound
  <1>3. Now = 0 /\ Now' = 0
    BY <1>1 DEF TypeInv, Counts, Counted, Now, CurrentRound
  <1>4. \A p : Opening(dims.nb, p)' = Opening(dims.nb, p)
    BY <1>1 DEF Opening
  <1>5. PICK T : T[0] = x.transcript
    <2>1. [k \in 0 .. 0 |-> x.transcript][0] = x.transcript
      OBVIOUS
    <2> QED
      BY <2>1
  <1>6. Reopens(T[0])'
    <2>1. ASSUME NEW p, Grown(x.oracle, p)
          PROVE  /\ Opening(dims.nb, p).transcript = x.transcript
                 /\ Opening(dims.nb, p).challenges = x.challenges
                 /\ Opening(dims.nb, p).oracle = p
      <3>1. Opening(dims.nb, p) = [challenges |-> x.challenges, transcript |-> x.transcript,
                                   oracle |-> p]
        BY <1>2, <2>1, Zenon DEF OpeningAgain
      <3> HIDE DEF x
      <3> QED
        BY <3>1
    <2> HIDE DEF x
    <2> QED
      BY <1>1, <1>4, <1>5, <2>1 DEF Reopens
  <1>7. Replayed(T)'
    <2> HIDE DEF x
    <2> QED
      BY <1>1, <1>3, <1>5, <1>6 DEF Replayed
  <1> QED
    BY <1>1, <1>7 DEF ReplayInv, Ended

(* A round's exchange is the one the verifier will make again. *)
LEMMA ReplayRound ==
  ASSUME TypeInv, BoundInv, ReplayInv,
         SendsRound
  PROVE  ReplayInv'
  <1> DEFINE n == Now
  <1>1. PICK circuit, x : Rounded(circuit, x)
    BY RoundActions
  <1>2. stage \in ProverStages /\ stage' \in ProverStages
    BY RoundActions
  <1>3. PICK T : Replayed(T)
    BY <1>2 DEF ReplayInv, ProverStages
  <1>4. /\ state' = x.state /\ transcript' = x.transcript /\ oracle' = x.oracle
        /\ UNCHANGED <<shape, dims, rhos>>
        /\ Processed(x, Made(circuit), state, shape, Syn(circuit), n)
    BY <1>1 DEF Rounded
  <1>5. Now' = n + 1 /\ n \in Nat
    BY <1>1, RoundedType
  <1> DEFINE e == Made(circuit)
             comm == RoundSent(state, shape, Syn(circuit), n)
  <1>6. /\ x.transcript = e.transcript /\ x.oracle = e.oracle
        /\ x.state.challenges = Append(state.challenges, e.challenges)
        /\ x.state.comm_w_per_round = Append(state.comm_w_per_round, comm)
    BY <1>4 DEF Processed
  <1>7. /\ RoundsBound(state, transcript, oracle, {})
        /\ OracleOK(oracle) /\ TranscriptOK(transcript, oracle)
        /\ IsSequence(state.challenges) /\ Len(state.challenges) = n
        /\ IsSequence(state.comm_w_per_round) /\ Len(state.comm_w_per_round) = n
    BY DEF BoundInv, RoundsBound, Now, CurrentRound
  <1>8. Grown(oracle, x.oracle)
    BY <1>4, <1>7, BoundProcessed DEF Made
  <1>9. /\ Repeats(shape, comm, n, transcript, oracle)
        /\ e = Exchange(shape, comm, n, transcript, oracle)
    <2>1. e = Exchange(shape, comm, n, transcript, oracle)
      BY Zenon DEF Made, RoundExchange
    <2> HIDE DEF comm, n, e
    <2> QED
      BY <1>7, <2>1, ExchangeFacts
  <1> HIDE DEF e, comm, n
  <1>10. /\ Len(x.state.challenges) = n + 1
         /\ \A i \in 1 .. n : x.state.challenges[i] = state.challenges[i]
         /\ x.state.challenges[n + 1] = e.challenges
    BY <1>6, <1>7, Appended
  <1>11. /\ \A i \in 1 .. n : x.state.comm_w_per_round[i] = state.comm_w_per_round[i]
         /\ x.state.comm_w_per_round[n + 1] = comm
    BY <1>6, <1>7, Appended
  <1>12. PICK R : R[n + 1] = x.transcript /\ \A k \in 0 .. n : R[k] = T[k]
    <2> DEFINE S == [k \in 0 .. n + 1 |-> IF k = n + 1 THEN x.transcript ELSE T[k]]
    <2>1. \A k \in 0 .. n : k # n + 1 /\ k \in 0 .. n + 1
      BY <1>5
    <2>2. n + 1 \in 0 .. n + 1
      BY <1>5
    <2>3. S[n + 1] = x.transcript /\ \A k \in 0 .. n : S[k] = T[k]
      BY <2>1, <2>2
    <2> QED
      BY <2>3
  <1>13. \A p : Grown(oracle', p) => Grown(oracle, p)
    BY <1>4, <1>7, <1>8, GrownTransitive
  <1>14. Reopens(R[0])'
    <2>1. Reopens(T[0]) /\ R[0] = T[0]
      BY <1>3, <1>5, <1>12 DEF Replayed
    <2>2. \A p : Opening(dims.nb, p)' = Opening(dims.nb, p)
      BY <1>4 DEF Opening
    <2>3. Reopens(T[0])'
      BY <1>4, <1>13, <2>1, <2>2 DEF Reopens
    <2> QED
      BY <2>1, <2>3
  <1>15. ASSUME NEW k \in 1 .. n + 1 PROVE Resends(k, R[k - 1], R[k])'
    <2>1. CASE k = n + 1
      <3>1. k - 1 = n /\ n \in 0 .. n
        BY <1>5, <2>1
      <3>2. R[k - 1] = transcript /\ R[k] = x.transcript
        BY <1>3, <1>12, <2>1, <3>1 DEF Replayed, n
      <3>3. ASSUME NEW p, Grown(x.oracle, p)
            PROVE  Exchange(shape, comm, n, transcript, p)
                     = [challenges |-> e.challenges, transcript |-> e.transcript, oracle |-> p]
        <4>1. Grown(Exchange(shape, comm, n, transcript, oracle).oracle, p)
          BY <1>6, <1>9, <3>3
        <4> QED
          BY <1>9, <4>1 DEF Repeats
      <3> QED
        BY <1>4, <1>6, <1>10, <1>11, <2>1, <3>1, <3>2, <3>3 DEF Resends
    <2>2. CASE k # n + 1
      <3>1. k \in 1 .. n /\ k \in 0 .. n /\ k - 1 \in 0 .. n
        BY <1>5, <2>2
      <3>2. Resends(k, T[k - 1], T[k])
        BY <1>3, <3>1 DEF Replayed, n
      <3>3. R[k - 1] = T[k - 1] /\ R[k] = T[k]
        BY <1>12, <3>1
      <3>4. Resends(k, R[k - 1], R[k])
        BY <3>2, <3>3
      <3> QED
        BY <1>4, <1>10, <1>11, <1>13, <3>1, <3>4 DEF Resends
    <2> QED
      BY <2>1, <2>2
  <1>16. Replayed(R)'
    BY <1>4, <1>5, <1>12, <1>14, <1>15 DEF Replayed
  <1>17. stage' # "start" /\ stage' # "verify" /\ stage' \notin Ended /\ stage' # "rejected"
    BY <1>2 DEF ProverStages, Ended
  <1> QED
    BY <1>16, <1>17 DEF ReplayInv

(* A round of the verifier is the exchange of the prover, made again. *)
LEMMA ReplayVerify ==
  ASSUME TypeInv, BoundInv, WitnessInv, ReplayInv, VerifyRound
  PROVE  ReplayInv'
  <1> DEFINE x == ValidateRound(U, shape, verifier.round, verifier.transcript, oracle)
             k == verifier.round + 1
             n == Now
  <1>1. /\ stage = "verify" /\ verifier.round < shape.num_rounds
        /\ verifier' = [verifier EXCEPT !.transcript = x.transcript, !.round = @ + 1]
        /\ oracle' = x.oracle /\ stage' = IF x.ok THEN "verify" ELSE "rejected"
        /\ UNCHANGED <<shape, key, dims, state, transcript, rhos, U>>
    BY Zenon DEF VerifyRound
  <1>2. PICK T : Replayed(T) /\ Verifying(T)
    BY <1>1 DEF ReplayInv
  <1>3. U = Finalized(state, shape) /\ dims = key
    BY <1>1 DEF ReplayInv, Ended
  <1>4. /\ U.comm_w_per_round = state.comm_w_per_round
        /\ U.challenges_per_round = state.challenges
    BY <1>3 DEF Finalized
  <1>5. /\ n \in Nat /\ shape.num_rounds = n
    BY <1>1, <1>3, Finished DEF LateStages
  <1>6. verifier.round \in 0 .. n /\ k \in 1 .. n /\ k - 1 = verifier.round
    <2>1. verifier.round \in 0 .. n
      BY <1>2 DEF Verifying
    <2> HIDE DEF n
    <2> QED
      BY <1>1, <1>5, <2>1
  <1>7. /\ verifier = [transcript |-> T[verifier.round], rhos |-> rhos,
                       round |-> verifier.round]
        /\ verifier.transcript = T[k - 1]
    <2>1. verifier = [transcript |-> T[verifier.round], rhos |-> rhos,
                      round |-> verifier.round]
      BY <1>2 DEF Verifying
    <2> QED
      BY <1>6, <2>1
  <1> DEFINE e == Exchange(shape, U.comm_w_per_round[k], verifier.round,
                           verifier.transcript, oracle)
  <1>8. Validated(x, e, U, shape, verifier.round)
    BY ValidateIs
  <1>9. e = [challenges |-> state.challenges[k], transcript |-> T[k], oracle |-> oracle]
    <2>1. Resends(k, T[k - 1], T[k])
      BY <1>2, <1>6 DEF Replayed
    <2>2. Grown(oracle, oracle)
      BY GrownReflexive DEF BoundInv, RoundsBound
    <2>3. Exchange(shape, state.comm_w_per_round[k], k - 1, T[k - 1], oracle)
            = [challenges |-> state.challenges[k], transcript |-> T[k], oracle |-> oracle]
      BY <2>1, <2>2 DEF Resends
    <2> HIDE DEF k
    <2> QED
      BY <1>4, <1>6, <1>7, <2>3
  <1>10. Len(state.comm_w_per_round[k].segment) = shape.num_vars[k]
    BY <1>3, <1>6 DEF WitnessInv
  <1> HIDE DEF x, e
  <1>11. /\ x.transcript = T[k] /\ x.oracle = oracle /\ x.ok
    <2>1. /\ e.transcript = T[k] /\ e.oracle = oracle /\ e.challenges = state.challenges[k]
      BY <1>9
    <2>2. /\ x.transcript = e.transcript /\ x.oracle = e.oracle
          /\ x.ok <=> /\ Len(U.comm_w_per_round[k].segment) = shape.num_vars[k]
                      /\ U.challenges_per_round[k] = e.challenges
      BY <1>8 DEF Validated
    <2> QED
      BY <1>4, <1>10, <2>1, <2>2
  <1>12. stage' = "verify" /\ oracle' = oracle
    BY <1>1, <1>11
  <1>13. Replayed(T)'
    BY <1>1, <1>2, <1>12, ReplayKept
  <1>14. Verifying(T)'
    <2>1. Now' = n
      BY <1>1 DEF Now, CurrentRound
    <2>2. verifier' = [transcript |-> T[k], rhos |-> rhos, round |-> k]
      <3> DEFINE a == T[verifier.round]
                 c == verifier.round
                 v == [verifier EXCEPT !.transcript = T[k]]
      <3>1. verifier' = [verifier EXCEPT !.transcript = T[k], !.round = k]
        BY <1>1, <1>11
      <3>2. verifier' = [v EXCEPT !.round = k]
        <4> HIDE DEF k
        <4> QED
          BY <3>1
      <3>3. verifier = [transcript |-> a, rhos |-> rhos, round |-> c]
        BY <1>7
      <3> HIDE DEF a, c, k
      <3>4. v = [transcript |-> T[k], rhos |-> rhos, round |-> c]
        BY <3>3
      <3> HIDE DEF v
      <3> QED
        BY <3>2, <3>4
    <2>3. verifier'.round = k
      BY <2>2
    <2>4. k \in 0 .. n
      BY <1>5, <1>6
    <2> HIDE DEF k, n
    <2> QED
      BY <1>1, <2>1, <2>2, <2>3, <2>4 DEF Verifying
  <1>15. U' = Finalized(state, shape)' /\ dims' = key'
    BY <1>1, <1>3 DEF Finalized
  <1> QED
    BY <1>12, <1>13, <1>14, <1>15 DEF ReplayInv

(* What verify computes from an honest instance is what it finds in it. *)
LEMMA ReplayConclude ==
  ASSUME TypeInv, BoundInv, ValueInv, InputsInv, WitnessInv, ReplayInv, Conclude
  PROVE  ReplayInv'
  <1> DEFINE X == RegularX(U)
             s == SliceOf(X, key)
             accepted == /\ Len(X) = key.nb + key.nx + 1 + key.ny + 6
                         /\ s.public_values = ExpectedPublicValues(s, verifier.rhos)
                         /\ \A b \in Branches : OpensToEvaluation(b, s)
  <1>1. /\ stage = "verify" /\ stage' = IF accepted THEN "accepted" ELSE "rejected"
        /\ UNCHANGED <<shape, key, dims, state, transcript, oracle, rhos, U>>
    BY Zenon DEF Conclude
  <1>2. PICK T : Replayed(T) /\ Verifying(T)
    BY <1>1 DEF ReplayInv
  <1>3. U = Finalized(state, shape) /\ dims = key /\ stage \in LateStages
    BY <1>1 DEF ReplayInv, Ended, LateStages
  <1>4. U.comm_w_per_round = state.comm_w_per_round
    BY <1>3 DEF Finalized
  <1>5. /\ dims.nb \in Nat /\ dims.nx \in Nat /\ dims.ny \in Nat /\ dims.ny >= 2
        /\ LastChallenge \in Nat /\ LastChallenge = dims.nb + dims.nx + dims.ny + 2
        /\ InnerBase = dims.nb + dims.nx + 2
        /\ Now = LastChallenge + 3 /\ Len(r_y) = dims.ny
    BY <1>3, Finished
  <1>6. Readable(X)
    <2> HIDE DEF X
    <2>1. X = RegularX(Finalized(state, shape))
      BY <1>3, Zenon DEF X
    <2> QED
      BY <1>3, <2>1, ReadableAtTheEnd
  <1>7. /\ Len(X) = key.nb + key.nx + 1 + key.ny + 6
        /\ s.r_b = r_b /\ s.r_x = r_x /\ s.r_y = r_y /\ s.public_values = PublicValues
    BY <1>6, Zenon DEF Readable
  <1>8. verifier.rhos = rhos
    <2>1. verifier = [transcript |-> T[verifier.round], rhos |-> rhos,
                      round |-> verifier.round]
      BY <1>2 DEF Verifying
    <2> QED
      BY <2>1
  <1> HIDE DEF X, s
  <1>9. r_y[1] = Ch(state, InnerBase + 1) /\ r_y[Len(r_y)] = Ch(state, LastChallenge)
    <2>1. Kept
      BY DEF ValueInv
    <2>2. /\ 1 \in 1 .. Len(r_y) /\ Len(r_y) \in 1 .. Len(r_y)
          /\ InnerBase + Len(r_y) = LastChallenge
      BY <1>5
    <2>3. \A j \in 1 .. Len(r_y) : r_y[j] = Ch(state, InnerBase + j)
      BY <2>1 DEF Kept, Mirrors
    <2> QED
      BY <2>2, <2>3
  <1>10. ExpectedQuotient(1, s) = Quotients(1) /\ ExpectedQuotient(2, s) = Quotients(2)
    <2> SUFFICES ASSUME NEW b PROVE ExpectedQuotient(b, s) = Quotients(b)
      OBVIOUS
    <2>1. ExpectedQuotient(b, s)
            = Quotient(<<"eval", <<"inner", b, Len(s.r_y) - 1>>, s.r_y[Len(s.r_y)]>>,
                       <<"eval_W", b, Tail(s.r_y)>>, <<"eval_X", b, Tail(s.r_y)>>, s.r_y[1])
      BY Zenon DEF ExpectedQuotient
    <2>2. ExpectedQuotient(b, s)
            = Quotient(<<"eval", <<"inner", b, dims.ny - 1>>, r_y[Len(r_y)]>>,
                       <<"eval_W", b, Tail(r_y)>>, <<"eval_X", b, Tail(r_y)>>, r_y[1])
      BY <1>5, <1>7, <2>1
    <2> QED
      BY <1>9, <2>2 DEF Quotients, LastEval
  <1>11. ExpectedPublicValues(s, verifier.rhos) = PublicValues
    <2>1. ExpectedPublicValues(s, verifier.rhos)
            = <<<<"tau", s.r_x>>, <<"eval_X", 1, Tail(s.r_y)>>, <<"eval_X", 2, Tail(s.r_y)>>,
                <<"eq", s.r_b, verifier.rhos>>, ExpectedQuotient(1, s), ExpectedQuotient(2, s)>>
      BY Zenon DEF ExpectedPublicValues
    <2> QED
      BY <1>7, <1>8, <1>10, <2>1 DEF PublicValues, EqRho
  <1>12. ASSUME NEW b \in Branches PROVE OpensToEvaluation(b, s)
    <2>0. b \in Nat /\ b >= 1 /\ b <= 2
      BY DEF Branches
    <2>1. EvalWStepCommitRound(key) + b = LastChallenge + 1 + b
      <3> DEFINE i == dims.nb
                 j == dims.nx
                 h == dims.ny
                 m == LastChallenge
      <3>1. EvalWStepCommitRound(key) = i + 1 + j + 1 + h + 1
        BY <1>3, Zenon DEF EvalWStepCommitRound
      <3>2. i \in Nat /\ j \in Nat /\ h \in Nat /\ m = i + j + h + 2
        BY <1>5
      <3> HIDE DEF i, j, h, m
      <3>3. i + 1 + j + 1 + h + 1 + b = m + 1 + b
        BY <2>0, <3>2
      <3> QED
        BY <3>1, <3>3 DEF m
    <2>2. Now > LastChallenge + b
      BY <1>5, <2>0
    <2>3. state.comm_w_per_round[LastChallenge + 1 + b].segment = WithZeros(EvalW[b], Width)
      BY <1>3, <2>2 DEF WitnessInv
    <2>4. EvalW[b] = <<"eval_W", b, Tail(s.r_y)>>
      BY <1>7 DEF EvalW, EvalsAt
    <2>5. WithZeros(EvalW[b], Width)
            = [k \in 1 .. Width |-> IF k = 1 THEN <<"eval_W", b, Tail(s.r_y)>> ELSE Zero]
      BY <2>4, Zenon DEF WithZeros
    <2> QED
      BY <1>4, <2>1, <2>3, <2>5 DEF OpensToEvaluation
  <1>13. accepted
    BY <1>7, <1>11, <1>12
  <1>14. stage' = "accepted"
    <2> HIDE DEF accepted
    <2> QED
      BY <1>1, <1>13
  <1>15. Replayed(T)'
    BY <1>1, <1>2, ReplayKept
  <1>16. U' = Finalized(state, shape)' /\ dims' = key'
    BY <1>1, <1>3 DEF Finalized
  <1> QED
    BY <1>14, <1>15, <1>16 DEF ReplayInv

(* No call for another number of rounds of NIFS gets as far as finalize. *)
LEMMA FinalizedAsKeyed ==
  ASSUME TypeInv, Finalize
  PROVE  dims = key
  <1>1. stage \in LateStages /\ CurrentRound(state) = shape.num_rounds
    BY Zenon DEF Finalize, MayFinalize, LateStages
  <1>2. Now = LastChallenge + 3 /\ Now = NumRounds(key)
    BY <1>1, Where, KeyFacts DEF TypeInv, ShapeIs, Now
  <1>3. /\ key.nb \in Nat /\ key.nx \in Nat /\ key.ny \in Nat /\ dims.nb \in Nat
        /\ dims.nx = key.nx /\ dims.ny = key.ny
        /\ dims.nb = key.nb => dims = key
        /\ NumRounds(key) = key.nb + key.nx + key.ny + 5
    BY KeyFacts, Indices DEF TypeInv, Sized
  <1> DEFINE n == Now
             a == dims.nb
             b == key.nb
             i == dims.nx
             j == dims.ny
  <1>4. /\ n = a + i + j + 2 + 3 /\ n = b + i + j + 5
        /\ a \in Nat /\ b \in Nat /\ i \in Nat /\ j \in Nat
    BY <1>2, <1>3 DEF LastChallenge
  <1> HIDE DEF n, a, b, i, j
  <1>5. a = b
    BY <1>4
  <1> QED
    BY <1>3, <1>5 DEF a, b

(* Every step keeps it. *)
LEMMA ReplayNext ==
  ASSUME TypeInv, BoundInv, ValueInv, InputsInv, WitnessInv, ReplayInv, [Next]_vars
  PROVE  ReplayInv'
  <1>1. CASE Start
    BY <1>1, ReplayStart
  <1>2. CASE SendsRound
    BY <1>2, ReplayRound
  <1>3. CASE ProveFails \/ Finalize
    <2>1. /\ UNCHANGED <<shape, key, dims, state, transcript, oracle, rhos>>
          /\ \/ stage' = "failed"
             \/ stage' = "finalized" /\ U' = Finalized(state, shape) /\ Finalize
          /\ stage \in ProverStages
      BY <1>3, Zenon DEF ProveFails, Finalize, ProverStages
    <2>2. PICK T : Replayed(T)
      BY <2>1 DEF ReplayInv, ProverStages
    <2>3. Replayed(T)'
      BY <2>1, <2>2, ReplayKept
    <2>4. Finalized(state, shape)' = Finalized(state, shape)
      BY <2>1 DEF Finalized
    <2>5. stage' = "finalized" => dims' = key'
      BY <2>1, FinalizedAsKeyed
    <2> QED
      BY <2>1, <2>3, <2>4, <2>5 DEF ReplayInv, Ended
  <1>4. CASE StartVerify
    <2> DEFINE x == Opening(key.nb, oracle)
               c == Tail(x.challenges)
    <2>1. /\ stage = "finalized" /\ stage' = "verify" /\ oracle' = x.oracle
          /\ verifier' = [transcript |-> x.transcript, rhos |-> c, round |-> 0]
          /\ UNCHANGED <<shape, key, dims, state, transcript, rhos, U>>
      BY <1>4, Zenon DEF StartVerify
    <2>2. PICK T : Replayed(T)
      BY <2>1 DEF ReplayInv
    <2>3. x.transcript = T[0] /\ c = rhos /\ x.oracle = oracle
      <3>1. Grown(oracle, oracle)
        BY GrownReflexive DEF BoundInv, RoundsBound
      <3>2. dims.nb = key.nb
        BY <2>1 DEF ReplayInv, Ended
      <3> QED
        BY <2>2, <3>1, <3>2 DEF Replayed, Reopens
    <2> HIDE DEF x, c
    <2>4. /\ oracle' = oracle
          /\ verifier' = [transcript |-> T[0], rhos |-> rhos, round |-> 0]
      BY <2>1, <2>3
    <2>5. Replayed(T)'
      BY <2>1, <2>2, <2>4, ReplayKept
    <2>6. Verifying(T)'
      <3>1. Now' = Now /\ Now \in Nat
        BY <2>1, Numbers DEF Now, CurrentRound
      <3>2. verifier'.round = 0
        BY <2>4
      <3> QED
        BY <2>1, <2>4, <3>1, <3>2 DEF Verifying
    <2>7. U' = Finalized(state, shape)' /\ dims' = key'
      BY <2>1 DEF ReplayInv, Ended, Finalized
    <2> QED
      BY <2>1, <2>5, <2>6, <2>7 DEF ReplayInv
  <1>5. CASE VerifyRound
    BY <1>5, ReplayVerify
  <1>6. CASE Conclude
    BY <1>6, ReplayConclude
  <1>7. CASE UNCHANGED vars
    <2>1. UNCHANGED <<shape, key, dims, stage, state, transcript, oracle, rhos, U, verifier>>
      BY <1>7, Zenon DEF vars
    <2>2. stage # "start" =>
            \E T : Replayed(T)' /\ (stage = "verify" => Verifying(T)')
      <3> SUFFICES ASSUME stage # "start"
                   PROVE  \E T : Replayed(T)' /\ (stage = "verify" => Verifying(T)')
        OBVIOUS
      <3>1. PICK T : Replayed(T) /\ (stage = "verify" => Verifying(T))
        BY DEF ReplayInv
      <3>2. Replayed(T)'
        BY <2>1, <3>1, ReplayKept
      <3>3. stage = "verify" => Verifying(T)'
        <4>1. Now' = Now
          BY <2>1 DEF Now, CurrentRound
        <4> QED
          BY <2>1, <3>1, <4>1 DEF Verifying
      <3> QED
        BY <3>2, <3>3
    <2>3. Finalized(state, shape)' = Finalized(state, shape)
      BY <2>1 DEF Finalized
    <2> QED
      BY <2>1, <2>2, <2>3 DEF ReplayInv
  <1> QED
    BY <1>1, <1>2, <1>3, <1>4, <1>5, <1>6, <1>7 DEF Next, SendsRound

(* All invariants the verifier's agreement rests on. *)
ReplayAll == TypeInv /\ BoundInv /\ ValueInv /\ InputsInv /\ WitnessInv /\ ReplayInv

(* They hold at the start. *)
LEMMA AllInit ==
  ASSUME Init
  PROVE  ReplayAll
  <1>1. stage = "start"
    BY Zenon DEF Init
  <1>2. ReplayInv
    BY <1>1 DEF ReplayInv, Ended
  <1> QED
    BY <1>2, TypeInit, BoundInit, ValueInit, InputsInit, WitnessInit DEF ReplayAll

(* Every step keeps them. *)
LEMMA AllNext ==
  ASSUME ReplayAll, [Next]_vars
  PROVE  ReplayAll'
  <1>1. TypeInv /\ BoundInv /\ ValueInv /\ InputsInv /\ WitnessInv /\ ReplayInv
    BY DEF ReplayAll
  <1>2. TypeInv' /\ BoundInv' /\ ValueInv'
    BY <1>1, TypeNext, BoundNext, ValueNext
  <1>3. InputsInv' /\ WitnessInv' /\ ReplayInv'
    BY <1>1, InputsNext, WitnessNext, ReplayNext
  <1> QED
    BY <1>2, <1>3 DEF ReplayAll

(* They imply the property of the runs. *)
LEMMA VerifiedInTheEnd ==
  ASSUME ReplayAll
  PROVE  FinalizedInstancesVerify
  <1>1. TypeInv /\ BoundInv /\ ValueInv /\ InputsInv /\ ReplayInv /\ stage # "rejected"
    BY DEF ReplayAll, ReplayInv
  <1>2. ASSUME stage \in {"finalized", "verify", "accepted"}
        PROVE  dims = key /\ Readable(RegularX(U))
    <2>1. U = Finalized(state, shape) /\ dims = key /\ stage \in LateStages
      BY <1>1, <1>2 DEF ReplayInv, Ended, LateStages
    <2> QED
      BY <1>1, <2>1, ReadableAtTheEnd
  <1> QED
    BY <1>1, <1>2, Zenon DEF FinalizedInstancesVerify, Readable

(* No instance the prover finalizes is rejected, the verifier slices the    *)
(* prover's challenges out of it, and there is none when the call is for    *)
(* another number of rounds of NIFS than the key.                           *)
THEOREM FinalizedAccepted == Spec => []FinalizedInstancesVerify
  <1>1. Init => ReplayAll
    BY AllInit
  <1>2. ReplayAll /\ [Next]_vars => ReplayAll'
    BY AllNext
  <1>3. ReplayAll => FinalizedInstancesVerify
    BY VerifiedInTheEnd
  <1> QED
    BY <1>1, <1>2, <1>3, PTL DEF Spec

(* At finalize the laid out variables are in the columns apply_pad moved    *)
(* theirs to.                                                               *)
LEMMA LaidOutInTheEnd ==
  ASSUME ReplayAll
  PROVE  WitnessMatchesShape
  <1> SUFFICES ASSUME stage = "finalized" PROVE WitnessMatchesShape
    BY DEF WitnessMatchesShape
  <1> DEFINE n == NumRounds(key)
             w == state.w
             aux == state.aux
             F(k) == SumFirst(shape.num_vars_unpadded, k)
             column(col) == PaddedColumn(shape, col)
             used == {column(col) : col \in DOMAIN aux}
  <1>1. /\ TypeInv /\ BoundInv /\ ValueInv /\ InputsInv /\ WitnessInv
        /\ U = Finalized(state, shape) /\ dims = key /\ stage \in LateStages
    BY DEF ReplayAll, ReplayInv, Ended, LateStages
  <1>2. RegularX(U) = state.inputs
    BY <1>1, RegularIs
  <1>3. /\ n \in Nat /\ Now = n /\ shape.num_rounds = n /\ n \in 0 .. n
        /\ Sized(key) /\ ShapeIs(shape, key)
    BY SMTT(30), <1>1, Finished
  <1>4. Sizes(shape, n)
    BY <1>3, SizesAre
  <1>5. IsSequence(aux) /\ Len(aux) = F(n) /\ Laid(w, aux, shape, n)
    BY <1>1, <1>3 DEF WitnessInv
  <1>6. DOMAIN aux = 1 .. F(n)
    BY <1>5, LenProperties DEF IsSequence
  <1> HIDE DEF n, w, aux
  <1>7. ASSUME NEW col \in 1 .. F(n)
        PROVE  \E k \in 1 .. n : \E i \in 1 .. shape.num_vars_unpadded[k] :
                 col = Column(shape, k, i)
    <2>1. PICK k \in 1 .. n : col \in F(k - 1) + 1 .. F(k)
      BY <1>3, <1>4, <1>7, ColumnsCovered
    <2> DEFINE a == F(k - 1)
               b == F(k)
               m == shape.num_vars_unpadded[k]
    <2>2. a \in Nat /\ m \in Nat /\ b = a + m
      <3>1. k - 1 \in 0 .. n
        BY <1>3
      <3> QED
        BY <1>4, <3>1 DEF Sizes
    <2>3. col \in a + 1 .. b
      BY <2>1
    <2> HIDE DEF a, b, m
    <2>4. col - a \in 1 .. m /\ col = a + (col - a)
      BY <2>2, <2>3
    <2>5. Column(shape, k, col - a) = a + (col - a)
      BY DEF Column, a
    <2> QED
      BY <2>4, <2>5 DEF m
  <1>8. \A k \in 1 .. n : \A i \in 1 .. shape.num_vars_unpadded[k] :
          /\ column(Column(shape, k, i)) = Place(shape, k, i)
          /\ w[Place(shape, k, i)] = aux[Column(shape, k, i)]
    BY <1>3, <1>4, <1>5, PaddedColumnIs DEF Laid
  <1>9. ASSUME NEW col \in DOMAIN aux PROVE w[column(col)] = aux[col]
    <2>1. PICK k \in 1 .. n : \E i \in 1 .. shape.num_vars_unpadded[k] :
                                 col = Column(shape, k, i)
      BY <1>6, <1>7
    <2>2. PICK i \in 1 .. shape.num_vars_unpadded[k] : col = Column(shape, k, i)
      BY <2>1
    <2> HIDE DEF column
    <2> QED
      BY <1>8, <2>2
  <1>10. ASSUME NEW k \in 1 .. n, NEW i \in 1 .. shape.num_vars_unpadded[k]
         PROVE  Place(shape, k, i) \in used
    <2>1. Column(shape, k, i) \in 1 .. F(n)
      <3> DEFINE a == F(k - 1)
                 b == F(k)
                 e == F(n)
                 m == shape.num_vars_unpadded[k]
      <3>1. k - 1 \in 0 .. n /\ k \in 0 .. n /\ k <= n
        BY <1>3
      <3>2. a \in Nat /\ m \in Nat /\ b = a + m /\ b <= e /\ e \in Nat
        BY <1>3, <1>4, <3>1 DEF Sizes
      <3>3. Column(shape, k, i) = a + i /\ i \in 1 .. m
        BY DEF Column
      <3> HIDE DEF a, b, e, m
      <3>4. a + i \in 1 .. e
        BY <3>2, <3>3
      <3> QED
        BY <3>3, <3>4 DEF e
    <2>2. column(Column(shape, k, i)) = Place(shape, k, i)
      BY <1>8
    <2> HIDE DEF column
    <2> QED
      BY <1>6, <2>1, <2>2
  <1>11. ASSUME NEW p \in DOMAIN w \ used PROVE w[p] = Zero
    <2>1. \A k \in 1 .. n : \A i \in 1 .. shape.num_vars_unpadded[k] :
            p # Place(shape, k, i)
      BY <1>10, <1>11
    <2> HIDE DEF used
    <2> QED
      BY <1>5, <2>1 DEF Laid
  <1> HIDE DEF column
  <1>12. /\ \A col \in DOMAIN aux : w[column(col)] = aux[col]
         /\ \A p \in DOMAIN w \ used : w[p] = Zero
    BY <1>9, <1>11
  <1> QED
    BY <1>2, <1>12, Zenon DEF WitnessMatchesShape, w, aux, column

(* The witness vector of a finalized instance has every variable in the     *)
(* column of its shape, and zeros elsewhere, whatever the width.            *)
THEOREM WitnessFitsShape == Spec => []WitnessMatchesShape
  <1>1. Init => ReplayAll
    BY AllInit
  <1>2. ReplayAll /\ [Next]_vars => ReplayAll'
    BY AllNext
  <1>3. ReplayAll => WitnessMatchesShape
    BY LaidOutInTheEnd
  <1> QED
    BY <1>1, <1>2, <1>3, PTL DEF Spec

=============================================================================
