-------------------------- MODULE ScArgumentProofs --------------------------
(***************************************************************************)
(* Proofs of the invariants of ScArgument, for any numbers of rounds of    *)
(* the two sum-checks and any width.  TypeInv counts the rounds at each    *)
(* stage.  BoundInv says what each challenge depends on.  ValueInv knows   *)
(* the claim, what the circuit handed from round to round and which        *)
(* challenges the driver keeps, so that every equation enforced is between *)
(* equal values.  InputsInv and WitnessInv add where the public inputs and *)
(* the committed segments lie, and ReplayInv that the verifier, asking the *)
(* oracle again, goes through the transcripts of the prover.               *)
(***************************************************************************)
EXTENDS ScArgument, OperatorFacts

-----------------------------------------------------------------------------
(* The shape *)

(* Round k of the synthesis at setup, which reads the rounds before it in   *)
(* g.                                                                       *)
SetupRound(d, g, k) ==
  Rounds(d, Width, DefaultCircuit(d), k - 1, [i \in 1 .. k - 1 |-> g[i].vars],
         [i \in 1 .. k - 1 |-> g[i].challenges], <<Zero>>)

(* g is the table of the syntheses at setup. *)
Setups(g, d, n) == g = [k \in 1 .. n |-> SetupRound(d, g, k)]

(* The synthesis at setup can go on to any round. *)
LEMMA SetupsExist ==
  ASSUME NEW d
  PROVE  \A n \in Nat : \E g : Setups(g, d, n)
  <1> DEFINE S == {n \in Nat : \E g : Setups(g, d, n)}
  <1>1. 0 \in S
    <2>1. Setups([k \in 1 .. 0 |-> 0], d, 0)
      BY DEF Setups
    <2> QED
      BY <2>1
  <1>2. ASSUME NEW n \in Nat, n \in S PROVE n + 1 \in S
    <2>1. PICK g : Setups(g, d, n)
      BY <1>2
    <2> DEFINE h == [k \in 1 .. n + 1 |-> IF k = n + 1 THEN SetupRound(d, g, k) ELSE g[k]]
    <2>2. ASSUME NEW k \in 1 .. n + 1 PROVE h[k] = SetupRound(d, h, k)
      <3>1. \A i \in 1 .. k - 1 : h[i] = g[i]
        OBVIOUS
      <3>2. SetupRound(d, h, k) = SetupRound(d, g, k)
        <4> HIDE DEF h
        <4>1. /\ [i \in 1 .. k - 1 |-> h[i].vars] = [i \in 1 .. k - 1 |-> g[i].vars]
              /\ [i \in 1 .. k - 1 |-> h[i].challenges]
                   = [i \in 1 .. k - 1 |-> g[i].challenges]
          BY <3>1
        <4> QED
          BY <4>1, Zenon DEF SetupRound
      <3>3. CASE k = n + 1
        BY <3>2, <3>3
      <3>4. CASE k # n + 1
        <4>1. k \in 1 .. n
          BY <3>4
        <4>2. g[k] = SetupRound(d, g, k)
          BY <2>1, <4>1 DEF Setups
        <4> QED
          BY <3>2, <3>4, <4>2
      <3> QED
        BY <3>3, <3>4
    <2>3. Setups(h, d, n + 1)
      BY <2>2 DEF Setups
    <2> QED
      BY <2>3
  <1> HIDE DEF S
  <1>3. \A n \in Nat : n \in S
    BY <1>1, <1>2, NatSetInduction
  <1> QED
    BY <1>3 DEF S

(* What setup synthesizes, whatever challenges there are. *)
LEMMA SetupShapeIs ==
  ASSUME NEW d, NumRounds(d) \in Nat
  PROVE  \E g : /\ Setups(g, d, NumRounds(d))
                /\ SetupShape(d)
                     = ShapeOf(g, [k \in 1 .. NumRounds(d) |-> NumChallenges(d, k - 1)], Width)
  <1>1. \E g : Setups(g, d, NumRounds(d))
    BY SetupsExist
  <1> DEFINE c == CHOOSE g : Setups(g, d, NumRounds(d))
  <1>2. /\ Setups(c, d, NumRounds(d))
        /\ SetupShape(d)
             = ShapeOf(c, [k \in 1 .. NumRounds(d) |-> NumChallenges(d, k - 1)], Width)
    BY <1>1, Zenon DEF SetupShape, Setups, SetupRound
  <1> QED
    BY <1>2, Zenon

(* The rounds of a circuit, in terms of the numbers of rounds. *)
LEMMA Indices ==
  ASSUME NEW d \in Dims
  PROVE  /\ d.nx \in Nat /\ d.nx >= 1 /\ d.ny \in Nat /\ d.ny >= 2
         /\ idx_outer_final(d) = d.nx
         /\ idx_inner_start(d) = d.nx + 1
         /\ idx_inner_final(d) = d.nx + 1 + d.ny
         /\ idx_commit_w(d) = d.nx + d.ny + 2
         /\ NumRounds(d) = d.nx + d.ny + 3
  <1>1. d.nx \in Nat \ {0} /\ d.ny \in Nat \ {0, 1}
    BY DimsAssumption
  <1> QED
    BY <1>1 DEF idx_outer_final, idx_inner_start, idx_inner_final, idx_commit_w, NumRounds

(* Variables and public inputs a round allocates. *)
AuxLength(d, round) ==
  IF round = d.nx THEN 5 ELSE IF round = d.nx + d.ny + 2 THEN Width ELSE 2
InputLength(d, round) ==
  IF round = 0 \/ round = d.nx + d.ny + 2 THEN 0
  ELSE IF round = d.nx + 1 + d.ny THEN 4 ELSE 1

(* A synthesis allocates this many variables and public inputs. *)
Fits(synthesis, aux, inputs) ==
  /\ IsSequence(synthesis.aux) /\ Len(synthesis.aux) = aux
  /\ IsSequence(synthesis.inputs) /\ Len(synthesis.inputs) = inputs

(* Which synthesis a round is. *)
LEMMA RoundsCases ==
  ASSUME NEW d \in Dims, NEW vc0, NEW round \in Nat, NEW held, NEW prev, NEW chals
  PROVE  /\ round < d.nx =>
              Rounds(d, Width, vc0, round, held, prev, chals) = OuterSynthesis(vc0, round, held, chals)
         /\ round = d.nx =>
              Rounds(d, Width, vc0, round, held, prev, chals)
                = OuterFinalSynthesis(vc0, round, held, chals)
         /\ round > d.nx /\ round < d.nx + 1 + d.ny =>
              Rounds(d, Width, vc0, round, held, prev, chals)
                = InnerSynthesis(d, vc0, round, held, chals)
         /\ round = d.nx + 1 + d.ny =>
              Rounds(d, Width, vc0, round, held, prev, chals)
                = InnerFinalSynthesis(d, vc0, round, held, prev, chals)
         /\ round = d.nx + d.ny + 2 =>
              Rounds(d, Width, vc0, round, held, prev, chals)
                = CommitSynthesis(vc0, Width, held[round][1])
  <1>1. /\ d.nx \in Nat /\ d.nx >= 1 /\ d.ny \in Nat /\ d.ny >= 2
        /\ idx_outer_final(d) = d.nx /\ idx_inner_start(d) = d.nx + 1
        /\ idx_inner_final(d) = d.nx + 1 + d.ny /\ idx_commit_w(d) = d.nx + d.ny + 2
    BY Indices
  <1> DEFINE a == OuterSynthesis(vc0, round, held, chals)
             b == OuterFinalSynthesis(vc0, round, held, chals)
             c == InnerSynthesis(d, vc0, round, held, chals)
             e == InnerFinalSynthesis(d, vc0, round, held, prev, chals)
             f == CommitSynthesis(vc0, Width, held[round][1])
             x == Rounds(d, Width, vc0, round, held, prev, chals)
  <1>2. x = CASE round < d.nx -> a
              [] round = d.nx -> b
              [] round \in d.nx + 1 .. d.nx + 1 + d.ny - 1 -> c
              [] round = d.nx + 1 + d.ny -> e
              [] round = d.nx + d.ny + 2 -> f
    <2> HIDE DEF a, b, c, e, f
    <2>1. x = CASE round < idx_outer_final(d) -> a
                [] round = idx_outer_final(d) -> b
                [] round \in idx_inner_start(d) .. idx_inner_final(d) - 1 -> c
                [] round = idx_inner_final(d) -> e
                [] round = idx_commit_w(d) -> f
      BY Zenon DEF Rounds, a, b, c, e, f
    <2> HIDE DEF x
    <2> QED
      BY <1>1, <2>1
  <1> HIDE DEF a, b, c, e, f, x
  <1>3. /\ round < d.nx => x = a
        /\ round = d.nx => x = b
        /\ round > d.nx /\ round < d.nx + 1 + d.ny => x = c
        /\ round = d.nx + 1 + d.ny => x = e
        /\ round = d.nx + d.ny + 2 => x = f
    BY <1>1, <1>2
  <1> QED
    BY <1>3, Zenon DEF a, b, c, e, f, x

(* What each kind of round synthesizes. *)
Yields(x, aux, inputs, held, chals, checks) ==
  /\ x.aux = aux /\ x.inputs = inputs /\ x.vars = held /\ x.challenges = chals
  /\ x.checks = checks

(* The fields of a synthesis. *)
LEMMA SynthesizedYields ==
  ASSUME NEW aux, NEW inputs, NEW held, NEW chals, NEW checks
  PROVE  Yields(Synthesized(aux, inputs, held, chals, checks), aux, inputs, held, chals, checks)
  BY DEF Synthesized, Yields

(* The claim an outer round of the circuit starts from. *)
OuterClaim(round, held, chals) ==
  IF round = 0 THEN Zero ELSE EvalAt(held[round][1], Head(chals))

(* An outer round. *)
LEMMA OuterYields ==
  ASSUME NEW d \in Dims, NEW vc0, NEW round \in Nat, round < d.nx, NEW held, NEW prev,
         NEW chals, NEW poly, poly = vc0.outer_polys[round + 1]
  PROVE  Yields(Rounds(d, Width, vc0, round, held, prev, chals),
                <<poly, OuterClaim(round, held, chals)>>,
                IF round = 0 THEN <<>> ELSE <<Head(chals)>>,
                <<poly>>, <<>>, {<<Claim(poly), OuterClaim(round, held, chals)>>})
  <1>1. Rounds(d, Width, vc0, round, held, prev, chals) = OuterSynthesis(vc0, round, held, chals)
    BY RoundsCases
  <1>2. OuterSynthesis(vc0, round, held, chals)
          = Synthesized(<<poly, OuterClaim(round, held, chals)>>,
                        IF round = 0 THEN <<>> ELSE <<Head(chals)>>,
                        <<poly>>, <<>>, {<<Claim(poly), OuterClaim(round, held, chals)>>})
    BY Zenon DEF OuterSynthesis, OuterClaim
  <1> QED
    BY <1>1, <1>2, SynthesizedYields, Zenon

(* What the final outer round hands on. *)
Held(vc0) == <<vc0.claim_Az, vc0.claim_Bz, vc0.claim_Cz, vc0.tau_at_rx>>

(* The final outer round. *)
LEMMA OuterFinalYields ==
  ASSUME NEW d \in Dims, NEW vc0, NEW round \in Nat, round = d.nx, NEW held, NEW prev,
         NEW chals, NEW current, current = EvalAt(held[round][1], Head(chals))
  PROVE  Yields(Rounds(d, Width, vc0, round, held, prev, chals),
                <<current>> \o Held(vc0), <<Head(chals)>>, Held(vc0), <<>>,
                {<<current, OuterFinalValue(vc0.claim_Az, vc0.claim_Bz, vc0.claim_Cz,
                                            vc0.tau_at_rx)>>})
  <1> DEFINE h == Held(vc0)
  <1>1. Rounds(d, Width, vc0, round, held, prev, chals)
          = OuterFinalSynthesis(vc0, round, held, chals)
    BY RoundsCases
  <1>2. OuterFinalSynthesis(vc0, round, held, chals)
          = Synthesized(<<current>> \o h, <<Head(chals)>>, h, <<>>,
                        {<<current, OuterFinalValue(h[1], h[2], h[3], h[4])>>})
    BY Zenon DEF OuterFinalSynthesis, Held
  <1>3. /\ h[1] = vc0.claim_Az /\ h[2] = vc0.claim_Bz /\ h[3] = vc0.claim_Cz
        /\ h[4] = vc0.tau_at_rx
    BY DEF Held
  <1> HIDE DEF h
  <1>4. OuterFinalValue(h[1], h[2], h[3], h[4])
          = OuterFinalValue(vc0.claim_Az, vc0.claim_Bz, vc0.claim_Cz, vc0.tau_at_rx)
    BY <1>3
  <1> QED
    BY <1>1, <1>2, <1>4, SynthesizedYields, Zenon DEF h

(* The claim an inner round of the circuit starts from. *)
InnerClaim(d, round, held, chals) ==
  IF round = d.nx + 1
    THEN Joint(held[d.nx + 1][1], held[d.nx + 1][2], held[d.nx + 1][3], Head(chals))
    ELSE EvalAt(held[round][1], Head(chals))

(* An inner round. *)
LEMMA InnerYields ==
  ASSUME NEW d \in Dims, NEW vc0, NEW round \in Nat, round > d.nx, round < d.nx + 1 + d.ny,
         NEW held, NEW prev, NEW chals, NEW poly,
         poly = vc0.inner_polys[round - (d.nx + 1) + 1]
  PROVE  Yields(Rounds(d, Width, vc0, round, held, prev, chals),
                <<poly, InnerClaim(d, round, held, chals)>>, <<Head(chals)>>,
                <<poly>>, <<Head(chals)>>, {<<Claim(poly), InnerClaim(d, round, held, chals)>>})
  <1> DEFINE j == round - (d.nx + 1)
             r0 == Head(chals)
             current == IF j = 0 THEN Joint(held[d.nx + 1][1], held[d.nx + 1][2],
                                            held[d.nx + 1][3], r0)
                        ELSE EvalAt(held[round][1], r0)
             x == InnerSynthesis(d, vc0, round, held, chals)
  <1>1. idx_inner_start(d) = d.nx + 1 /\ idx_outer_final(d) = d.nx /\ d.nx \in Nat
    BY Indices
  <1>2. current = InnerClaim(d, round, held, chals)
    <2>1. j = 0 <=> round = d.nx + 1
      BY <1>1
    <2> QED
      BY <2>1, Zenon DEF InnerClaim
  <1>3. x = Synthesized(<<poly, current>>, <<r0>>, <<poly>>, <<r0>>, {<<Claim(poly), current>>})
    BY <1>1 DEF InnerSynthesis
  <1>4. Rounds(d, Width, vc0, round, held, prev, chals) = x
    BY RoundsCases
  <1> HIDE DEF current, r0, x
  <1> QED
    BY <1>2, <1>3, <1>4, SynthesizedYields, Zenon DEF r0

(* The final inner round. *)
LEMMA InnerFinalYields ==
  ASSUME NEW d \in Dims, NEW vc0, NEW round \in Nat, round = d.nx + 1 + d.ny,
         NEW held, NEW prev, NEW chals, NEW current,
         current = EvalAt(held[round][1], Head(chals))
  PROVE  Yields(Rounds(d, Width, vc0, round, held, prev, chals),
                <<current, vc0.eval_W>>,
                <<Head(chals), held[d.nx + 1][4], vc0.eval_X,
                  Quotient(current, vc0.eval_W, vc0.eval_X, prev[d.nx + 3][1])>>,
                <<vc0.eval_W>>, <<>>, {})
  <1>1. idx_inner_start(d) + 2 = d.nx + 3 /\ idx_outer_final(d) = d.nx
    BY Indices
  <1>2. Rounds(d, Width, vc0, round, held, prev, chals)
          = InnerFinalSynthesis(d, vc0, round, held, prev, chals)
    BY RoundsCases
  <1>3. InnerFinalSynthesis(d, vc0, round, held, prev, chals)
          = Synthesized(<<current, vc0.eval_W>>,
                <<Head(chals), held[d.nx + 1][4], vc0.eval_X,
                  Quotient(current, vc0.eval_W, vc0.eval_X, prev[d.nx + 3][1])>>,
                <<vc0.eval_W>>, <<>>, {})
    BY <1>1, Zenon DEF InnerFinalSynthesis, Ry0
  <1> QED
    BY <1>2, <1>3, SynthesizedYields, Zenon

(* The row of the commitment to eval_W. *)
WithZeros(e, width) == [k \in 1 .. width |-> IF k = 1 THEN e ELSE Zero]

(* The round that commits to eval_W. *)
LEMMA CommitYields ==
  ASSUME NEW d \in Dims, NEW vc0, NEW round \in Nat, round = d.nx + d.ny + 2,
         NEW held, NEW prev, NEW chals
  PROVE  Yields(Rounds(d, Width, vc0, round, held, prev, chals),
                WithZeros(vc0.eval_W, Width), <<>>, <<vc0.eval_W>>, <<>>,
                {<<vc0.eval_W, held[round][1]>>})
  <1>1. Rounds(d, Width, vc0, round, held, prev, chals)
          = CommitSynthesis(vc0, Width, held[round][1])
    BY RoundsCases
  <1>2. CommitSynthesis(vc0, Width, held[round][1])
          = Synthesized(WithZeros(vc0.eval_W, Width), <<>>, <<vc0.eval_W>>, <<>>,
                        {<<vc0.eval_W, held[round][1]>>})
    BY Zenon DEF CommitSynthesis, WithZeros
  <1> QED
    BY <1>1, <1>2, SynthesizedYields, Zenon

(* How much each round allocates, whatever the fields of the circuit are. *)
LEMMA RoundsFit ==
  ASSUME NEW d \in Dims, NEW vc0, NEW round \in Nat, round < NumRounds(d),
         NEW held, NEW prev, NEW chals
  PROVE  Fits(Rounds(d, Width, vc0, round, held, prev, chals), AuxLength(d, round),
              InputLength(d, round))
  <1>1. /\ d.nx \in Nat /\ d.nx >= 1 /\ d.ny \in Nat /\ d.ny >= 2
        /\ NumRounds(d) = d.nx + d.ny + 3
    BY Indices
  <1> DEFINE x == Rounds(d, Width, vc0, round, held, prev, chals)
  <1>2. CASE round < d.nx
    <2> DEFINE poly == vc0.outer_polys[round + 1]
    <2>1. Yields(x, <<poly, OuterClaim(round, held, chals)>>,
                 IF round = 0 THEN <<>> ELSE <<Head(chals)>>,
                 <<poly>>, <<>>, {<<Claim(poly), OuterClaim(round, held, chals)>>})
      BY <1>2, OuterYields
    <2>2. PICK a, b, c : x.aux = <<a, b>> /\ x.inputs = IF round = 0 THEN <<>> ELSE <<c>>
      BY <2>1, Zenon DEF Yields
    <2> HIDE DEF x
    <2>3. IsSequence(<<a, b>>) /\ Len(<<a, b>>) = 2 /\ IsSequence(<<c>>) /\ Len(<<c>>) = 1
      BY Tuples
    <2>4. Fits(x, AuxLength(d, round), InputLength(d, round))
      BY <1>1, <1>2, <2>2, <2>3, EmptyIsSequence DEF Fits, AuxLength, InputLength
    <2> QED
      BY <2>4 DEF x
  <1>3. CASE round = d.nx
    <2> DEFINE current == EvalAt(held[round][1], Head(chals))
    <2>1. Yields(x, <<current>> \o Held(vc0), <<Head(chals)>>, Held(vc0), <<>>,
                 {<<current, OuterFinalValue(vc0.claim_Az, vc0.claim_Bz, vc0.claim_Cz,
                                             vc0.tau_at_rx)>>})
      BY <1>3, OuterFinalYields
    <2> HIDE DEF x, current
    <2>2. x.aux = <<current>> \o Held(vc0) /\ x.inputs = <<Head(chals)>>
      BY <2>1 DEF Yields
    <2>3. /\ IsSequence(<<current>>) /\ Len(<<current>>) = 1
          /\ IsSequence(Held(vc0)) /\ Len(Held(vc0)) = 4
          /\ IsSequence(<<Head(chals)>>) /\ Len(<<Head(chals)>>) = 1
      BY Tuples DEF Held
    <2>4. IsSequence(x.aux) /\ Len(x.aux) = 5
      <3>1. Concatenates(x.aux, <<current>>, Held(vc0))
        BY <2>2, <2>3, Concatenated
      <3> QED
        BY <2>3, <3>1 DEF Concatenates
    <2>5. Fits(x, AuxLength(d, round), InputLength(d, round))
      BY <1>1, <1>3, <2>2, <2>3, <2>4 DEF Fits, AuxLength, InputLength
    <2> QED
      BY <2>5 DEF x
  <1>4. CASE round > d.nx /\ round < d.nx + 1 + d.ny
    <2> DEFINE poly == vc0.inner_polys[round - (d.nx + 1) + 1]
               current == InnerClaim(d, round, held, chals)
    <2>1. Yields(x, <<poly, current>>, <<Head(chals)>>, <<poly>>, <<Head(chals)>>,
                 {<<Claim(poly), current>>})
      BY <1>4, InnerYields
    <2>2. PICK a, b, c : x.aux = <<a, b>> /\ x.inputs = <<c>>
      BY <2>1, Zenon DEF Yields
    <2> HIDE DEF x
    <2>3. IsSequence(<<a, b>>) /\ Len(<<a, b>>) = 2 /\ IsSequence(<<c>>) /\ Len(<<c>>) = 1
      BY Tuples
    <2>4. Fits(x, AuxLength(d, round), InputLength(d, round))
      BY <1>1, <1>4, <2>2, <2>3 DEF Fits, AuxLength, InputLength
    <2> QED
      BY <2>4 DEF x
  <1>5. CASE round = d.nx + 1 + d.ny
    <2> DEFINE current == EvalAt(held[round][1], Head(chals))
    <2>1. Yields(x, <<current, vc0.eval_W>>,
                 <<Head(chals), held[d.nx + 1][4], vc0.eval_X,
                   Quotient(current, vc0.eval_W, vc0.eval_X, prev[d.nx + 3][1])>>,
                 <<vc0.eval_W>>, <<>>, {})
      BY <1>5, InnerFinalYields
    <2>2. PICK a, b, c, e, f, g : x.aux = <<a, b>> /\ x.inputs = <<c, e, f, g>>
      BY <2>1, Zenon DEF Yields
    <2> HIDE DEF x
    <2>3. /\ IsSequence(<<a, b>>) /\ Len(<<a, b>>) = 2
          /\ IsSequence(<<c, e, f, g>>) /\ Len(<<c, e, f, g>>) = 4
      BY Tuples
    <2>4. Fits(x, AuxLength(d, round), InputLength(d, round))
      BY <1>1, <1>5, <2>2, <2>3 DEF Fits, AuxLength, InputLength
    <2> QED
      BY <2>4 DEF x
  <1>6. CASE round = d.nx + d.ny + 2
    <2>1. Yields(x, WithZeros(vc0.eval_W, Width), <<>>, <<vc0.eval_W>>, <<>>,
                 {<<vc0.eval_W, held[round][1]>>})
      BY <1>6, CommitYields
    <2>2. x.aux = WithZeros(vc0.eval_W, Width) /\ x.inputs = <<>>
      BY <2>1, Zenon DEF Yields
    <2>3. Width \in Nat
      BY DimsAssumption
    <2>4. IsSequence(x.aux) /\ Len(x.aux) = Width
      <3> DEFINE w == WithZeros(vc0.eval_W, Width)
      <3>1. DOMAIN w = 1 .. Width /\ w = [i \in 1 .. Width |-> w[i]]
        BY DEF WithZeros
      <3> HIDE DEF w, x
      <3>2. IsSequence(w) /\ Len(w) = Width
        BY <2>3, <3>1, FunctionIsSequence
      <3> QED
        BY <2>2, <3>2 DEF w
    <2> HIDE DEF x
    <2>5. Fits(x, AuxLength(d, round), InputLength(d, round))
      BY <1>1, <1>6, <2>2, <2>4, EmptyIsSequence DEF Fits, AuxLength, InputLength
    <2> QED
      BY <2>5 DEF x
  <1> QED
    BY <1>1, <1>2, <1>3, <1>4, <1>5, <1>6

(* pk.vc_shape in terms of the numbers of rounds. *)
ShapeIs(s, d) ==
  /\ s.num_rounds = NumRounds(d) /\ s.width = Width /\ s.num_public = 3
  /\ IsSequence(s.num_vars_unpadded) /\ Len(s.num_vars_unpadded) = NumRounds(d)
  /\ IsSequence(s.num_vars) /\ Len(s.num_vars) = NumRounds(d)
  /\ Len(s.num_challenges) = NumRounds(d)
  /\ Total(s.num_challenges) = d.nx + 1 + d.ny
  /\ \A k \in 1 .. NumRounds(d) :
       /\ s.num_vars_unpadded[k] = AuxLength(d, k - 1)
       /\ s.num_vars[k] = PadToWidth(Width, AuxLength(d, k - 1))
       /\ s.num_challenges[k] = NumChallenges(d, k - 1)

(* The shape made at setup has a place for each round, as long as what the  *)
(* round allocates, and asks for one challenge in all rounds but the last   *)
(* two.                                                                     *)
LEMMA ShapeFacts ==
  ASSUME NEW d \in Dims
  PROVE  ShapeIs(SetupShape(d), d)
  <1> DEFINE n == NumRounds(d)
             s == SetupShape(d)
             c == [k \in 1 .. n |-> NumChallenges(d, k - 1)]
  <1>1. /\ d.nx \in Nat /\ d.nx >= 1 /\ d.ny \in Nat /\ d.ny >= 2
        /\ n = d.nx + d.ny + 3 /\ n \in Nat
        /\ idx_inner_final(d) = d.nx + 1 + d.ny
    BY Indices
  <1>2. PICK g : Setups(g, d, n) /\ s = ShapeOf(g, c, Width)
    BY <1>1, SetupShapeIs
  <1> DEFINE a == [k \in DOMAIN g |-> Len(g[k].aux)]
             b == [k \in DOMAIN g |-> PadToWidth(Width, Len(g[k].aux))]
             i == [k \in DOMAIN g |-> Len(g[k].inputs)]
  <1>3. s = [num_rounds |-> Len(g), num_vars_unpadded |-> a, num_vars |-> b,
             num_challenges |-> c, num_public |-> Total(i) - Total(c), width |-> Width]
    BY <1>2, Zenon DEF ShapeOf
  <1> HIDE DEF s, n
  <1>4. /\ DOMAIN g = 1 .. n /\ g = [k \in 1 .. n |-> g[k]]
        /\ \A k \in 1 .. n : g[k] = SetupRound(d, g, k)
    BY <1>2 DEF Setups
  <1>5. ASSUME NEW k \in 1 .. n
        PROVE  Len(g[k].aux) = AuxLength(d, k - 1) /\ Len(g[k].inputs) = InputLength(d, k - 1)
    <2>1. k - 1 \in Nat /\ k - 1 < NumRounds(d)
      BY <1>1 DEF n
    <2>2. Fits(SetupRound(d, g, k), AuxLength(d, k - 1), InputLength(d, k - 1))
      BY <2>1, RoundsFit DEF SetupRound
    <2> QED
      BY <1>4, <2>2 DEF Fits
  <1>6. Len(g) = n
    BY <1>1, <1>4, FunctionIsSequence
  <1>7. /\ DOMAIN a = 1 .. n /\ a = [k \in 1 .. n |-> a[k]]
        /\ DOMAIN b = 1 .. n /\ b = [k \in 1 .. n |-> b[k]]
        /\ DOMAIN i = 1 .. n /\ i = [k \in 1 .. n |-> i[k]]
        /\ DOMAIN c = 1 .. n /\ c = [k \in 1 .. n |-> c[k]]
        /\ \A k \in 1 .. n : /\ a[k] = AuxLength(d, k - 1)
                             /\ b[k] = PadToWidth(Width, AuxLength(d, k - 1))
                             /\ i[k] = InputLength(d, k - 1)
                             /\ c[k] = NumChallenges(d, k - 1)
    BY <1>4, <1>5
  <1> HIDE DEF a, b, c, i
  <1>8. /\ IsSequence(a) /\ Len(a) = n /\ IsSequence(b) /\ Len(b) = n
        /\ Len(c) = n /\ Len(i) = n
    BY <1>1, <1>7, FunctionIsSequence
  <1>9. Total(c) = d.nx + 1 + d.ny
    <2> DEFINE h == [k \in 0 .. n |-> IF k <= d.nx + 1 + d.ny THEN k ELSE d.nx + 1 + d.ny]
    <2>1. h[0] = 0 /\ h[n] = d.nx + 1 + d.ny
      BY <1>1
    <2>2. \A k \in 1 .. n : h[k] = h[k - 1] + c[k]
      <3> SUFFICES ASSUME NEW k \in 1 .. n PROVE h[k] = h[k - 1] + c[k]
        OBVIOUS
      <3>1. c[k] = IF k - 1 < d.nx + 1 + d.ny THEN 1 ELSE 0
        BY <1>1, <1>7 DEF NumChallenges
      <3> QED
        BY SMTT(30), <1>1, <3>1
    <2> HIDE DEF h
    <2>3. Adds(h, c, n)
      BY <2>1, <2>2 DEF Adds
    <2>4. \A k \in 0 .. n : SumFirst(c, k) = h[k]
      BY <1>1, <2>3, SumIs
    <2>5. n \in 0 .. n
      BY <1>1
    <2> QED
      BY <1>8, <2>1, <2>4, <2>5 DEF Total
  <1>10. Total(i) = d.nx + d.ny + 4
    <2> DEFINE h == [k \in 0 .. n |-> IF k = 0 THEN 0 ELSE IF k <= d.nx + 1 + d.ny THEN k - 1
                                     ELSE d.nx + d.ny + 4]
    <2>1. h[0] = 0 /\ h[n] = d.nx + d.ny + 4
      BY <1>1
    <2>2. \A k \in 1 .. n : h[k] = h[k - 1] + i[k]
      <3> SUFFICES ASSUME NEW k \in 1 .. n PROVE h[k] = h[k - 1] + i[k]
        OBVIOUS
      <3>1. i[k] = IF k - 1 = 0 \/ k - 1 = d.nx + d.ny + 2 THEN 0
                   ELSE IF k - 1 = d.nx + 1 + d.ny THEN 4 ELSE 1
        BY <1>7 DEF InputLength
      <3>2. k - 1 \in 0 .. n /\ k \in 0 .. n /\ k # 0
        BY <1>1
      <3>3. /\ h[k] = IF k <= d.nx + 1 + d.ny THEN k - 1 ELSE d.nx + d.ny + 4
            /\ h[k - 1] = IF k - 1 = 0 THEN 0 ELSE IF k - 1 <= d.nx + 1 + d.ny THEN k - 1 - 1
                          ELSE d.nx + d.ny + 4
        BY <3>2
      <3> HIDE DEF h
      <3> QED
        BY <1>1, <3>1, <3>3
    <2> HIDE DEF h
    <2>3. Adds(h, i, n)
      BY <2>1, <2>2 DEF Adds
    <2>4. \A k \in 0 .. n : SumFirst(i, k) = h[k]
      BY <1>1, <2>3, SumIs
    <2>5. n \in 0 .. n
      BY <1>1
    <2> QED
      BY <1>8, <2>1, <2>4, <2>5 DEF Total
  <1>11. /\ s.num_rounds = Len(g) /\ s.num_vars_unpadded = a /\ s.num_vars = b
         /\ s.num_challenges = c /\ s.num_public = Total(i) - Total(c) /\ s.width = Width
    BY <1>3
  <1>12. s.num_public = 3
    BY <1>1, <1>9, <1>10, <1>11
  <1>13. ShapeIs(s, d)
    BY <1>6, <1>7, <1>8, <1>9, <1>11, <1>12 DEF ShapeIs, n
  <1> QED
    BY <1>13 DEF s

-----------------------------------------------------------------------------
(* The rounds of the prover *)

(* The circuit each round leaves, and what it is given. *)
OuterFilled == [vc EXCEPT !.outer_polys[Len(r_x) + 1] = RoundPoly("outer", Len(r_x))]
OuterFinalFilled ==
  [vc EXCEPT !.claim_Az = <<"Az", 1, r_x>>, !.claim_Bz = <<"Bz", 1, r_x>>,
             !.claim_Cz = <<"Cz", 1, r_x>>, !.tau_at_rx = <<"tau", r_x, taus>>]
InnerFilled(j) == [vc EXCEPT !.inner_polys[j + 1] = RoundPoly("inner", Len(r_y))]
InnerFinalFilled ==
  [vc EXCEPT !.eval_W = <<"eval_W", 1, Tail(r_y)>>, !.eval_X = <<"eval_X", 1, Tail(r_y)>>]

(* The next round, what it synthesizes, and its exchange. *)
Now == CurrentRound(state)
Syn(circuit) == Synthesis(circuit, Now)
Made(circuit) == RoundExchange(state, shape, Syn(circuit), Now, transcript, oracle)

(* One round of the prover with its circuit filled in. *)
Rounded(circuit, x) ==
  /\ Accepts
  /\ Processed(x, Made(circuit), state, shape, Syn(circuit), Now)
  /\ vc' = circuit /\ state' = x.state /\ transcript' = x.transcript /\ oracle' = x.oracle
  /\ UNCHANGED <<shape, dims, taus, U, verifier>>

(* Take is one round of the multi-round witness. *)
LEMMA TakeIs ==
  ASSUME NEW circuit, Take(circuit, Outcome(circuit))
  PROVE  Rounded(circuit, Outcome(circuit))
  <1> DEFINE x == Outcome(circuit)
  <1>1. /\ Accepts /\ vc' = circuit /\ state' = x.state /\ transcript' = x.transcript
        /\ oracle' = x.oracle /\ UNCHANGED <<shape, dims, taus, U, verifier>>
    BY Zenon DEF Take
  <1>2. DriverRound = Now
    BY <1>1, Zenon DEF Accepts, Now
  <1>3. x = ProcessRound(state, shape, Syn(circuit), Now, transcript, oracle)
    BY <1>2, Zenon DEF Outcome, Syn
  <1> HIDE DEF x
  <1>4. Processed(x, Made(circuit), state, shape, Syn(circuit), Now)
    BY <1>3, ProcessRoundIs, Zenon DEF Made
  <1> QED
    BY <1>1, <1>4, Zenon DEF Rounded, x

(* Each action is such a round. *)
OuterTaken(x) ==
  /\ stage = "outer" /\ Rounded(OuterFilled, x)
  /\ r_x' = Append(r_x, x.challenges[1])
  /\ claim' = EvalAt(RoundPoly("outer", Len(r_x)), x.challenges[1])
  /\ stage' = IF Len(r_x) + 1 = dims.nx THEN "outer_final" ELSE "outer"
  /\ UNCHANGED <<r, r_y>>

LEMMA OuterRoundIs ==
  ASSUME OuterRound
  PROVE  \E x : OuterTaken(x)
  <1>1. /\ stage = "outer" /\ Take(OuterFilled, Outcome(OuterFilled))
        /\ r_x' = Append(r_x, Outcome(OuterFilled).challenges[1])
        /\ claim' = EvalAt(RoundPoly("outer", Len(r_x)), Outcome(OuterFilled).challenges[1])
        /\ stage' = IF Len(r_x) + 1 = dims.nx THEN "outer_final" ELSE "outer"
        /\ UNCHANGED <<r, r_y>>
    BY Zenon DEF OuterRound, OuterFilled
  <1>2. Rounded(OuterFilled, Outcome(OuterFilled))
    BY <1>1, TakeIs, Zenon
  <1> QED
    BY <1>1, <1>2, Zenon DEF OuterTaken

OuterFinalTaken(x) ==
  /\ stage = "outer_final" /\ Rounded(OuterFinalFilled, x)
  /\ r' = x.challenges[1]
  /\ claim' = Joint(<<"Az", 1, r_x>>, <<"Bz", 1, r_x>>, <<"Cz", 1, r_x>>, x.challenges[1])
  /\ stage' = "inner_first"
  /\ UNCHANGED <<r_x, r_y>>

LEMMA OuterFinalIs ==
  ASSUME OuterFinal
  PROVE  \E x : OuterFinalTaken(x)
  <1>1. /\ stage = "outer_final" /\ Take(OuterFinalFilled, Outcome(OuterFinalFilled))
        /\ r' = Outcome(OuterFinalFilled).challenges[1]
        /\ claim' = Joint(<<"Az", 1, r_x>>, <<"Bz", 1, r_x>>, <<"Cz", 1, r_x>>,
                          Outcome(OuterFinalFilled).challenges[1])
        /\ stage' = "inner_first"
        /\ UNCHANGED <<r_x, r_y>>
    BY Zenon DEF OuterFinal, OuterFinalFilled
  <1>2. Rounded(OuterFinalFilled, Outcome(OuterFinalFilled))
    BY <1>1, TakeIs, Zenon
  <1> QED
    BY <1>1, <1>2, Zenon DEF OuterFinalTaken

InnerTaken(j, x) ==
  /\ Rounded(InnerFilled(j), x)
  /\ r_y' = Append(r_y, x.challenges[1])
  /\ claim' = EvalAt(RoundPoly("inner", Len(r_y)), x.challenges[1])
  /\ UNCHANGED <<r_x, r>>

LEMMA InnerIs ==
  ASSUME NEW j, Inner(j)
  PROVE  \E x : InnerTaken(j, x)
  <1>1. /\ Take(InnerFilled(j), Outcome(InnerFilled(j)))
        /\ r_y' = Append(r_y, Outcome(InnerFilled(j)).challenges[1])
        /\ claim' = EvalAt(RoundPoly("inner", Len(r_y)), Outcome(InnerFilled(j)).challenges[1])
        /\ UNCHANGED <<r_x, r>>
    BY Zenon DEF Inner, InnerFilled
  <1>2. Rounded(InnerFilled(j), Outcome(InnerFilled(j)))
    BY <1>1, TakeIs, Zenon
  <1> QED
    BY <1>1, <1>2, Zenon DEF InnerTaken

(* Both kinds of inner round fill in the polynomial of their own round. *)
InnerStep(x) ==
  /\ stage \in {"inner_first", "inner"}
  /\ InnerTaken(Len(r_y), x)
  /\ stage' = IF stage = "inner" /\ Len(r_y) = dims.ny - 1 THEN "inner_final" ELSE "inner"

LEMMA InnerStepIs ==
  ASSUME InnerFirst \/ InnerRound, IsSequence(r_y), stage = "inner_first" => Len(r_y) = 0
  PROVE  \E x : InnerStep(x)
  <1>1. Len(r_y) \in Nat
    BY SequenceFacts
  <1>2. CASE InnerFirst
    <2>1. stage = "inner_first" /\ Inner(0) /\ stage' = "inner"
      BY <1>2, Zenon DEF InnerFirst
    <2>2. PICK x : InnerTaken(Len(r_y), x)
      BY <2>1, InnerIs
    <2> QED
      BY <2>1, <2>2 DEF InnerStep
  <1>3. CASE InnerRound
    <2>1. /\ stage = "inner" /\ Inner(InnerPolyOffset + Len(r_y) - 1)
          /\ stage' = IF Len(r_y) = dims.ny - 1 THEN "inner_final" ELSE "inner"
      BY <1>3, Zenon DEF InnerRound
    <2>2. InnerPolyOffset + Len(r_y) - 1 = Len(r_y)
      BY <1>1 DEF InnerPolyOffset
    <2>3. PICK x : InnerTaken(Len(r_y), x)
      BY <2>1, <2>2, InnerIs
    <2> QED
      BY <2>1, <2>3 DEF InnerStep
  <1> QED
    BY <1>2, <1>3

InnerFinalTaken(x) ==
  /\ stage = "inner_final" /\ Rounded(InnerFinalFilled, x)
  /\ stage' = "commit_w"
  /\ UNCHANGED <<r_x, r, r_y, claim>>

LEMMA InnerFinalIs ==
  ASSUME InnerFinal
  PROVE  \E x : InnerFinalTaken(x)
  <1>1. /\ stage = "inner_final" /\ Take(InnerFinalFilled, Outcome(InnerFinalFilled))
        /\ stage' = "commit_w" /\ UNCHANGED <<r_x, r, r_y, claim>>
    BY Zenon DEF InnerFinal, InnerFinalFilled
  <1>2. Rounded(InnerFinalFilled, Outcome(InnerFinalFilled))
    BY <1>1, TakeIs, Zenon
  <1> QED
    BY <1>1, <1>2, Zenon DEF InnerFinalTaken

CommitTaken(x) ==
  /\ stage = "commit_w" /\ Rounded(vc, x)
  /\ stage' = "finalize"
  /\ UNCHANGED <<r_x, r, r_y, claim>>

LEMMA CommitWIs ==
  ASSUME CommitW
  PROVE  \E x : CommitTaken(x)
  <1>1. /\ stage = "commit_w" /\ Take(vc, Outcome(vc))
        /\ stage' = "finalize" /\ UNCHANGED <<r_x, r, r_y, claim>>
    BY Zenon DEF CommitW
  <1>2. Rounded(vc, Outcome(vc))
    BY <1>1, TakeIs, Zenon
  <1> QED
    BY <1>1, <1>2, Zenon DEF CommitTaken

-----------------------------------------------------------------------------
(* Type correctness *)

(* How far the prover is at each stage. *)
Counts ==
  /\ stage = "start" => Now = 0 /\ Len(r_x) = 0 /\ Len(r_y) = 0
  /\ stage = "outer" => Now = Len(r_x) /\ Len(r_x) < dims.nx /\ Len(r_y) = 0
  /\ stage = "outer_final" => Now = dims.nx /\ Len(r_x) = dims.nx /\ Len(r_y) = 0
  /\ stage = "inner_first" => Now = dims.nx + 1 /\ Len(r_x) = dims.nx /\ Len(r_y) = 0
  /\ stage = "inner" => /\ Now = dims.nx + 1 + Len(r_y) /\ Len(r_x) = dims.nx
                        /\ Len(r_y) >= 1 /\ Len(r_y) < dims.ny
  /\ stage \in {"inner_final", "failed"} =>
       Now = dims.nx + 1 + dims.ny /\ Len(r_x) = dims.nx /\ Len(r_y) = dims.ny
  /\ stage = "commit_w" =>
       Now = dims.nx + dims.ny + 2 /\ Len(r_x) = dims.nx /\ Len(r_y) = dims.ny
  /\ stage \in {"finalize", "finalized", "verify", "accepted", "rejected"} =>
       Now = dims.nx + dims.ny + 3 /\ Len(r_x) = dims.nx /\ Len(r_y) = dims.ny

(* The inductive invariant behind TypeOK: also the shape is the one of      *)
(* setup.                                                                   *)
TypeInv ==
  /\ dims \in Dims /\ shape = SetupShape(dims)
  /\ stage \in RoundStages \cup {"start", "failed", "finalize", "finalized",
                                 "verify", "accepted", "rejected"}
  /\ IsSequence(state.challenges) /\ IsSequence(r_x) /\ IsSequence(r_y)
  /\ OnTo(state.w, Total(shape.num_vars))
  /\ Counts

(* It holds at the start. *)
LEMMA TypeInit ==
  ASSUME Init
  PROVE  TypeInv
  <1>1. /\ dims \in Dims /\ shape = SetupShape(dims) /\ stage = "start"
        /\ state = NewState(shape, Zero) /\ r_x = <<>> /\ r_y = <<>>
    BY Zenon DEF Init
  <1>2. /\ state.challenges = <<>>
        /\ state.w = [k \in 1 .. Total(shape.num_vars) |-> Zero]
    BY <1>1 DEF NewState
  <1>3. OnTo(state.w, Total(shape.num_vars))
    BY <1>2 DEF OnTo
  <1> QED
    BY <1>1, <1>2, <1>3, EmptyIsSequence DEF TypeInv, Counts, Now, CurrentRound

(* What a round changes in the lengths. *)
LEMMA RoundedType ==
  ASSUME TypeInv, NEW circuit, NEW x, Rounded(circuit, x)
  PROVE  /\ dims' = dims /\ shape' = shape /\ taus' = taus
         /\ IsSequence(state'.challenges) /\ Now' = Now + 1 /\ Now \in Nat
         /\ OnTo(state'.w, Total(shape'.num_vars))
         /\ Len(r_x) \in Nat /\ Len(r_y) \in Nat
         /\ dims.nx \in Nat /\ dims.nx >= 1 /\ dims.ny \in Nat /\ dims.ny >= 2
  <1>1. /\ state' = x.state /\ dims' = dims /\ shape' = shape /\ taus' = taus
        /\ x.state.challenges = Append(state.challenges, Made(circuit).challenges)
        /\ x.state.w = RoundWitness(state, shape, Syn(circuit), Now)
    BY DEF Rounded, Processed
  <1>2. /\ IsSequence(x.state.challenges)
        /\ Len(x.state.challenges) = Len(state.challenges) + 1
        /\ Len(state.challenges) \in Nat
    BY <1>1, Appended, SequenceFacts DEF TypeInv
  <1>3. OnTo(x.state.w, Total(shape.num_vars))
    BY <1>1, CopiedKeeps DEF TypeInv, RoundWitness
  <1>4. Now = Len(state.challenges) /\ Now' = Len(state'.challenges)
    BY DEF Now, CurrentRound
  <1>5. /\ Len(r_x) \in Nat /\ Len(r_y) \in Nat
        /\ dims.nx \in Nat /\ dims.nx >= 1 /\ dims.ny \in Nat /\ dims.ny >= 2
    BY SequenceFacts, Indices DEF TypeInv
  <1> QED
    BY <1>1, <1>2, <1>3, <1>4, <1>5

(* What the other actions leave alone. *)
LEMMA OthersUnchanged ==
  ASSUME \/ Start \/ DivisionByZero \/ Finalize \/ StartVerify \/ VerifyRound \/ Conclude
         \/ UNCHANGED vars
  PROVE  UNCHANGED <<shape, dims, vc, state, r_x, r, r_y, claim>>
  BY Zenon DEF Start, DivisionByZero, Finalize, StartVerify, VerifyRound, Conclude, vars

(* Every step keeps it. *)
LEMMA TypeNext ==
  ASSUME TypeInv, [Next]_vars
  PROVE  TypeInv'
  <1>0. Counts /\ IsSequence(r_x) /\ IsSequence(r_y) /\ dims \in Dims /\ shape = SetupShape(dims)
    BY DEF TypeInv
  <1>1. CASE OuterRound
    <2>1. PICK x : OuterTaken(x)
      BY <1>1, OuterRoundIs
    <2>2. /\ stage = "outer" /\ Rounded(OuterFilled, x) /\ r_x' = Append(r_x, x.challenges[1])
          /\ stage' = (IF Len(r_x) + 1 = dims.nx THEN "outer_final" ELSE "outer")
          /\ r_y' = r_y
      BY <2>1 DEF OuterTaken
    <2>3. IsSequence(r_x') /\ Len(r_x') = Len(r_x) + 1
      BY <1>0, <2>2, Appended
    <2> QED
      BY <1>0, <2>2, <2>3, RoundedType DEF TypeInv, Counts, RoundStages
  <1>2. CASE OuterFinal
    <2>1. PICK x : OuterFinalTaken(x)
      BY <1>2, OuterFinalIs
    <2>2. /\ stage = "outer_final" /\ Rounded(OuterFinalFilled, x) /\ stage' = "inner_first"
          /\ r_x' = r_x /\ r_y' = r_y
      BY <2>1 DEF OuterFinalTaken
    <2> QED
      BY <1>0, <2>2, RoundedType DEF TypeInv, Counts, RoundStages
  <1>3. CASE InnerFirst \/ InnerRound
    <2>0. stage = "inner_first" => Len(r_y) = 0
      BY <1>0 DEF Counts
    <2>1. PICK x : InnerStep(x)
      BY <1>0, <1>3, <2>0, InnerStepIs
    <2>2. /\ stage \in {"inner_first", "inner"} /\ Rounded(InnerFilled(Len(r_y)), x)
          /\ stage' = (IF stage = "inner" /\ Len(r_y) = dims.ny - 1 THEN "inner_final" ELSE "inner")
          /\ r_y' = Append(r_y, x.challenges[1]) /\ r_x' = r_x
      BY <2>1 DEF InnerStep, InnerTaken
    <2>3. IsSequence(r_y') /\ Len(r_y') = Len(r_y) + 1
      BY <1>0, <2>2, Appended
    <2>4. /\ dims' = dims /\ shape' = shape
          /\ IsSequence(state'.challenges) /\ Now' = Now + 1 /\ Now \in Nat
          /\ OnTo(state'.w, Total(shape'.num_vars))
          /\ Len(r_x) \in Nat /\ Len(r_y) \in Nat
          /\ dims.nx \in Nat /\ dims.nx >= 1 /\ dims.ny \in Nat /\ dims.ny >= 2
      BY <2>2, RoundedType
    <2>5. /\ Now = dims.nx + 1 + Len(r_y) /\ Len(r_x) = dims.nx /\ Len(r_y) < dims.ny
          /\ stage = "inner" => Len(r_y) >= 1
          /\ stage # "inner" => Len(r_y) = 0
      BY <1>0, <2>2, <2>4 DEF Counts
    <2>6. \/ stage' = "inner_final" /\ Len(r_y') = dims.ny
          \/ stage' = "inner" /\ Len(r_y') < dims.ny /\ Len(r_y') >= 1
      BY SMTT(30), <2>2, <2>3, <2>4, <2>5
    <2>7. Now' = dims.nx + 1 + Len(r_y') /\ Len(r_x') = dims.nx
      <3> DEFINE m == Len(r_y)
                 n == dims.nx
      <3>1. m \in Nat /\ n \in Nat /\ Now' = Now + 1 /\ Now = n + 1 + m /\ Len(r_y') = m + 1
        BY <2>3, <2>4, <2>5
      <3> HIDE DEF m, n
      <3>2. Now' = n + 1 + (m + 1)
        BY <3>1
      <3>3. Now' = n + 1 + Len(r_y')
        BY <3>1, <3>2
      <3> QED
        BY <2>2, <2>5, <3>3 DEF n
    <2>8. Counts'
      BY <2>2, <2>4, <2>6, <2>7 DEF Counts
    <2> QED
      BY <1>0, <2>2, <2>3, <2>4, <2>6, <2>8 DEF TypeInv, RoundStages
  <1>4. CASE InnerFinal
    <2>1. PICK x : InnerFinalTaken(x)
      BY <1>4, InnerFinalIs
    <2>2. /\ stage = "inner_final" /\ Rounded(InnerFinalFilled, x) /\ stage' = "commit_w"
          /\ r_x' = r_x /\ r_y' = r_y
      BY <2>1 DEF InnerFinalTaken
    <2> QED
      BY <1>0, <2>2, RoundedType DEF TypeInv, Counts, RoundStages
  <1>5. CASE CommitW
    <2>1. PICK x : CommitTaken(x)
      BY <1>5, CommitWIs
    <2>2. /\ stage = "commit_w" /\ Rounded(vc, x) /\ stage' = "finalize"
          /\ r_x' = r_x /\ r_y' = r_y
      BY <2>1 DEF CommitTaken
    <2> QED
      BY <1>0, <2>2, RoundedType DEF TypeInv, Counts, RoundStages
  <1>6. CASE \/ Start \/ DivisionByZero \/ Finalize \/ StartVerify \/ VerifyRound \/ Conclude
             \/ UNCHANGED vars
    <2>1. UNCHANGED <<shape, dims, state, r_x, r_y>>
      BY <1>6, OthersUnchanged
    <2>2. Now' = Now
      BY <2>1 DEF Now, CurrentRound
    <2>3. \/ stage = "start" /\ stage' = "outer"
          \/ stage = "inner_final" /\ stage' = "failed"
          \/ /\ stage \in {"finalize", "finalized", "verify"}
             /\ stage' \in {"finalized", "verify", "accepted", "rejected"}
          \/ stage' = stage
      BY <1>6, Zenon DEF Start, DivisionByZero, Finalize, StartVerify, VerifyRound, Conclude, vars
    <2>4. dims.nx \in Nat /\ dims.nx >= 1
      BY <1>0, Indices
    <2> QED
      BY <1>0, <2>1, <2>2, <2>3, <2>4 DEF TypeInv, Counts, RoundStages
  <1> QED
    BY <1>1, <1>2, <1>3, <1>4, <1>5, <1>6 DEF Next

(* It implies the type invariant of the runs. *)
LEMMA TypeInvImplies ==
  ASSUME TypeInv
  PROVE  TypeOK
  <1>1. ShapeIs(shape, dims) /\ dims \in Dims
    BY ShapeFacts DEF TypeInv
  <1>2. /\ dims.nx \in Nat /\ dims.nx >= 1 /\ dims.ny \in Nat /\ dims.ny >= 2
        /\ NumRounds(dims) = dims.nx + dims.ny + 3 /\ shape.num_rounds = NumRounds(dims)
        /\ Len(r_x) \in Nat /\ Len(r_y) \in Nat
    BY <1>1, SequenceFacts, Indices DEF TypeInv, ShapeIs
  <1>3. Total(shape.num_vars) \in Nat
    <2> DEFINE n == NumRounds(dims)
               s == shape.num_vars
    <2>1. n \in Nat /\ n \in 0 .. n /\ Len(s) = n
      BY <1>1, <1>2 DEF ShapeIs
    <2>2. \A k \in 1 .. n : s[k] \in Nat
      <3> SUFFICES ASSUME NEW k \in 1 .. n PROVE s[k] \in Nat
        OBVIOUS
      <3>1. AuxLength(dims, k - 1) \in Nat /\ Width \in Nat \ {0}
        BY DimsAssumption DEF AuxLength
      <3>2. s[k] = PadToWidth(Width, AuxLength(dims, k - 1))
        BY <1>1 DEF ShapeIs
      <3> QED
        BY <3>1, <3>2, Padding
    <2> HIDE DEF n, s
    <2>3. SumFirst(s, n) \in Nat
      BY <2>1, <2>2, SumUnfolds
    <2> QED
      BY <2>1, <2>3 DEF Total, s
  <1>4. Len(state.w) = Total(shape.num_vars)
    BY <1>3, FunctionIsSequence DEF TypeInv, OnTo
  <1>5. /\ Len(r_x) <= dims.nx /\ Len(r_y) <= dims.ny /\ Now <= shape.num_rounds
    BY <1>2 DEF TypeInv, Counts, RoundStages
  <1> QED
    BY <1>4, <1>5 DEF TypeOK, TypeInv, Now

(* TypeOK holds for any numbers of rounds and any commitment width. *)
THEOREM TypeCorrect == Spec => []TypeOK
  <1>1. Init => TypeInv
    BY TypeInit
  <1>2. TypeInv /\ [Next]_vars => TypeInv'
    BY TypeNext
  <1>3. TypeInv => TypeOK
    BY TypeInvImplies
  <1> QED
    BY <1>1, <1>2, <1>3, PTL DEF Spec

-----------------------------------------------------------------------------
(* Challenges come after commitments *)

(* What drawing the taus does. *)
OpeningAgain(o) ==
  \A p : Grown(Opening(o).oracle, p) =>
           Opening(p) = [challenges |-> Opening(o).challenges,
                         transcript |-> Opening(o).transcript, oracle |-> p]

(* The taus can be drawn again. *)
LEMMA OpeningFacts ==
  ASSUME dims \in Dims, NEW o, OracleOK(o)
  PROVE  ManyDrawn(Opening(o), o, {}, dims.nx) /\ OpeningAgain(o)
  <1> DEFINE t == Absorb(NewTranscript, "statement", <<"U">>)
             n == dims.nx
  <1>1. n \in Nat
    BY Indices
  <1>2. TranscriptOK(NewTranscript, o)
    BY SequenceFacts, EmptyIsSequence DEF NewTranscript, TranscriptOK, OracleOK
  <1>3. Bound(t, NewTranscript, <<"statement", <<"U">>>>, o)
    BY <1>2, AbsorbFacts
  <1>4. TranscriptOK(t, o)
    BY <1>3 DEF Bound
  <1>5. \A p : Opening(p) = SqueezeMany(t, "t", p, n)
    BY Zenon DEF Opening
  <1> HIDE DEF t, n
  <1>6. ManyDrawn(SqueezeMany(t, "t", o, n), o, Ancestry(o, t.state), n)
    BY <1>1, <1>4, SqueezeManyDraws
  <1>7. ManyDrawn(SqueezeMany(t, "t", o, n), o, {}, n)
    BY <1>6, Zenon DEF ManyDrawn
  <1>8. Redraws(t, "t", o, n)
    BY <1>1, <1>4, SqueezeManyAgain
  <1>9. OpeningAgain(o)
    BY <1>5, <1>8, Zenon DEF OpeningAgain, Redraws
  <1> QED
    BY <1>5, <1>7, <1>9 DEF n

(* The queries answered by the taus. *)
TauQueries == {oracle[taus[i][2]] : i \in DOMAIN taus}

(* What every challenge depends on, with the taus among it. *)
BoundInv ==
  /\ RoundsBound(state, transcript, oracle, TauQueries)
  /\ \A i \in DOMAIN taus : taus[i][2] \in 1 .. Len(oracle)
  /\ stage = "start" => /\ oracle = <<>> /\ transcript = NewTranscript
                        /\ state = NewState(shape, Zero)
  /\ stage = "verify" => TranscriptOK(verifier.transcript, oracle)

(* It holds at the start. *)
LEMMA BoundInit ==
  ASSUME Init
  PROVE  BoundInv
  <1>1. /\ oracle = <<>> /\ transcript = NewTranscript /\ taus = <<>>
        /\ state = NewState(shape, Zero) /\ stage = "start"
    BY Zenon DEF Init
  <1>2. OracleOK(oracle)
    BY <1>1, EmptyIsSequence DEF OracleOK
  <1>3. TranscriptOK(transcript, oracle)
    BY <1>1, EmptyIsSequence DEF TranscriptOK, NewTranscript
  <1>4. DOMAIN taus = {} /\ TauQueries = {}
    BY <1>1 DEF TauQueries
  <1>5. RoundsBound(state, transcript, oracle, TauQueries)
    BY <1>1, <1>2, <1>3, <1>4, BoundStart
  <1> QED
    BY <1>1, <1>4, <1>5 DEF BoundInv

(* More questions do not change the taus' queries. *)
LEMMA TausGrown ==
  ASSUME BoundInv, Grown(oracle, oracle'), taus' = taus
  PROVE  /\ TauQueries' = TauQueries
         /\ \A i \in DOMAIN taus' : taus'[i][2] \in 1 .. Len(oracle')
  <1>1. /\ Len(oracle) \in Nat /\ Len(oracle') \in Nat /\ Len(oracle) <= Len(oracle')
        /\ \A j \in 1 .. Len(oracle) : oracle'[j] = oracle[j]
    BY SequenceFacts DEF Grown, OracleOK, BoundInv, RoundsBound
  <1>2. \A i \in DOMAIN taus : taus[i][2] \in 1 .. Len(oracle)
    BY DEF BoundInv
  <1>3. \A i \in DOMAIN taus : oracle'[taus[i][2]] = oracle[taus[i][2]]
    BY <1>1, <1>2
  <1>4. TauQueries' = {oracle'[taus[i][2]] : i \in DOMAIN taus}
    BY Zenon DEF TauQueries
  <1>5. TauQueries' = TauQueries
    BY <1>3, <1>4 DEF TauQueries
  <1>6. \A i \in DOMAIN taus : taus[i][2] \in 1 .. Len(oracle')
    BY <1>1, <1>2
  <1> QED
    BY <1>5, <1>6

(* Every action of the prover that sends a message is a round. *)
LEMMA RoundActions ==
  ASSUME TypeInv, OuterRound \/ OuterFinal \/ InnerFirst \/ InnerRound \/ InnerFinal \/ CommitW
  PROVE  /\ \E circuit, x : Rounded(circuit, x)
         /\ stage \in RoundStages /\ stage' \notin {"start", "verify"}
  <1>1. IsSequence(r_y) /\ (stage = "inner_first" => Len(r_y) = 0)
    BY DEF TypeInv, Counts
  <1>2. CASE OuterRound
    BY <1>2, OuterRoundIs DEF OuterTaken, RoundStages
  <1>3. CASE OuterFinal
    BY <1>3, OuterFinalIs DEF OuterFinalTaken, RoundStages
  <1>4. CASE InnerFirst \/ InnerRound
    BY <1>1, <1>4, InnerStepIs DEF InnerStep, InnerTaken, RoundStages
  <1>5. CASE InnerFinal
    BY <1>5, InnerFinalIs DEF InnerFinalTaken, RoundStages
  <1>6. CASE CommitW
    BY <1>6, CommitWIs DEF CommitTaken, RoundStages
  <1> QED
    BY <1>2, <1>3, <1>4, <1>5, <1>6

(* Every step keeps it. *)
LEMMA BoundNext ==
  ASSUME TypeInv, BoundInv, [Next]_vars
  PROVE  BoundInv'
  <1>0. /\ RoundsBound(state, transcript, oracle, TauQueries) /\ OracleOK(oracle)
        /\ dims \in Dims
    BY DEF BoundInv, RoundsBound, TypeInv
  <1>1. CASE Start
    <2> DEFINE x == Opening(oracle)
    <2>1. /\ stage = "start" /\ transcript' = x.transcript /\ oracle' = x.oracle
          /\ taus' = x.challenges /\ stage' = "outer" /\ UNCHANGED <<shape, state>>
      BY <1>1, Zenon DEF Start
    <2>2. ManyDrawn(x, oracle, {}, dims.nx)
      BY <1>0, OpeningFacts
    <2> HIDE DEF x
    <2>3. /\ Grown(oracle, x.oracle) /\ TranscriptOK(x.transcript, x.oracle)
          /\ IsSequence(x.challenges) /\ Len(x.challenges) = dims.nx
          /\ \A i \in 1 .. dims.nx : \E p \in 1 .. Len(x.oracle) :
               /\ x.challenges[i] = <<"challenge", p>>
               /\ x.oracle[p] \in Ancestry(x.oracle, x.transcript.state)
      BY <2>2 DEF ManyDrawn
    <2>4. DOMAIN taus' = 1 .. dims.nx
      BY <2>1, <2>3, SequenceFacts
    <2>5. ASSUME NEW i \in DOMAIN taus'
          PROVE  /\ taus'[i][2] \in 1 .. Len(oracle')
                 /\ oracle'[taus'[i][2]] \in Ancestry(oracle', transcript'.state)
      <3>1. PICK p \in 1 .. Len(x.oracle) :
               /\ x.challenges[i] = <<"challenge", p>>
               /\ x.oracle[p] \in Ancestry(x.oracle, x.transcript.state)
        BY <2>3, <2>4, <2>5
      <3>2. taus'[i][2] = p
        BY <2>1, <3>1
      <3> QED
        BY <2>1, <3>1, <3>2
    <2>6. TauQueries' \subseteq Ancestry(oracle', transcript'.state)
      BY <2>5 DEF TauQueries
    <2>7. OracleOK(oracle')
      BY <2>1, <2>3 DEF Grown
    <2>8. RoundsBound(state', transcript', oracle', TauQueries')
      <3>1. state' = NewState(shape, Zero)
        BY <2>1 DEF BoundInv
      <3> DEFINE B == TauQueries'
                 t == transcript'
                 o == oracle'
      <3>2. OracleOK(o) /\ TranscriptOK(t, o) /\ B \subseteq Ancestry(o, t.state)
        BY <2>1, <2>3, <2>6, <2>7
      <3> HIDE DEF B, t, o
      <3>3. RoundsBound(NewState(shape, Zero), t, o, B)
        BY <3>2, BoundStart
      <3> QED
        BY <3>1, <3>3 DEF B, t, o
    <2> QED
      BY <2>1, <2>5, <2>8 DEF BoundInv
  <1>2. CASE OuterRound \/ OuterFinal \/ InnerFirst \/ InnerRound \/ InnerFinal \/ CommitW
    <2>1. PICK circuit, x : Rounded(circuit, x)
      BY <1>2, RoundActions
    <2>2. /\ Processed(x, Made(circuit), state, shape, Syn(circuit), Now)
          /\ state' = x.state /\ transcript' = x.transcript /\ oracle' = x.oracle
          /\ taus' = taus
      BY <2>1 DEF Rounded
    <2>3. RoundsBound(x.state, x.transcript, x.oracle, TauQueries) /\ Grown(oracle, x.oracle)
      BY <1>0, <2>2, BoundProcessed DEF Made
    <2>4. /\ TauQueries' = TauQueries
          /\ \A i \in DOMAIN taus' : taus'[i][2] \in 1 .. Len(oracle')
      BY <2>2, <2>3, TausGrown
    <2>5. stage' \notin {"start", "verify"}
      BY <1>2, RoundActions
    <2> QED
      BY <2>2, <2>3, <2>4, <2>5 DEF BoundInv
  <1>3. CASE DivisionByZero \/ Finalize \/ Conclude \/ UNCHANGED vars
    <2>1. UNCHANGED <<state, transcript, oracle, taus, verifier, shape>>
      BY <1>3, Zenon DEF DivisionByZero, Finalize, Conclude, vars
    <2>2. TauQueries' = TauQueries
      BY <2>1 DEF TauQueries
    <2>3. stage' = stage \/ stage' \notin {"start", "verify"}
      BY <1>3, Zenon DEF DivisionByZero, Finalize, Conclude, vars
    <2> QED
      BY <2>1, <2>2, <2>3 DEF BoundInv
  <1>4. CASE StartVerify
    <2> DEFINE x == Opening(oracle)
    <2>1. /\ verifier' = [transcript |-> x.transcript, taus |-> x.challenges, round |-> 0]
          /\ oracle' = x.oracle /\ stage' = "verify"
          /\ UNCHANGED <<state, transcript, taus>>
      BY <1>4, Zenon DEF StartVerify
    <2>2. ManyDrawn(x, oracle, {}, dims.nx)
      BY <1>0, OpeningFacts
    <2> HIDE DEF x
    <2>3. Grown(oracle, oracle') /\ TranscriptOK(x.transcript, oracle')
      BY <2>1, <2>2 DEF ManyDrawn
    <2>4. RoundsBound(state, transcript, oracle', TauQueries)
      BY <1>0, <2>3, BoundGrown
    <2>5. /\ TauQueries' = TauQueries
          /\ \A i \in DOMAIN taus' : taus'[i][2] \in 1 .. Len(oracle')
      BY <2>1, <2>3, TausGrown
    <2>6. verifier'.transcript = x.transcript
      BY <2>1
    <2> QED
      BY <2>1, <2>3, <2>4, <2>5, <2>6 DEF BoundInv
  <1>5. CASE VerifyRound
    <2> DEFINE round == verifier.round
               comm == U.comm_w_per_round[round + 1]
               x == ValidateRound(U, shape, round, verifier.transcript, oracle)
               e == Exchange(shape, comm, round, verifier.transcript, oracle)
    <2>1. /\ stage = "verify"
          /\ verifier' = [verifier EXCEPT !.transcript = x.transcript, !.round = @ + 1]
          /\ oracle' = x.oracle /\ stage' \in {"verify", "rejected"}
          /\ UNCHANGED <<state, transcript, taus>>
      BY <1>5, Zenon DEF VerifyRound
    <2>2. TranscriptOK(verifier.transcript, oracle)
      BY <2>1 DEF BoundInv
    <2>3. Validated(x, e, U, shape, round)
      BY ValidateIs
    <2>4. Exchanged(e, shape.num_challenges[round + 1] = 0, comm, verifier.transcript, oracle)
      BY <1>0, <2>2, ExchangeFacts
    <2> HIDE DEF x, e
    <2>5. x.transcript = e.transcript /\ x.oracle = e.oracle
      BY <2>3 DEF Validated
    <2>6. Grown(oracle, e.oracle) /\ TranscriptOK(e.transcript, e.oracle)
      BY <2>4 DEF Exchanged
    <2>7. Grown(oracle, oracle') /\ TranscriptOK(x.transcript, oracle')
      BY <2>1, <2>5, <2>6
    <2>8. RoundsBound(state, transcript, oracle', TauQueries)
      BY <1>0, <2>7, BoundGrown
    <2>9. /\ TauQueries' = TauQueries
          /\ \A i \in DOMAIN taus' : taus'[i][2] \in 1 .. Len(oracle')
      BY <2>1, <2>7, TausGrown
    <2> QED
      BY <2>1, <2>7, <2>8, <2>9 DEF BoundInv
  <1> QED
    BY <1>1, <1>2, <1>3, <1>4, <1>5 DEF Next

(* It implies the property of the runs. *)
LEMMA BoundImplies ==
  ASSUME BoundInv
  PROVE  CommittedBeforeChallenged
  <1>1. RoundsBound(state, transcript, oracle, TauQueries) /\ OracleOK(oracle)
    BY DEF BoundInv, RoundsBound
  <1> SUFFICES ASSUME NEW k \in 1 .. CurrentRound(state), NEW c \in Range(state.challenges[k])
               PROVE  /\ \A j \in 1 .. k :
                            \E query \in Ancestry(oracle, c[2]) :
                              <<"comm_w_round", state.comm_w_per_round[j]>> \in Range(query.absorbed)
                      /\ \A i \in DOMAIN taus : \E query \in Ancestry(oracle, c[2]) :
                           Position(oracle, query) = taus[i][2]
    BY Zenon DEF CommittedBeforeChallenged
  <1>2. /\ \A j \in 1 .. k :
             \E query \in Ancestry(oracle, c[2]) :
               <<"comm_w_round", state.comm_w_per_round[j]>> \in Range(query.absorbed)
        /\ TauQueries \subseteq Ancestry(oracle, c[2])
    BY <1>1, BoundShows DEF CurrentRound
  <1>3. ASSUME NEW i \in DOMAIN taus
        PROVE  \E query \in Ancestry(oracle, c[2]) : Position(oracle, query) = taus[i][2]
    <2>1. taus[i][2] \in 1 .. Len(oracle)
      BY DEF BoundInv
    <2>2. Position(oracle, oracle[taus[i][2]]) = taus[i][2]
      BY <1>1, <2>1, PositionOf
    <2>3. oracle[taus[i][2]] \in Ancestry(oracle, c[2])
      BY <1>2 DEF TauQueries
    <2> QED
      BY <2>2, <2>3
  <1> QED
    BY <1>2, <1>3

(* No challenge, of however many rounds, is drawn before what it answers is *)
(* bound into the transcript.                                               *)
THEOREM ChallengesComeLast == Spec => []CommittedBeforeChallenged
  <1>1. Init => TypeInv /\ BoundInv
    BY TypeInit, BoundInit
  <1>2. TypeInv /\ BoundInv /\ [Next]_vars => (TypeInv /\ BoundInv)'
    BY TypeNext, BoundNext
  <1>3. BoundInv => CommittedBeforeChallenged
    BY BoundImplies
  <1> QED
    BY <1>1, <1>2, <1>3, PTL DEF Spec

-----------------------------------------------------------------------------
(* What the rounds hold *)

(* The challenge of round k, and the last round that has one. *)
Ch(st, k) == st.challenges[k][1]
LastChallenge == dims.nx + 1 + dims.ny

(* Every round up to the last inner one has one challenge, the others none. *)
ChallengesGiven ==
  /\ IsSequence(state.vars_per_round) /\ Len(state.vars_per_round) = Now
  /\ IsSequence(state.challenges_per_round) /\ Len(state.challenges_per_round) = Now
  /\ \A k \in 1 .. Now :
       state.challenges[k] = IF k <= LastChallenge THEN <<Ch(state, k)>> ELSE <<>>

(* What a round appends to the state, given what it synthesizes. *)
Advanced(x, inputs, held, chs, checks) ==
  /\ Now' = Now + 1
  /\ IsSequence(state'.vars_per_round) /\ Len(state'.vars_per_round) = Now + 1
  /\ IsSequence(state'.challenges_per_round) /\ Len(state'.challenges_per_round) = Now + 1
  /\ \A k \in 1 .. Now : /\ state'.vars_per_round[k] = state.vars_per_round[k]
                         /\ state'.challenges_per_round[k] = state.challenges_per_round[k]
                         /\ state'.challenges[k] = state.challenges[k]
  /\ state'.vars_per_round[Now + 1] = held
  /\ state'.challenges_per_round[Now + 1] = chs
  /\ state'.challenges[Now + 1] = IF Now < LastChallenge THEN <<x.challenges[1]>> ELSE <<>>
  /\ state'.checks = state.checks \cup checks
  /\ state'.inputs = state.inputs \o inputs

(* A round appends what it synthesizes and one challenge or none. *)
LEMMA Advance ==
  ASSUME TypeInv, BoundInv, ChallengesGiven, NEW circuit, NEW x, Rounded(circuit, x),
         NEW aux, NEW inputs, NEW held, NEW chs, NEW checks,
         Yields(Syn(circuit), aux, inputs, held, chs, checks)
  PROVE  Advanced(x, inputs, held, chs, checks) /\ ChallengesGiven'
  <1> DEFINE e == Made(circuit)
             comm == RoundSent(state, shape, Syn(circuit), Now)
             none == shape.num_challenges[Now + 1] = 0
             n == Now
  <1>1. /\ Processed(x, e, state, shape, Syn(circuit), n) /\ state' = x.state /\ dims' = dims
        /\ Accepts
    BY DEF Rounded
  <1>2. Exchanged(e, none, comm, transcript, oracle)
    BY ExchangeFacts DEF BoundInv, RoundsBound, Made, RoundExchange
  <1>3. /\ n \in Nat /\ Len(state.challenges) = n /\ n < NumRounds(dims)
        /\ IsSequence(state.challenges) /\ ShapeIs(shape, dims) /\ dims \in Dims
    BY <1>1, ShapeFacts, SequenceFacts DEF TypeInv, Accepts, ShapeIs, Now, CurrentRound
  <1>4. none <=> ~ (n < LastChallenge)
    <2>1. /\ dims.nx \in Nat /\ dims.ny \in Nat /\ idx_inner_final(dims) = LastChallenge
          /\ NumRounds(dims) = dims.nx + dims.ny + 3
      BY <1>3, Indices DEF LastChallenge
    <2>2. n + 1 \in 1 .. NumRounds(dims) /\ (n + 1) - 1 = n
      BY <1>3, <2>1
    <2>3. shape.num_challenges[n + 1] = NumChallenges(dims, n)
      BY <1>3, <2>2 DEF ShapeIs
    <2> QED
      BY <2>1, <2>3 DEF NumChallenges
  <1> HIDE DEF e, comm, none, n
  <1>5. e.challenges = IF n < LastChallenge THEN <<e.challenges[1]>> ELSE <<>>
    <2>1. none => e.challenges = <<>>
      BY <1>2 DEF Exchanged
    <2>2. ~none => \E p : e.challenges = <<<<"challenge", p>>>>
      BY <1>2 DEF Exchanged
    <2>3. ~none => e.challenges = <<e.challenges[1]>>
      BY <2>2
    <2> QED
      BY <1>4, <2>1, <2>3
  <1>6. /\ x.challenges = e.challenges
        /\ x.state.inputs = state.inputs \o inputs
        /\ x.state.checks = state.checks \cup checks
        /\ x.state.vars_per_round = Append(state.vars_per_round, held)
        /\ x.state.challenges_per_round = Append(state.challenges_per_round, chs)
        /\ x.state.challenges = Append(state.challenges, e.challenges)
    BY <1>1 DEF Processed, Yields
  <1>7. /\ IsSequence(state.vars_per_round) /\ Len(state.vars_per_round) = n
        /\ IsSequence(state.challenges_per_round) /\ Len(state.challenges_per_round) = n
        /\ \A k \in 1 .. n :
             state.challenges[k] = IF k <= LastChallenge THEN <<Ch(state, k)>> ELSE <<>>
    BY DEF ChallengesGiven, n
  <1>8. /\ IsSequence(x.state.vars_per_round) /\ Len(x.state.vars_per_round) = n + 1
        /\ \A k \in 1 .. n : x.state.vars_per_round[k] = state.vars_per_round[k]
        /\ x.state.vars_per_round[n + 1] = held
    BY <1>6, <1>7, Appended
  <1>9. /\ IsSequence(x.state.challenges_per_round)
        /\ Len(x.state.challenges_per_round) = n + 1
        /\ \A k \in 1 .. n : x.state.challenges_per_round[k] = state.challenges_per_round[k]
        /\ x.state.challenges_per_round[n + 1] = chs
    BY <1>6, <1>7, Appended
  <1>10. /\ Len(x.state.challenges) = n + 1
         /\ \A k \in 1 .. n : x.state.challenges[k] = state.challenges[k]
         /\ x.state.challenges[n + 1] = e.challenges
    BY <1>3, <1>6, Appended
  <1>11. Now' = n + 1 /\ Now = n
    BY <1>1, <1>10 DEF Now, CurrentRound, n
  <1>12. Advanced(x, inputs, held, chs, checks)
    BY <1>1, <1>5, <1>6, <1>8, <1>9, <1>10, <1>11 DEF Advanced
  <1>13. ASSUME NEW k \in 1 .. n + 1
         PROVE  x.state.challenges[k]
                  = IF k <= LastChallenge THEN <<Ch(x.state, k)>> ELSE <<>>
    <2>1. LastChallenge \in Nat
      BY <1>3, Indices DEF LastChallenge
    <2>2. CASE k = n + 1
      <3>1. x.state.challenges[k] = IF k <= LastChallenge THEN <<e.challenges[1]>> ELSE <<>>
        BY <1>3, <1>5, <1>10, <2>1, <2>2
      <3> QED
        BY <1>10, <2>2, <3>1 DEF Ch
    <2>3. CASE k # n + 1
      <3>1. k \in 1 .. n
        BY <1>3, <2>3
      <3> QED
        BY <1>7, <1>10, <3>1 DEF Ch
    <2> QED
      BY <2>2, <2>3
  <1>14. LastChallenge' = LastChallenge
    BY <1>1 DEF LastChallenge
  <1>15. ChallengesGiven'
    BY <1>1, <1>8, <1>9, <1>11, <1>13, <1>14 DEF ChallengesGiven
  <1> QED
    BY <1>12, <1>15

(* The driver keeps the challenges of the rounds they belong to. *)
Kept ==
  /\ \A i \in 1 .. Len(r_x) : r_x[i] = Ch(state, i)
  /\ Now > dims.nx => r = Ch(state, dims.nx + 1)
  /\ \A j \in 1 .. Len(r_y) : r_y[j] = Ch(state, dims.nx + 1 + j)

(* The values an honest prover claims. *)
EvalW == <<"eval_W", 1, Tail(r_y)>>
EvalX == <<"eval_X", 1, Tail(r_y)>>
Tau == <<"tau", r_x, taus>>

(* What the circuit handed from round to round. *)
HandedOn ==
  /\ \A k \in 1 .. Now : k <= dims.nx => state.vars_per_round[k][1][2] = <<"outer", 1, k - 1>>
  /\ Now > dims.nx =>
       state.vars_per_round[dims.nx + 1]
         = <<<<"Az", 1, r_x>>, <<"Bz", 1, r_x>>, <<"Cz", 1, r_x>>, Tau>>
  /\ \A k \in 1 .. Now : k > dims.nx + 1 /\ k <= LastChallenge =>
       state.vars_per_round[k][1][2] = <<"inner", 1, k - (dims.nx + 2)>>
  /\ Now > LastChallenge =>
       state.vars_per_round[LastChallenge + 1] = <<EvalW>> /\ vc.eval_W = EvalW
  /\ Now >= dims.nx + 3 =>
       state.challenges_per_round[dims.nx + 3] = <<Ch(state, dims.nx + 2)>>

(* The claim is the one the circuit will compute in this round. *)
Claimed ==
  /\ Now = 0 => claim = Zero
  /\ Now >= 1 /\ Now <= dims.nx => claim = <<"eval", <<"outer", 1, Now - 1>>, Ch(state, Now)>>
  /\ Now = dims.nx + 1 =>
       claim = Joint(<<"Az", 1, r_x>>, <<"Bz", 1, r_x>>, <<"Cz", 1, r_x>>, Ch(state, Now))
  /\ Now > dims.nx + 1 /\ Now <= LastChallenge =>
       claim = <<"eval", <<"inner", 1, Now - (dims.nx + 2)>>, Ch(state, Now)>>

(* The circuit has a field for every message. *)
CircuitOK ==
  /\ vc = [outer_polys |-> vc.outer_polys, claim_Az |-> vc.claim_Az,
           claim_Bz |-> vc.claim_Bz, claim_Cz |-> vc.claim_Cz, tau_at_rx |-> vc.tau_at_rx,
           inner_polys |-> vc.inner_polys, eval_W |-> vc.eval_W, eval_X |-> vc.eval_X]
  /\ DOMAIN vc.outer_polys = 1 .. dims.nx
  /\ DOMAIN vc.inner_polys = 1 .. dims.ny

(* The inductive invariant behind ChecksHold. *)
ValueInv == ChallengesGiven /\ Kept /\ HandedOn /\ Claimed /\ CircuitOK /\ ChecksHold

(* The public inputs the circuit allocates in this round. *)
LastEval == <<"eval", <<"inner", 1, dims.ny - 1>>, Ch(state, LastChallenge)>>
PublicValues == <<Tau, EvalX, Quotient(LastEval, EvalW, EvalX, Ch(state, dims.nx + 2))>>
Given ==
  IF Now = 0 \/ Now > LastChallenge THEN <<>>
  ELSE IF Now < LastChallenge THEN <<Ch(state, Now)>>
  ELSE <<Ch(state, Now), PublicValues[1], PublicValues[2], PublicValues[3]>>

(* It holds at the start. *)
LEMMA ValueInit ==
  ASSUME Init
  PROVE  ValueInv
  <1>1. /\ state = NewState(shape, Zero) /\ vc = DefaultCircuit(dims) /\ dims \in Dims
        /\ r_x = <<>> /\ r_y = <<>> /\ claim = Zero
    BY Zenon DEF Init
  <1>2. /\ state.challenges = <<>> /\ state.vars_per_round = <<>> /\ state.checks = {}
        /\ state.challenges_per_round = <<>>
    BY <1>1 DEF NewState
  <1>3. /\ Now = 0 /\ Len(r_x) = 0 /\ Len(r_y) = 0
        /\ dims.nx \in Nat /\ dims.nx >= 1 /\ dims.ny \in Nat /\ LastChallenge \in Nat
    BY <1>1, <1>2, EmptyIsSequence, Indices DEF Now, CurrentRound, LastChallenge
  <1>4. ChallengesGiven
    BY <1>2, <1>3, EmptyIsSequence DEF ChallengesGiven
  <1>5. Kept
    BY <1>3 DEF Kept
  <1>6. HandedOn
    <2>1. ~(Now > dims.nx) /\ ~(Now > LastChallenge) /\ ~(Now >= dims.nx + 3)
      BY <1>3
    <2> QED
      BY <1>3, <2>1 DEF HandedOn
  <1>7. Claimed
    BY <1>1, <1>3 DEF Claimed
  <1>8. CircuitOK
    BY <1>1 DEF CircuitOK, DefaultCircuit
  <1>9. ChecksHold
    BY <1>2 DEF ChecksHold
  <1> QED
    BY <1>4, <1>5, <1>6, <1>7, <1>8, <1>9 DEF ValueInv

(* The numbers a step compares. *)
LEMMA Numbers ==
  ASSUME TypeInv
  PROVE  /\ dims \in Dims /\ Now \in Nat /\ dims.nx \in Nat /\ dims.nx >= 1
         /\ dims.ny \in Nat /\ dims.ny >= 2
         /\ LastChallenge \in Nat /\ LastChallenge = dims.nx + 1 + dims.ny
         /\ Len(r_x) \in Nat /\ Len(r_y) \in Nat
         /\ DOMAIN r_x = 1 .. Len(r_x) /\ DOMAIN r_y = 1 .. Len(r_y)
  BY SequenceFacts, Indices DEF TypeInv, Now, CurrentRound, LastChallenge

(* A round reads the challenge of the round before. *)
LEMMA ReadsLast ==
  ASSUME TypeInv, ChallengesGiven, Now >= 1, Now <= LastChallenge
  PROVE  Head(PassedChallenges(state, Now)) = Ch(state, Now)
  <1>1. Now \in 1 .. Now /\ Now # 0
    BY Numbers
  <1>2. state.challenges[Now] = <<Ch(state, Now)>>
    BY <1>1 DEF ChallengesGiven
  <1>3. PassedChallenges(state, Now) = state.challenges[Now]
    BY <1>1 DEF PassedChallenges
  <1> QED
    BY <1>2, <1>3

(* What is kept and handed on stays as it is when a round is added. *)
LEMMA ValueKept ==
  ASSUME TypeInv, ValueInv, NEW x, NEW inputs, NEW held, NEW chs, NEW checks,
         Advanced(x, inputs, held, chs, checks), dims' = dims, taus' = taus
  PROVE  /\ \A k \in 1 .. Now : Ch(state', k) = Ch(state, k)
         /\ LastChallenge' = LastChallenge
         /\ Now < LastChallenge => x.challenges[1] = Ch(state', Now + 1)
         /\ (\A check \in checks : check[1] = check[2]) => ChecksHold'
         /\ \A k \in 1 .. Now :
              k <= dims.nx => state'.vars_per_round[k][1][2] = <<"outer", 1, k - 1>>
         /\ \A k \in 1 .. Now :
              k > dims.nx + 1 /\ k <= LastChallenge =>
                state'.vars_per_round[k][1][2] = <<"inner", 1, k - (dims.nx + 2)>>
  <1>1. \A k \in 1 .. Now : Ch(state', k) = Ch(state, k)
    BY DEF Advanced, Ch
  <1>2. LastChallenge' = LastChallenge
    BY DEF LastChallenge
  <1>3. Now < LastChallenge => x.challenges[1] = Ch(state', Now + 1)
    BY DEF Advanced, Ch
  <1>4. (\A check \in checks : check[1] = check[2]) => ChecksHold'
    BY DEF Advanced, ValueInv, ChecksHold
  <1>5. /\ \A k \in 1 .. Now :
             k <= dims.nx => state'.vars_per_round[k][1][2] = <<"outer", 1, k - 1>>
        /\ \A k \in 1 .. Now :
             k > dims.nx + 1 /\ k <= LastChallenge =>
               state'.vars_per_round[k][1][2] = <<"inner", 1, k - (dims.nx + 2)>>
    BY DEF Advanced, ValueInv, HandedOn
  <1> QED
    BY <1>1, <1>2, <1>3, <1>4, <1>5

(* An outer round keeps it: the circuit computes the claim of the prover. *)
LEMMA ValueOuter ==
  ASSUME TypeInv, BoundInv, ValueInv, NEW x, OuterTaken(x)
  PROVE  ValueInv' /\ state'.inputs = state.inputs \o Given
  <1> DEFINE n == Now
             poly == RoundPoly("outer", n)
             chals == PassedChallenges(state, Now)
             current == OuterClaim(n, state.vars_per_round, chals)
             inputs == IF n = 0 THEN <<>> ELSE <<Head(chals)>>
             checks == {<<Claim(poly), current>>}
  <1>1. /\ stage = "outer" /\ Rounded(OuterFilled, x) /\ r_x' = Append(r_x, x.challenges[1])
        /\ claim' = EvalAt(RoundPoly("outer", Len(r_x)), x.challenges[1])
        /\ r_y' = r_y /\ vc' = OuterFilled /\ dims' = dims /\ taus' = taus
    BY DEF OuterTaken, Rounded
  <1>2. n = Len(r_x) /\ n < dims.nx /\ Len(r_y) = 0 /\ IsSequence(r_x)
    BY <1>1 DEF TypeInv, Counts
  <1>3. /\ dims \in Dims /\ n \in Nat /\ dims.nx \in Nat /\ LastChallenge \in Nat
        /\ LastChallenge = dims.nx + 1 + dims.ny /\ dims.ny \in Nat
    BY Numbers
  <1>4. /\ ChallengesGiven /\ Kept /\ HandedOn /\ Claimed /\ CircuitOK /\ ChecksHold
    BY DEF ValueInv
  <1>5. OuterFilled.outer_polys[n + 1] = poly /\ CircuitOK'
    <2>1. n + 1 \in DOMAIN vc.outer_polys
      BY <1>2, <1>3, <1>4 DEF CircuitOK
    <2> DEFINE polys == [vc.outer_polys EXCEPT ![n + 1] = poly]
    <2>2. polys[n + 1] = poly /\ DOMAIN polys = DOMAIN vc.outer_polys
      BY <2>1
    <2>3. OuterFilled = [vc EXCEPT !.outer_polys[n + 1] = poly]
      BY <1>2 DEF OuterFilled
    <2> HIDE DEF poly, n
    <2>4. OuterFilled = [vc EXCEPT !.outer_polys = polys]
      BY <2>3
    <2> HIDE DEF polys
    <2>5. OuterFilled = [outer_polys |-> polys, claim_Az |-> vc.claim_Az,
             claim_Bz |-> vc.claim_Bz, claim_Cz |-> vc.claim_Cz, tau_at_rx |-> vc.tau_at_rx,
             inner_polys |-> vc.inner_polys, eval_W |-> vc.eval_W, eval_X |-> vc.eval_X]
      BY <1>4, <2>4 DEF CircuitOK
    <2>6. CircuitOK'
      BY <1>1, <1>4, <2>2, <2>5 DEF CircuitOK
    <2> QED
      BY <2>2, <2>5, <2>6
  <1>6. Yields(Syn(OuterFilled), <<poly, current>>, inputs, <<poly>>, <<>>, checks)
    <2>1. Syn(OuterFilled) = Rounds(dims, Width, OuterFilled, n, state.vars_per_round,
                                    state.challenges_per_round, chals)
      BY Zenon DEF Syn, Synthesis
    <2> HIDE DEF poly, chals, n
    <2>2. Yields(Rounds(dims, Width, OuterFilled, n, state.vars_per_round,
                        state.challenges_per_round, chals),
                 <<poly, OuterClaim(n, state.vars_per_round, chals)>>,
                 IF n = 0 THEN <<>> ELSE <<Head(chals)>>, <<poly>>, <<>>,
                 {<<Claim(poly), OuterClaim(n, state.vars_per_round, chals)>>})
      <3> HIDE DEF current, inputs, checks
      <3> QED
        BY <1>2, <1>3, <1>5, OuterYields
    <2> QED
      BY <2>1, <2>2, Zenon
  <1> HIDE DEF inputs, checks, chals
  <1>7. Advanced(x, inputs, <<poly>>, <<>>, checks) /\ ChallengesGiven'
    <2> HIDE DEF poly, current
    <2> QED
      BY <1>1, <1>4, <1>6, Advance
  <1>8. /\ \A k \in 1 .. n : Ch(state', k) = Ch(state, k)
        /\ LastChallenge' = LastChallenge
        /\ x.challenges[1] = Ch(state', n + 1)
        /\ (\A check \in checks : check[1] = check[2]) => ChecksHold'
        /\ \A k \in 1 .. n :
             k <= dims.nx => state'.vars_per_round[k][1][2] = <<"outer", 1, k - 1>>
    <2>1. n < LastChallenge
      BY <1>2, <1>3
    <2> HIDE DEF poly
    <2> QED
      BY <1>1, <1>7, <2>1, ValueKept
  <1>9. current = claim
    <2>1. CASE n = 0
      BY <1>4, <2>1 DEF OuterClaim, Claimed
    <2>2. CASE n # 0
      <3>1. n >= 1 /\ n <= dims.nx /\ n <= LastChallenge /\ n \in 1 .. n
        BY <1>2, <1>3, <2>2
      <3>2. Head(chals) = Ch(state, n)
        BY <1>4, <3>1, ReadsLast DEF chals
      <3>3. state.vars_per_round[n][1][2] = <<"outer", 1, n - 1>>
        BY <1>4, <3>1 DEF HandedOn
      <3>4. claim = <<"eval", <<"outer", 1, n - 1>>, Ch(state, n)>>
        BY <1>4, <3>1 DEF Claimed
      <3>5. current = EvalAt(state.vars_per_round[n][1], Head(chals))
        BY <2>2 DEF OuterClaim
      <3> HIDE DEF current
      <3> QED
        BY <3>2, <3>3, <3>4, <3>5 DEF EvalAt
    <2> QED
      BY <2>1, <2>2
  <1>10. poly = <<"poly", <<"outer", 1, n>>, claim>>
    BY DEF RoundPoly, Poly
  <1>11. ChecksHold'
    <2>1. \A check \in checks : check[1] = check[2]
      BY <1>9, <1>10 DEF checks, Claim
    <2> QED
      BY <1>8, <2>1
  <1>12. /\ Now' = n + 1 /\ state'.vars_per_round[n + 1] = <<poly>>
    BY <1>7 DEF Advanced
  <1>13. Len(r_x') = n + 1 /\ (\A i \in 1 .. n : r_x'[i] = r_x[i]) /\ r_x'[n + 1] = x.challenges[1]
    BY <1>1, <1>2, Appended
  <1> HIDE DEF n, poly, current
  <1>14. Kept'
    <2>1. ASSUME NEW i \in 1 .. n + 1 PROVE r_x'[i] = Ch(state', i)
      <3>1. CASE i = n + 1
        BY <1>8, <1>13, <3>1
      <3>2. CASE i # n + 1
        <4>1. i \in 1 .. n
          BY <1>3, <3>2
        <4> QED
          BY <1>2, <1>4, <1>8, <1>13, <4>1 DEF Kept
      <3> QED
        BY <3>1, <3>2
    <2>2. ~(n + 1 > dims.nx)
      BY <1>2, <1>3
    <2> QED
      BY <1>1, <1>2, <1>12, <1>13, <2>1, <2>2 DEF Kept
  <1>15. HandedOn'
    <2>1. ASSUME NEW k \in 1 .. n + 1 PROVE state'.vars_per_round[k][1][2] = <<"outer", 1, k - 1>>
      <3>1. CASE k = n + 1
        <4>1. state'.vars_per_round[k][1] = poly /\ k - 1 = n
          BY <1>3, <1>12, <3>1
        <4> QED
          BY <1>10, <4>1
      <3>2. CASE k # n + 1
        <4>1. k \in 1 .. n /\ k <= dims.nx
          BY <1>2, <1>3, <3>2
        <4> QED
          BY <1>8, <4>1
      <3> QED
        BY <3>1, <3>2
    <2>2. /\ ~(n + 1 > dims.nx) /\ ~(n + 1 > LastChallenge) /\ ~(n + 1 >= dims.nx + 3)
          /\ \A k \in 1 .. n + 1 : ~(k > dims.nx + 1)
      BY <1>2, <1>3
    <2> QED
      BY <1>1, <1>8, <1>12, <2>1, <2>2 DEF HandedOn
  <1>16. Claimed'
    <2>1. claim' = <<"eval", <<"outer", 1, n>>, Ch(state', n + 1)>>
      BY <1>1, <1>2, <1>8 DEF EvalAt, RoundPoly, Poly
    <2>2. n + 1 # 0 /\ (n + 1) - 1 = n /\ n + 1 # dims.nx + 1 /\ ~(n + 1 > dims.nx + 1)
      BY <1>2, <1>3
    <2> QED
      BY <1>1, <1>8, <1>12, <2>1, <2>2 DEF Claimed
  <1>17. state'.inputs = state.inputs \o Given
    <2>1. inputs = Given
      <3>1. CASE n = 0
        BY <3>1 DEF inputs, Given, n
      <3>2. CASE n # 0
        <4>1. n >= 1 /\ n <= LastChallenge /\ n < LastChallenge /\ ~(n > LastChallenge)
          BY <1>2, <1>3, <3>2
        <4>2. Head(chals) = Ch(state, n)
          BY <1>4, <4>1, ReadsLast DEF chals, n
        <4> QED
          BY <3>2, <4>1, <4>2 DEF inputs, Given, n
      <3> QED
        BY <3>1, <3>2
    <2> QED
      BY <1>7, <2>1 DEF Advanced
  <1> QED
    BY <1>5, <1>7, <1>11, <1>14, <1>15, <1>16, <1>17 DEF ValueInv

(* The claims about the bound polynomials have the value of the last outer  *)
(* polynomial at the last challenge.                                        *)
LEMMA FinalValue ==
  ASSUME NEW branch, NEW rx, NEW ts
  PROVE  OuterFinalValue(<<"Az", branch, rx>>, <<"Bz", branch, rx>>, <<"Cz", branch, rx>>,
                         <<"tau", rx, ts>>)
           = <<"eval", <<"outer", branch, Len(rx) - 1>>, rx[Len(rx)]>>
  <1> DEFINE az == <<"Az", branch, rx>>
             tau == <<"tau", rx, ts>>
  <1>1. az[2] = branch /\ tau[2] = rx
    OBVIOUS
  <1>2. az # Zero /\ tau # Zero
    <2>1. az[1] = "Az" /\ tau[1] = "tau" /\ Zero[1] = "zero"
      BY DEF Zero
    <2> QED
      BY <2>1
  <1> HIDE DEF az, tau
  <1>3. OuterFinalValue(az, <<"Bz", branch, rx>>, <<"Cz", branch, rx>>, tau)
          = <<"eval", <<"outer", branch, Len(rx) - 1>>, rx[Len(rx)]>>
    <2>1. az = <<"Az", branch, rx>>
      BY DEF az
    <2> QED
      BY <1>1, <1>2, <2>1 DEF OuterFinalValue
  <1> QED
    BY <1>3 DEF az, tau

(* So does the final outer round. *)
LEMMA ValueOuterFinal ==
  ASSUME TypeInv, BoundInv, ValueInv, NEW x, OuterFinalTaken(x)
  PROVE  ValueInv' /\ state'.inputs = state.inputs \o Given
  <1> DEFINE n == Now
             chals == PassedChallenges(state, n)
             current == EvalAt(state.vars_per_round[n][1], Head(chals))
             held == <<<<"Az", 1, r_x>>, <<"Bz", 1, r_x>>, <<"Cz", 1, r_x>>, Tau>>
             value == OuterFinalValue(held[1], held[2], held[3], held[4])
             checks == {<<current, value>>}
  <1>1. /\ stage = "outer_final" /\ Rounded(OuterFinalFilled, x) /\ r' = x.challenges[1]
        /\ claim' = Joint(<<"Az", 1, r_x>>, <<"Bz", 1, r_x>>, <<"Cz", 1, r_x>>, x.challenges[1])
        /\ r_x' = r_x /\ r_y' = r_y /\ vc' = OuterFinalFilled /\ dims' = dims /\ taus' = taus
    BY DEF OuterFinalTaken, Rounded
  <1>2. n = dims.nx /\ Len(r_x) = n /\ Len(r_y) = 0 /\ IsSequence(r_x)
    BY <1>1 DEF TypeInv, Counts
  <1>3. /\ dims \in Dims /\ n \in Nat /\ n >= 1 /\ LastChallenge \in Nat
        /\ LastChallenge = n + 1 + dims.ny /\ dims.ny \in Nat /\ dims.ny >= 2
    BY <1>2, Numbers
  <1>4. /\ ChallengesGiven /\ Kept /\ HandedOn /\ Claimed /\ CircuitOK /\ ChecksHold
    BY DEF ValueInv
  <1>5. /\ OuterFinalFilled.claim_Az = held[1] /\ OuterFinalFilled.claim_Bz = held[2]
        /\ OuterFinalFilled.claim_Cz = held[3] /\ OuterFinalFilled.tau_at_rx = held[4]
        /\ CircuitOK'
    <2>1. OuterFinalFilled = [outer_polys |-> vc.outer_polys, claim_Az |-> <<"Az", 1, r_x>>,
             claim_Bz |-> <<"Bz", 1, r_x>>, claim_Cz |-> <<"Cz", 1, r_x>>, tau_at_rx |-> Tau,
             inner_polys |-> vc.inner_polys, eval_W |-> vc.eval_W, eval_X |-> vc.eval_X]
      <3>1. OuterFinalFilled = [vc EXCEPT !.claim_Az = <<"Az", 1, r_x>>,
               !.claim_Bz = <<"Bz", 1, r_x>>, !.claim_Cz = <<"Cz", 1, r_x>>, !.tau_at_rx = Tau]
        BY Zenon DEF OuterFinalFilled, Tau
      <3> QED
        BY <1>4, <3>1 DEF CircuitOK
    <2>2. CircuitOK'
      BY <1>1, <1>4, <2>1 DEF CircuitOK
    <2>3. /\ held[1] = <<"Az", 1, r_x>> /\ held[2] = <<"Bz", 1, r_x>>
          /\ held[3] = <<"Cz", 1, r_x>> /\ held[4] = Tau
      OBVIOUS
    <2> HIDE DEF held
    <2> QED
      BY <2>1, <2>2, <2>3
  <1>6. Yields(Syn(OuterFinalFilled), <<current>> \o held, <<Head(chals)>>, held, <<>>, checks)
    <2>1. Syn(OuterFinalFilled) = Rounds(dims, Width, OuterFinalFilled, n, state.vars_per_round,
                                         state.challenges_per_round, chals)
      BY Zenon DEF Syn, Synthesis
    <2>2. held = Held(OuterFinalFilled)
      <3>1. held = <<held[1], held[2], held[3], held[4]>>
        OBVIOUS
      <3> HIDE DEF held
      <3> QED
        BY <1>5, <3>1 DEF Held
    <2> HIDE DEF chals, n, held
    <2>3. Yields(Rounds(dims, Width, OuterFinalFilled, n, state.vars_per_round,
                        state.challenges_per_round, chals),
                 <<current>> \o Held(OuterFinalFilled), <<Head(chals)>>, Held(OuterFinalFilled),
                 <<>>,
                 {<<current, OuterFinalValue(OuterFinalFilled.claim_Az, OuterFinalFilled.claim_Bz,
                       OuterFinalFilled.claim_Cz, OuterFinalFilled.tau_at_rx)>>})
      <3> HIDE DEF current
      <3>1. current = EvalAt(state.vars_per_round[n][1], Head(chals))
        BY DEF current
      <3> QED
        BY <1>2, <1>3, <3>1, OuterFinalYields
    <2>4. value = OuterFinalValue(OuterFinalFilled.claim_Az, OuterFinalFilled.claim_Bz,
                                  OuterFinalFilled.claim_Cz, OuterFinalFilled.tau_at_rx)
      BY <1>5
    <2> HIDE DEF value, current
    <2> QED
      BY <2>1, <2>2, <2>3, <2>4, Zenon
  <1>7. Head(chals) = Ch(state, n) /\ n \in 1 .. n
    BY <1>3, <1>4, ReadsLast
  <1>8. current = value
    <2>1. state.vars_per_round[n][1][2] = <<"outer", 1, n - 1>>
      BY <1>2, <1>4, <1>7 DEF HandedOn
    <2>2. current = <<"eval", <<"outer", 1, n - 1>>, Ch(state, n)>>
      <3> HIDE DEF chals
      <3> QED
        BY <1>7, <2>1 DEF EvalAt
    <2>3. value = <<"eval", <<"outer", 1, Len(r_x) - 1>>, r_x[Len(r_x)]>>
      <3>1. value = OuterFinalValue(<<"Az", 1, r_x>>, <<"Bz", 1, r_x>>, <<"Cz", 1, r_x>>,
                                    <<"tau", r_x, taus>>)
        BY DEF Tau
      <3> QED
        BY <3>1, FinalValue
    <2>4. r_x[n] = Ch(state, n)
      BY <1>2, <1>4, <1>7 DEF Kept
    <2> HIDE DEF value, current
    <2> QED
      BY <1>2, <2>2, <2>3, <2>4
  <1>9. \A check \in checks : check[1] = check[2]
    BY <1>8
  <1> HIDE DEF checks, current, value, held, chals, n
  <1>10. Advanced(x, <<Head(chals)>>, held, <<>>, checks) /\ ChallengesGiven'
    BY <1>1, <1>4, <1>6, Advance
  <1>11. /\ \A k \in 1 .. n : Ch(state', k) = Ch(state, k)
         /\ LastChallenge' = LastChallenge
         /\ n < LastChallenge => x.challenges[1] = Ch(state', n + 1)
         /\ (\A check \in checks : check[1] = check[2]) => ChecksHold'
         /\ \A k \in 1 .. n :
              k <= dims.nx => state'.vars_per_round[k][1][2] = <<"outer", 1, k - 1>>
         /\ \A k \in 1 .. n :
              k > dims.nx + 1 /\ k <= LastChallenge =>
                state'.vars_per_round[k][1][2] = <<"inner", 1, k - (dims.nx + 2)>>
    BY <1>1, <1>10, ValueKept DEF n
  <1>12. /\ Now' = n + 1 /\ state'.vars_per_round[n + 1] = held
         /\ n < LastChallenge
    BY <1>3, <1>10 DEF Advanced, n
  <1>13. Kept'
    <2>1. \A i \in 1 .. Len(r_x) : r_x'[i] = Ch(state', i)
      BY <1>1, <1>2, <1>4, <1>11 DEF Kept
    <2>2. r' = Ch(state', n + 1)
      BY <1>1, <1>11, <1>12
    <2>3. \A j \in 1 .. Len(r_y') : FALSE
      BY <1>1, <1>2
    <2> QED
      BY <1>1, <1>2, <2>1, <2>2, <2>3 DEF Kept
  <1>14. HandedOn'
    <2>1. held = <<<<"Az", 1, r_x'>>, <<"Bz", 1, r_x'>>, <<"Cz", 1, r_x'>>, Tau'>>
      BY <1>1 DEF held, Tau
    <2>2. /\ ~(n + 1 > LastChallenge) /\ ~(n + 1 >= n + 3)
          /\ \A k \in 1 .. n + 1 : ~(k > n + 1) /\ (k <= n => k \in 1 .. n)
      BY <1>3
    <2> QED
      BY <1>1, <1>2, <1>11, <1>12, <2>1, <2>2 DEF HandedOn
  <1>15. Claimed'
    <2>1. n + 1 # 0 /\ ~(n + 1 <= n) /\ ~(n + 1 > n + 1)
      BY <1>3
    <2> QED
      BY <1>1, <1>2, <1>11, <1>12, <2>1 DEF Claimed
  <1>16. state'.inputs = state.inputs \o Given
    <2>1. n # 0 /\ n < LastChallenge /\ ~(n > LastChallenge)
      BY <1>3
    <2> QED
      BY <1>7, <1>10, <2>1 DEF Advanced, Given, n
  <1> QED
    BY <1>5, <1>9, <1>10, <1>11, <1>13, <1>14, <1>15, <1>16 DEF ValueInv

(* So does an inner round, the driver's own and those of prove_quad_zk. *)
LEMMA ValueInner ==
  ASSUME TypeInv, BoundInv, ValueInv, NEW x, InnerStep(x)
  PROVE  ValueInv' /\ state'.inputs = state.inputs \o Given
  <1> DEFINE n == Now
             nx == dims.nx
             m == Len(r_y)
             poly == RoundPoly("inner", m)
             chals == PassedChallenges(state, n)
             current == InnerClaim(dims, n, state.vars_per_round, chals)
             checks == {<<Claim(poly), current>>}
  <1>1. /\ stage \in {"inner_first", "inner"} /\ Rounded(InnerFilled(m), x)
        /\ r_y' = Append(r_y, x.challenges[1])
        /\ claim' = EvalAt(poly, x.challenges[1])
        /\ r_x' = r_x /\ r' = r /\ vc' = InnerFilled(m) /\ dims' = dims /\ taus' = taus
    BY DEF InnerStep, InnerTaken, Rounded
  <1>2. /\ n = nx + 1 + m /\ Len(r_x) = nx /\ m < dims.ny /\ IsSequence(r_y)
    BY <1>1, Numbers DEF TypeInv, Counts
  <1>3. /\ dims \in Dims /\ n \in Nat /\ n >= 1 /\ LastChallenge \in Nat /\ m \in Nat
        /\ LastChallenge = nx + 1 + dims.ny /\ dims.ny \in Nat /\ dims.ny >= 2
        /\ nx \in Nat /\ nx >= 1 /\ DOMAIN r_y = 1 .. m
    BY <1>2, Numbers
  <1>4. /\ ChallengesGiven /\ Kept /\ HandedOn /\ Claimed /\ CircuitOK /\ ChecksHold
    BY DEF ValueInv
  <1> HIDE DEF n, m, nx
  <1>5. /\ n \in 1 .. n /\ n <= LastChallenge /\ n < LastChallenge /\ n > nx
        /\ n < nx + 1 + dims.ny /\ n - (nx + 1) + 1 = m + 1 /\ nx + 1 \in 1 .. n
        /\ n + 1 - (nx + 2) = m
    BY <1>2, <1>3
  <1>6. InnerFilled(m).inner_polys[m + 1] = poly /\ CircuitOK'
    <2>1. m + 1 \in DOMAIN vc.inner_polys
      BY <1>2, <1>3, <1>4 DEF CircuitOK
    <2> DEFINE polys == [vc.inner_polys EXCEPT ![m + 1] = poly]
    <2>2. polys[m + 1] = poly /\ DOMAIN polys = DOMAIN vc.inner_polys
      BY <2>1
    <2>3. InnerFilled(m) = [vc EXCEPT !.inner_polys[m + 1] = poly]
      BY Zenon DEF InnerFilled, m
    <2> HIDE DEF poly
    <2>4. InnerFilled(m) = [vc EXCEPT !.inner_polys = polys]
      BY <2>3
    <2> HIDE DEF polys
    <2>5. InnerFilled(m) = [outer_polys |-> vc.outer_polys, claim_Az |-> vc.claim_Az,
             claim_Bz |-> vc.claim_Bz, claim_Cz |-> vc.claim_Cz, tau_at_rx |-> vc.tau_at_rx,
             inner_polys |-> polys, eval_W |-> vc.eval_W, eval_X |-> vc.eval_X]
      BY <1>4, <2>4 DEF CircuitOK
    <2>6. CircuitOK'
      BY <1>1, <1>4, <2>2, <2>5 DEF CircuitOK
    <2> QED
      BY <2>2, <2>5, <2>6
  <1>7. Yields(Syn(InnerFilled(m)), <<poly, current>>, <<Head(chals)>>, <<poly>>, <<Head(chals)>>,
               checks)
    <2>1. Syn(InnerFilled(m)) = Rounds(dims, Width, InnerFilled(m), n, state.vars_per_round,
                                       state.challenges_per_round, chals)
      BY Zenon DEF Syn, Synthesis, n
    <2> HIDE DEF poly, chals
    <2>2. Yields(Rounds(dims, Width, InnerFilled(m), n, state.vars_per_round,
                        state.challenges_per_round, chals),
                 <<poly, InnerClaim(dims, n, state.vars_per_round, chals)>>, <<Head(chals)>>,
                 <<poly>>, <<Head(chals)>>,
                 {<<Claim(poly), InnerClaim(dims, n, state.vars_per_round, chals)>>})
      <3> HIDE DEF current, checks
      <3>1. poly = InnerFilled(m).inner_polys[n - (dims.nx + 1) + 1] /\ n > dims.nx
            /\ n < dims.nx + 1 + dims.ny
        BY <1>5, <1>6 DEF nx
      <3> QED
        BY <1>3, <3>1, InnerYields
    <2> QED
      BY <2>1, <2>2, Zenon
  <1>8. Head(chals) = Ch(state, n)
    BY <1>3, <1>4, <1>5, ReadsLast DEF n
  <1> HIDE DEF chals
  <1>9. current = claim
    <2>1. CASE n = nx + 1
      <3>1. state.vars_per_round[nx + 1] = <<<<"Az", 1, r_x>>, <<"Bz", 1, r_x>>, <<"Cz", 1, r_x>>, Tau>>
        BY <1>4, <1>5 DEF HandedOn, n, nx
      <3>2. claim = Joint(<<"Az", 1, r_x>>, <<"Bz", 1, r_x>>, <<"Cz", 1, r_x>>, Ch(state, n))
        BY <1>4, <2>1 DEF Claimed, n, nx
      <3>3. current = Joint(state.vars_per_round[nx + 1][1], state.vars_per_round[nx + 1][2],
                            state.vars_per_round[nx + 1][3], Head(chals))
        BY <2>1 DEF InnerClaim, nx
      <3> HIDE DEF current
      <3> QED
        BY <1>8, <3>1, <3>2, <3>3
    <2>2. CASE n # nx + 1
      <3>1. n > nx + 1
        BY <1>2, <1>3, <2>2
      <3>2. state.vars_per_round[n][1][2] = <<"inner", 1, n - (nx + 2)>>
        BY <1>4, <1>5, <3>1 DEF HandedOn, n, nx
      <3>3. claim = <<"eval", <<"inner", 1, n - (nx + 2)>>, Ch(state, n)>>
        BY <1>4, <1>5, <3>1 DEF Claimed, n, nx
      <3>4. current = EvalAt(state.vars_per_round[n][1], Head(chals))
        BY <2>2 DEF InnerClaim, nx
      <3> HIDE DEF current
      <3> QED
        BY <1>8, <3>2, <3>3, <3>4 DEF EvalAt
    <2> QED
      BY <2>1, <2>2
  <1>10. poly = <<"poly", <<"inner", 1, m>>, claim>>
    BY DEF RoundPoly, Poly
  <1>11. \A check \in checks : check[1] = check[2]
    BY <1>9, <1>10 DEF Claim
  <1> HIDE DEF checks, current, poly
  <1>12. Advanced(x, <<Head(chals)>>, <<poly>>, <<Head(chals)>>, checks) /\ ChallengesGiven'
    BY <1>1, <1>4, <1>7, Advance
  <1>13. /\ \A k \in 1 .. Now : Ch(state', k) = Ch(state, k)
         /\ LastChallenge' = LastChallenge
         /\ Now < LastChallenge => x.challenges[1] = Ch(state', Now + 1)
         /\ (\A check \in checks : check[1] = check[2]) => ChecksHold'
         /\ \A k \in 1 .. Now :
              k <= dims.nx => state'.vars_per_round[k][1][2] = <<"outer", 1, k - 1>>
         /\ \A k \in 1 .. Now :
              k > dims.nx + 1 /\ k <= LastChallenge =>
                state'.vars_per_round[k][1][2] = <<"inner", 1, k - (dims.nx + 2)>>
    BY <1>1, <1>12, ValueKept
  <1>14. /\ Now' = n + 1 /\ state'.vars_per_round[n + 1] = <<poly>>
         /\ state'.challenges_per_round[n + 1] = <<Head(chals)>>
         /\ \A k \in 1 .. n : /\ state'.vars_per_round[k] = state.vars_per_round[k]
                              /\ state'.challenges_per_round[k] = state.challenges_per_round[k]
         /\ x.challenges[1] = Ch(state', n + 1)
    BY <1>5, <1>12, <1>13 DEF Advanced, n
  <1>15. Len(r_y') = m + 1 /\ (\A i \in 1 .. m : r_y'[i] = r_y[i]) /\ r_y'[m + 1] = x.challenges[1]
    BY <1>1, <1>2, Appended DEF m
  <1>16. Kept'
    <2>1. \A i \in 1 .. Len(r_x') : r_x'[i] = Ch(state', i)
      <3>1. \A i \in 1 .. nx : i \in 1 .. n
        BY <1>2, <1>3
      <3> QED
        BY <1>1, <1>2, <1>4, <1>13, <3>1 DEF Kept, n, nx
    <2>2. r' = Ch(state', nx + 1)
      BY <1>1, <1>4, <1>5, <1>13 DEF Kept, n, nx
    <2>3. ASSUME NEW j \in 1 .. m + 1 PROVE r_y'[j] = Ch(state', nx + 1 + j)
      <3>1. CASE j = m + 1
        <4>1. nx + 1 + j = n + 1
          BY <1>2, <1>3, <3>1
        <4> QED
          BY <1>14, <1>15, <3>1, <4>1
      <3>2. CASE j # m + 1
        <4>1. j \in 1 .. m /\ nx + 1 + j \in 1 .. n
          BY <1>2, <1>3, <3>2
        <4>2. r_y[j] = Ch(state, nx + 1 + j)
          BY <1>4, <4>1 DEF Kept, m, nx
        <4> QED
          BY <1>13, <1>15, <4>1, <4>2 DEF n
      <3> QED
        BY <3>1, <3>2
    <2> QED
      BY <1>1, <1>15, <2>1, <2>2, <2>3 DEF Kept, nx
  <1>17. HandedOn'
    <2>1. ASSUME NEW k \in 1 .. n + 1
          PROVE  /\ k <= nx => state'.vars_per_round[k][1][2] = <<"outer", 1, k - 1>>
                 /\ k > nx + 1 /\ k <= LastChallenge =>
                      state'.vars_per_round[k][1][2] = <<"inner", 1, k - (nx + 2)>>
      <3>1. CASE k = n + 1
        <4>1. ~(k <= nx) /\ k - (nx + 2) = m
          BY <1>3, <1>5, <3>1
        <4>2. state'.vars_per_round[k][1] = poly
          BY <1>14, <3>1
        <4>3. state'.vars_per_round[k][1][2] = <<"inner", 1, m>>
          BY <1>10, <4>2
        <4> QED
          BY <4>1, <4>3
      <3>2. CASE k # n + 1
        <4>1. k \in 1 .. n
          BY <1>3, <3>2
        <4> QED
          BY <1>13, <4>1 DEF n, nx
      <3> QED
        BY <3>1, <3>2
    <2>2. state'.vars_per_round[nx + 1]
            = <<<<"Az", 1, r_x'>>, <<"Bz", 1, r_x'>>, <<"Cz", 1, r_x'>>, Tau'>>
      <3>1. Tau' = Tau
        BY <1>1 DEF Tau
      <3>2. state.vars_per_round[nx + 1] = <<<<"Az", 1, r_x>>, <<"Bz", 1, r_x>>, <<"Cz", 1, r_x>>, Tau>>
        BY <1>4, <1>5 DEF HandedOn, n, nx
      <3> QED
        BY <1>1, <1>5, <1>14, <3>1, <3>2
    <2>3. n + 1 >= nx + 3 => state'.challenges_per_round[nx + 3] = <<Ch(state', nx + 2)>>
      <3>1. CASE n = nx + 2
        <4>1. nx + 3 = n + 1 /\ nx + 2 = n
          BY <1>3, <3>1
        <4> QED
          BY <1>5, <1>8, <1>13, <1>14, <4>1 DEF n
      <3>2. CASE n >= nx + 3
        <4>1. nx + 3 \in 1 .. n /\ nx + 2 \in 1 .. n
          BY <1>3, <3>2
        <4>2. state.challenges_per_round[nx + 3] = <<Ch(state, nx + 2)>>
          BY <1>4, <3>2 DEF HandedOn, n, nx
        <4> QED
          BY <1>13, <1>14, <4>1, <4>2 DEF n
      <3> QED
        BY <1>3, <3>1, <3>2
    <2>4. ~(n + 1 > LastChallenge)
      BY <1>3, <1>5
    <2> QED
      BY <1>1, <1>13, <1>14, <2>1, <2>2, <2>3, <2>4 DEF HandedOn, nx
  <1>18. Claimed'
    <2>1. claim' = <<"eval", <<"inner", 1, m>>, Ch(state', n + 1)>>
      BY <1>1, <1>10, <1>14 DEF EvalAt
    <2>2. n + 1 # 0 /\ ~(n + 1 <= nx) /\ n + 1 # nx + 1
      BY <1>3, <1>5
    <2>3. Now' = n + 1 /\ dims'.nx = nx /\ Now' - (dims'.nx + 2) = m
      <3>1. Now' = n + 1 /\ dims'.nx = nx
        BY <1>1, <1>14 DEF nx
      <3>2. n + 1 - (nx + 2) = m
        BY <1>5
      <3> QED
        BY <1>3, <3>1, <3>2
    <2> QED
      BY <2>1, <2>2, <2>3 DEF Claimed
  <1>19. state'.inputs = state.inputs \o Given
    <2>1. n # 0 /\ n < LastChallenge /\ ~(n > LastChallenge)
      BY <1>3, <1>5
    <2> QED
      BY <1>8, <1>12, <2>1 DEF Advanced, Given, n
  <1> QED
    BY <1>6, <1>11, <1>12, <1>13, <1>16, <1>17, <1>18, <1>19 DEF ValueInv

(* So does the final inner round, which reads the rounds before it. *)
LEMMA ValueInnerFinal ==
  ASSUME TypeInv, BoundInv, ValueInv, NEW x, InnerFinalTaken(x)
  PROVE  ValueInv' /\ state'.inputs = state.inputs \o Given
  <1> DEFINE n == Now
             nx == dims.nx
             chals == PassedChallenges(state, n)
             current == EvalAt(state.vars_per_round[n][1], Head(chals))
             tau == state.vars_per_round[nx + 1][4]
             ry0 == state.challenges_per_round[nx + 3][1]
             inputs == <<Head(chals), tau, EvalX, Quotient(current, EvalW, EvalX, ry0)>>
  <1>1. /\ stage = "inner_final" /\ Rounded(InnerFinalFilled, x)
        /\ r_x' = r_x /\ r' = r /\ r_y' = r_y /\ claim' = claim
        /\ vc' = InnerFinalFilled /\ dims' = dims /\ taus' = taus
    BY DEF InnerFinalTaken, Rounded
  <1>2. /\ n = nx + 1 + dims.ny /\ Len(r_x) = nx /\ Len(r_y) = dims.ny
    BY <1>1, Numbers DEF TypeInv, Counts
  <1>3. /\ dims \in Dims /\ n \in Nat /\ n >= 1 /\ LastChallenge = n
        /\ dims.ny \in Nat /\ dims.ny >= 2 /\ nx \in Nat /\ nx >= 1
        /\ DOMAIN r_x = 1 .. nx
    BY <1>2, Numbers
  <1>4. /\ ChallengesGiven /\ Kept /\ HandedOn /\ Claimed /\ CircuitOK /\ ChecksHold
    BY DEF ValueInv
  <1> HIDE DEF n, nx
  <1>5. /\ n \in 1 .. n /\ n > nx + 1 /\ nx + 1 \in 1 .. n /\ nx + 2 \in 1 .. n
        /\ nx + 3 \in 1 .. n /\ n >= nx + 3 /\ n > nx /\ n - (nx + 2) = dims.ny - 1
        /\ n # 0 /\ ~(n < n) /\ ~(n > n)
    BY <1>2, <1>3
  <1>6. InnerFinalFilled.eval_W = EvalW /\ InnerFinalFilled.eval_X = EvalX /\ CircuitOK'
    <2>1. InnerFinalFilled = [vc EXCEPT !.eval_W = EvalW, !.eval_X = EvalX]
      BY Zenon DEF InnerFinalFilled, EvalW, EvalX
    <2>2. InnerFinalFilled = [outer_polys |-> vc.outer_polys, claim_Az |-> vc.claim_Az,
             claim_Bz |-> vc.claim_Bz, claim_Cz |-> vc.claim_Cz, tau_at_rx |-> vc.tau_at_rx,
             inner_polys |-> vc.inner_polys, eval_W |-> EvalW, eval_X |-> EvalX]
      BY <1>4, <2>1 DEF CircuitOK
    <2>3. CircuitOK'
      BY <1>1, <1>4, <2>2 DEF CircuitOK
    <2> QED
      BY <2>2, <2>3
  <1>7. Yields(Syn(InnerFinalFilled), <<current, EvalW>>, inputs, <<EvalW>>, <<>>, {})
    <2>1. Syn(InnerFinalFilled) = Rounds(dims, Width, InnerFinalFilled, n, state.vars_per_round,
                                         state.challenges_per_round, chals)
      BY Zenon DEF Syn, Synthesis, n
    <2> HIDE DEF chals
    <2>2. Yields(Rounds(dims, Width, InnerFinalFilled, n, state.vars_per_round,
                        state.challenges_per_round, chals),
                 <<current, InnerFinalFilled.eval_W>>,
                 <<Head(chals), state.vars_per_round[dims.nx + 1][4], InnerFinalFilled.eval_X,
                   Quotient(current, InnerFinalFilled.eval_W, InnerFinalFilled.eval_X,
                            state.challenges_per_round[dims.nx + 3][1])>>,
                 <<InnerFinalFilled.eval_W>>, <<>>, {})
      <3>1. current = EvalAt(state.vars_per_round[n][1], Head(chals))
        OBVIOUS
      <3> HIDE DEF current, inputs
      <3>2. n = dims.nx + 1 + dims.ny
        BY <1>2 DEF nx
      <3> QED
        BY <1>3, <3>1, <3>2, InnerFinalYields
    <2> HIDE DEF current
    <2> QED
      BY <1>6, <2>1, <2>2, Zenon DEF nx
  <1>8. Head(chals) = Ch(state, n)
    BY <1>3, <1>4, <1>5, ReadsLast DEF n
  <1> HIDE DEF chals
  <1>9. inputs = Given
    <2>1. tau = Tau
      <3>1. state.vars_per_round[nx + 1]
              = <<<<"Az", 1, r_x>>, <<"Bz", 1, r_x>>, <<"Cz", 1, r_x>>, Tau>>
        BY <1>4, <1>5 DEF HandedOn, n, nx
      <3> HIDE DEF tau
      <3> QED
        BY <3>1 DEF tau
    <2>2. ry0 = Ch(state, nx + 2)
      <3>1. state.challenges_per_round[nx + 3] = <<Ch(state, nx + 2)>>
        BY <1>4, <1>5 DEF HandedOn, n, nx
      <3> QED
        BY <3>1
    <2>3. current = LastEval
      <3>1. state.vars_per_round[n][1][2] = <<"inner", 1, n - (nx + 2)>>
        BY <1>3, <1>4, <1>5 DEF HandedOn, n, nx
      <3>2. current = <<"eval", <<"inner", 1, dims.ny - 1>>, Ch(state, n)>>
        BY <1>5, <1>8, <3>1 DEF EvalAt
      <3> HIDE DEF current
      <3> QED
        BY <1>3, <3>2 DEF LastEval
    <2>4. Given = <<Ch(state, n), PublicValues[1], PublicValues[2], PublicValues[3]>>
      BY <1>3, <1>5 DEF Given, n
    <2>5. /\ PublicValues[1] = Tau /\ PublicValues[2] = EvalX
          /\ PublicValues[3] = Quotient(LastEval, EvalW, EvalX, Ch(state, nx + 2))
      BY DEF PublicValues, nx
    <2> HIDE DEF current, tau, ry0
    <2> QED
      BY <1>8, <2>1, <2>2, <2>3, <2>4, <2>5
  <1> HIDE DEF current, inputs, tau, ry0
  <1>10. Advanced(x, inputs, <<EvalW>>, <<>>, {}) /\ ChallengesGiven'
    BY <1>1, <1>4, <1>7, Advance
  <1>11. /\ \A k \in 1 .. Now : Ch(state', k) = Ch(state, k)
         /\ LastChallenge' = LastChallenge
         /\ Now < LastChallenge => x.challenges[1] = Ch(state', Now + 1)
         /\ (\A check \in {} : check[1] = check[2]) => ChecksHold'
         /\ \A k \in 1 .. Now :
              k <= dims.nx => state'.vars_per_round[k][1][2] = <<"outer", 1, k - 1>>
         /\ \A k \in 1 .. Now :
              k > dims.nx + 1 /\ k <= LastChallenge =>
                state'.vars_per_round[k][1][2] = <<"inner", 1, k - (dims.nx + 2)>>
    BY <1>1, <1>10, ValueKept
  <1>12. /\ Now' = n + 1 /\ state'.vars_per_round[n + 1] = <<EvalW>>
         /\ \A k \in 1 .. n : /\ state'.vars_per_round[k] = state.vars_per_round[k]
                              /\ state'.challenges_per_round[k] = state.challenges_per_round[k]
         /\ state'.inputs = state.inputs \o inputs
    BY <1>10 DEF Advanced, n
  <1>13. ChecksHold'
    BY <1>11
  <1>14. Kept'
    <2>1. \A i \in 1 .. nx : i \in 1 .. n
      BY <1>2, <1>3
    <2>2. \A j \in 1 .. dims.ny : nx + 1 + j \in 1 .. n
      BY <1>2, <1>3
    <2> QED
      BY <1>1, <1>2, <1>4, <1>5, <1>11, <2>1, <2>2 DEF Kept, n, nx
  <1>15. HandedOn'
    <2>1. /\ \A k \in 1 .. n + 1 : k <= nx => k \in 1 .. n
          /\ \A k \in 1 .. n + 1 : k <= n => k \in 1 .. n
      BY <1>3, <1>5
    <2>2. state'.vars_per_round[nx + 1]
            = <<<<"Az", 1, r_x'>>, <<"Bz", 1, r_x'>>, <<"Cz", 1, r_x'>>, Tau'>>
      <3>1. Tau' = Tau
        BY <1>1 DEF Tau
      <3>2. state.vars_per_round[nx + 1] = <<<<"Az", 1, r_x>>, <<"Bz", 1, r_x>>, <<"Cz", 1, r_x>>, Tau>>
        BY <1>4, <1>5 DEF HandedOn, n, nx
      <3> QED
        BY <1>1, <1>5, <1>12, <3>1, <3>2
    <2>3. state'.challenges_per_round[nx + 3] = <<Ch(state', nx + 2)>>
      <3>1. state.challenges_per_round[nx + 3] = <<Ch(state, nx + 2)>>
        BY <1>4, <1>5 DEF HandedOn, n, nx
      <3> QED
        BY <1>5, <1>11, <1>12, <3>1 DEF n
    <2>4. EvalW' = EvalW /\ vc'.eval_W = EvalW
      BY <1>1, <1>6 DEF EvalW
    <2> QED
      BY <1>1, <1>3, <1>11, <1>12, <2>1, <2>2, <2>3, <2>4 DEF HandedOn, n, nx
  <1>16. Claimed'
    <2>1. n + 1 # 0 /\ ~(n + 1 <= nx) /\ n + 1 # nx + 1 /\ ~(n + 1 <= n)
      BY <1>3, <1>5
    <2> QED
      BY <1>1, <1>3, <1>11, <1>12, <2>1 DEF Claimed, nx
  <1> QED
    BY <1>6, <1>9, <1>10, <1>12, <1>13, <1>14, <1>15, <1>16 DEF ValueInv

(* So does the round that commits to eval_W. *)
LEMMA ValueCommit ==
  ASSUME TypeInv, BoundInv, ValueInv, NEW x, CommitTaken(x)
  PROVE  ValueInv' /\ state'.inputs = state.inputs \o Given
  <1> DEFINE n == Now
             nx == dims.nx
             chals == PassedChallenges(state, n)
             committed == state.vars_per_round[n][1]
             checks == {<<EvalW, committed>>}
  <1>1. /\ stage = "commit_w" /\ Rounded(vc, x)
        /\ r_x' = r_x /\ r' = r /\ r_y' = r_y /\ claim' = claim
        /\ vc' = vc /\ dims' = dims /\ taus' = taus
    BY DEF CommitTaken, Rounded
  <1>2. /\ n = nx + dims.ny + 2 /\ Len(r_x) = nx /\ Len(r_y) = dims.ny
    BY <1>1, Numbers DEF TypeInv, Counts
  <1>3. /\ dims \in Dims /\ n \in Nat /\ LastChallenge + 1 = n /\ LastChallenge \in Nat
        /\ dims.ny \in Nat /\ dims.ny >= 2 /\ nx \in Nat /\ nx >= 1
        /\ DOMAIN r_x = 1 .. nx
    BY <1>2, Numbers
  <1>4. /\ ChallengesGiven /\ Kept /\ HandedOn /\ Claimed /\ CircuitOK /\ ChecksHold
    BY DEF ValueInv
  <1> HIDE DEF n, nx
  <1>5. /\ n \in 1 .. n /\ n > nx + 1 /\ nx + 1 \in 1 .. n /\ nx + 2 \in 1 .. n
        /\ nx + 3 \in 1 .. n /\ n >= nx + 3 /\ n > nx /\ n > LastChallenge /\ n # 0
    BY <1>2, <1>3
  <1>6. /\ state.vars_per_round[n] = <<EvalW>> /\ vc.eval_W = EvalW
    BY <1>3, <1>4, <1>5 DEF HandedOn, n
  <1>7. committed = EvalW
    BY <1>6
  <1> HIDE DEF committed
  <1>8. Yields(Syn(vc), WithZeros(EvalW, Width), <<>>, <<EvalW>>, <<>>, checks)
    <2>1. Syn(vc) = Rounds(dims, Width, vc, n, state.vars_per_round,
                           state.challenges_per_round, chals)
      BY Zenon DEF Syn, Synthesis, n
    <2> HIDE DEF chals
    <2>2. Yields(Rounds(dims, Width, vc, n, state.vars_per_round,
                        state.challenges_per_round, chals),
                 WithZeros(vc.eval_W, Width), <<>>, <<vc.eval_W>>, <<>>,
                 {<<vc.eval_W, state.vars_per_round[n][1]>>})
      <3>1. n = dims.nx + dims.ny + 2
        BY <1>2 DEF nx
      <3> QED
        BY <1>3, <3>1, CommitYields
    <2> QED
      BY <1>6, <2>1, <2>2, Zenon DEF committed
  <1>9. \A check \in checks : check[1] = check[2]
    BY <1>7
  <1> HIDE DEF checks, chals
  <1>10. Advanced(x, <<>>, <<EvalW>>, <<>>, checks) /\ ChallengesGiven'
    BY <1>1, <1>4, <1>8, Advance
  <1>11. /\ \A k \in 1 .. Now : Ch(state', k) = Ch(state, k)
         /\ LastChallenge' = LastChallenge
         /\ Now < LastChallenge => x.challenges[1] = Ch(state', Now + 1)
         /\ (\A check \in checks : check[1] = check[2]) => ChecksHold'
         /\ \A k \in 1 .. Now :
              k <= dims.nx => state'.vars_per_round[k][1][2] = <<"outer", 1, k - 1>>
         /\ \A k \in 1 .. Now :
              k > dims.nx + 1 /\ k <= LastChallenge =>
                state'.vars_per_round[k][1][2] = <<"inner", 1, k - (dims.nx + 2)>>
    BY <1>1, <1>10, ValueKept
  <1>12. /\ Now' = n + 1
         /\ \A k \in 1 .. n : /\ state'.vars_per_round[k] = state.vars_per_round[k]
                              /\ state'.challenges_per_round[k] = state.challenges_per_round[k]
         /\ state'.inputs = state.inputs \o <<>>
    BY <1>10 DEF Advanced, n
  <1>13. ChecksHold'
    BY <1>9, <1>11
  <1>14. Kept'
    <2>1. \A i \in 1 .. nx : i \in 1 .. n
      BY <1>2, <1>3
    <2>2. \A j \in 1 .. dims.ny : nx + 1 + j \in 1 .. n
      BY <1>2, <1>3
    <2> QED
      BY <1>1, <1>2, <1>4, <1>5, <1>11, <2>1, <2>2 DEF Kept, n, nx
  <1>15. HandedOn'
    <2>1. /\ \A k \in 1 .. n + 1 : k <= nx => k \in 1 .. n
          /\ \A k \in 1 .. n + 1 : k <= LastChallenge => k \in 1 .. n
      BY <1>3, <1>5
    <2>2. state'.vars_per_round[nx + 1]
            = <<<<"Az", 1, r_x'>>, <<"Bz", 1, r_x'>>, <<"Cz", 1, r_x'>>, Tau'>>
      <3>1. Tau' = Tau
        BY <1>1 DEF Tau
      <3>2. state.vars_per_round[nx + 1] = <<<<"Az", 1, r_x>>, <<"Bz", 1, r_x>>, <<"Cz", 1, r_x>>, Tau>>
        BY <1>4, <1>5 DEF HandedOn, n, nx
      <3> QED
        BY <1>1, <1>5, <1>12, <3>1, <3>2
    <2>3. state'.challenges_per_round[nx + 3] = <<Ch(state', nx + 2)>>
      <3>1. state.challenges_per_round[nx + 3] = <<Ch(state, nx + 2)>>
        BY <1>4, <1>5 DEF HandedOn, n, nx
      <3> QED
        BY <1>5, <1>11, <1>12, <3>1 DEF n
    <2>4. EvalW' = EvalW /\ vc'.eval_W = EvalW /\ state'.vars_per_round[n] = <<EvalW>>
      BY <1>1, <1>5, <1>6, <1>12 DEF EvalW
    <2> QED
      BY <1>1, <1>3, <1>11, <1>12, <2>1, <2>2, <2>3, <2>4 DEF HandedOn, n, nx
  <1>16. Claimed'
    <2>1. n + 1 # 0 /\ ~(n + 1 <= nx) /\ n + 1 # nx + 1 /\ ~(n + 1 <= LastChallenge)
      BY <1>3, <1>5
    <2> QED
      BY <1>1, <1>3, <1>11, <1>12, <2>1 DEF Claimed, nx
  <1>17. CircuitOK'
    BY <1>1, <1>4 DEF CircuitOK
  <1>18. Given = <<>>
    BY <1>5 DEF Given, n
  <1> QED
    BY <1>10, <1>12, <1>13, <1>14, <1>15, <1>16, <1>17, <1>18 DEF ValueInv

(* What the other actions leave of it. *)
LEMMA ValueOthers ==
  ASSUME TypeInv, ValueInv,
         \/ Start \/ DivisionByZero \/ Finalize \/ StartVerify \/ VerifyRound \/ Conclude
         \/ UNCHANGED vars
  PROVE  ValueInv'
  <1>1. UNCHANGED <<shape, dims, vc, state, r_x, r, r_y, claim>>
    BY OthersUnchanged
  <1>2. /\ ChallengesGiven /\ Kept /\ HandedOn /\ Claimed /\ CircuitOK /\ ChecksHold
    BY DEF ValueInv
  <1>3. /\ Now' = Now /\ LastChallenge' = LastChallenge /\ EvalW' = EvalW
        /\ \A k : Ch(state', k) = Ch(state, k)
    BY <1>1 DEF Now, CurrentRound, LastChallenge, EvalW, Ch
  <1>4. Now > dims.nx => Tau' = Tau
    <2>1. CASE Start
      <3>1. Now = 0
        BY <2>1 DEF Start, TypeInv, Counts
      <3> QED
        BY <3>1, Numbers
    <2>2. CASE ~Start
      <3>1. taus' = taus
        BY <2>2, Zenon DEF DivisionByZero, Finalize, StartVerify, VerifyRound, Conclude, vars
      <3> QED
        BY <1>1, <3>1 DEF Tau
    <2> QED
      BY <2>1, <2>2
  <1>5. ChallengesGiven' /\ Kept' /\ Claimed' /\ CircuitOK' /\ ChecksHold'
    BY <1>1, <1>2, <1>3 DEF ChallengesGiven, Kept, Claimed, CircuitOK, ChecksHold
  <1>6. HandedOn'
    BY <1>1, <1>2, <1>3, <1>4 DEF HandedOn
  <1> QED
    BY <1>5, <1>6 DEF ValueInv

(* Each round keeps it, and allocates the public inputs expected of it. *)
LEMMA ValueRound ==
  ASSUME TypeInv, BoundInv, ValueInv,
         OuterRound \/ OuterFinal \/ InnerFirst \/ InnerRound \/ InnerFinal \/ CommitW
  PROVE  ValueInv' /\ state'.inputs = state.inputs \o Given
  <1>1. IsSequence(r_y) /\ (stage = "inner_first" => Len(r_y) = 0)
    BY DEF TypeInv, Counts
  <1>2. CASE OuterRound
    BY <1>2, OuterRoundIs, ValueOuter
  <1>3. CASE OuterFinal
    BY <1>3, OuterFinalIs, ValueOuterFinal
  <1>4. CASE InnerFirst \/ InnerRound
    BY <1>1, <1>4, InnerStepIs, ValueInner
  <1>5. CASE InnerFinal
    BY <1>5, InnerFinalIs, ValueInnerFinal
  <1>6. CASE CommitW
    BY <1>6, CommitWIs, ValueCommit
  <1> QED
    BY <1>2, <1>3, <1>4, <1>5, <1>6

(* Every step keeps it. *)
LEMMA ValueNext ==
  ASSUME TypeInv, BoundInv, ValueInv, [Next]_vars
  PROVE  ValueInv'
  <1>1. CASE OuterRound \/ OuterFinal \/ InnerFirst \/ InnerRound \/ InnerFinal \/ CommitW
    BY <1>1, ValueRound
  <1>2. CASE \/ Start \/ DivisionByZero \/ Finalize \/ StartVerify \/ VerifyRound \/ Conclude
             \/ UNCHANGED vars
    BY <1>2, ValueOthers
  <1> QED
    BY <1>1, <1>2 DEF Next

(* The values of an honest prover satisfy every equation of the circuit,    *)
(* whatever the numbers of rounds.                                          *)
THEOREM HonestValuesSatisfy == Spec => []ChecksHold
  <1>1. Init => TypeInv /\ BoundInv /\ ValueInv
    BY TypeInit, BoundInit, ValueInit
  <1>2. TypeInv /\ BoundInv /\ ValueInv /\ [Next]_vars => (TypeInv /\ BoundInv /\ ValueInv)'
    BY TypeNext, BoundNext, ValueNext
  <1>3. ValueInv => ChecksHold
    BY DEF ValueInv
  <1> QED
    BY <1>1, <1>2, <1>3, PTL DEF Spec

-----------------------------------------------------------------------------
(* The public input *)

(* No round of the driver is refused. *)
LEMMA RoundsAccepted ==
  ASSUME TypeInv, stage \in RoundStages
  PROVE  Accepts
  <1>1. /\ dims \in Dims /\ ShapeIs(shape, dims) /\ Counts
    BY ShapeFacts DEF TypeInv
  <1>2. /\ dims.nx \in Nat /\ dims.nx >= 1 /\ dims.ny \in Nat /\ dims.ny >= 2
        /\ shape.num_rounds = dims.nx + dims.ny + 3 /\ NumRounds(dims) = dims.nx + dims.ny + 3
        /\ idx_inner_final(dims) = dims.nx + 1 + dims.ny
        /\ Len(r_x) \in Nat /\ Len(r_y) \in Nat
    BY <1>1, Numbers, Indices DEF ShapeIs
  <1> DEFINE n == Now
             m == Len(r_y)
  <1>3. /\ DriverRound = n /\ n \in Nat /\ n < dims.nx + dims.ny + 3
        /\ stage \notin {"inner_final", "commit_w"} => n < dims.nx + 1 + dims.ny
    <2>1. /\ stage = "outer" => DriverRound = Len(r_x)
          /\ stage = "outer_final" => DriverRound = dims.nx
          /\ stage = "inner_first" => DriverRound = dims.nx + 1
          /\ stage = "inner" => DriverRound = dims.nx + 2 + Len(r_y) - 1
          /\ stage = "inner_final" => DriverRound = (dims.nx + 1) + dims.ny
          /\ stage = "commit_w" => DriverRound = dims.nx + 1 + dims.ny + 1
      BY DEF DriverRound, InnerStartRound, EvalWCommitRound
    <2>2. /\ stage = "outer" => n = Len(r_x) /\ Len(r_x) < dims.nx
          /\ stage = "outer_final" => n = dims.nx
          /\ stage = "inner_first" => n = dims.nx + 1
          /\ stage = "inner" => n = dims.nx + 1 + m /\ m >= 1 /\ m < dims.ny
          /\ stage = "inner_final" => n = dims.nx + 1 + dims.ny
          /\ stage = "commit_w" => n = dims.nx + dims.ny + 2
      BY <1>1 DEF Counts
    <2>3. stage \in {"outer", "outer_final", "inner_first", "inner", "inner_final", "commit_w"}
      BY DEF RoundStages
    <2>4. m \in Nat /\ dims.nx + 2 + m - 1 = dims.nx + 1 + m
      BY SMTT(30), <1>2
    <2> DEFINE a == dims.nx
               b == dims.ny
               d == DriverRound
               l == Len(r_x)
    <2>5. /\ a \in Nat /\ a >= 1 /\ b \in Nat /\ b >= 2 /\ l \in Nat
      BY <1>2
    <2> HIDE DEF n, a, b, d, l, m
    <2>6. CASE stage \in {"outer", "outer_final", "inner_first"}
      <3>1. \/ d = n /\ n = l /\ l < a
            \/ d = n /\ n = a
            \/ d = n /\ n = a + 1
        BY <2>1, <2>2, <2>6 DEF a, d, l
      <3>2. d = n /\ n \in Nat /\ n < a + 1 + b /\ n < a + b + 3
        BY <2>5, <3>1
      <3> QED
        BY <3>2 DEF a, b, d
    <2>7. CASE stage = "inner"
      <3>1. d = a + 2 + m - 1 /\ n = a + 1 + m /\ m < b /\ m \in Nat
        BY <2>1, <2>2, <2>4, <2>7 DEF a, b, d, m
      <3>2. d = n /\ n \in Nat /\ n < a + 1 + b /\ n < a + b + 3
        BY <2>5, <3>1
      <3> QED
        BY <3>2 DEF a, b, d
    <2>8. CASE stage \in {"inner_final", "commit_w"}
      <3>1. \/ d = (a + 1) + b /\ n = a + 1 + b
            \/ d = a + 1 + b + 1 /\ n = a + b + 2
        BY <2>1, <2>2, <2>8 DEF a, b, d
      <3>2. d = n /\ n \in Nat /\ n < a + b + 3
        BY <2>5, <3>1
      <3> QED
        BY <2>8, <3>2 DEF a, b, d
    <2> QED
      BY <2>3, <2>6, <2>7, <2>8
  <1>4. stage \notin {"inner_final", "commit_w"} => shape.num_challenges[n + 1] = 1
    <2> SUFFICES ASSUME stage \notin {"inner_final", "commit_w"}
                 PROVE  shape.num_challenges[n + 1] = 1
      OBVIOUS
    <2> HIDE DEF n
    <2>1. n + 1 \in 1 .. NumRounds(dims) /\ (n + 1) - 1 = n
      BY <1>2, <1>3
    <2>2. shape.num_challenges[n + 1] = NumChallenges(dims, n)
      BY <1>1, <2>1 DEF ShapeIs
    <2> QED
      BY <1>2, <1>3, <2>2 DEF NumChallenges
  <1> QED
    BY <1>2, <1>3, <1>4 DEF Accepts, Now

(* What every round changes, and the last two leave alone. *)
LEMMA RoundKeeps ==
  ASSUME TypeInv,
         OuterRound \/ OuterFinal \/ InnerFirst \/ InnerRound \/ InnerFinal \/ CommitW
  PROVE  /\ Now' = Now + 1 /\ dims' = dims /\ taus' = taus /\ shape' = shape
         /\ \A k \in 1 .. Now : state'.challenges[k] = state.challenges[k]
         /\ Now >= LastChallenge => r_x' = r_x /\ r_y' = r_y
  <1>1. PICK circuit, x : Rounded(circuit, x)
    BY RoundActions
  <1>2. Now' = Now + 1 /\ dims' = dims /\ taus' = taus /\ shape' = shape
    BY <1>1, RoundedType
  <1>3. state'.challenges = Append(state.challenges, Made(circuit).challenges)
    BY <1>1 DEF Rounded, Processed
  <1>4. \A k \in 1 .. Now : state'.challenges[k] = state.challenges[k]
    BY <1>3, Appended DEF Now, CurrentRound, TypeInv
  <1>5. ASSUME Now >= LastChallenge PROVE r_x' = r_x /\ r_y' = r_y
    <2>1. CASE InnerFinal \/ CommitW
      BY <2>1, Zenon DEF InnerFinal, CommitW
    <2>2. CASE OuterRound \/ OuterFinal \/ InnerFirst \/ InnerRound
      <3>1. stage \in {"outer", "outer_final", "inner_first", "inner"}
        BY <2>2, Zenon DEF OuterRound, OuterFinal, InnerFirst, InnerRound
      <3> DEFINE n == Now
                 m == Len(r_y)
      <3>2. /\ n \in Nat /\ m \in Nat /\ dims.nx \in Nat /\ dims.ny \in Nat /\ dims.ny >= 2
            /\ LastChallenge = dims.nx + 1 + dims.ny
        BY Numbers
      <3>3. \/ n <= dims.nx + 1
            \/ n = dims.nx + 1 + m /\ m < dims.ny
        <4>1. Counts
          BY DEF TypeInv
        <4>2. /\ stage = "outer" => n = Len(r_x) /\ Len(r_x) < dims.nx
              /\ stage = "outer_final" => n = dims.nx
              /\ stage = "inner_first" => n = dims.nx + 1
              /\ stage = "inner" => n = dims.nx + 1 + m /\ m < dims.ny
          BY <4>1 DEF Counts
        <4> HIDE DEF n, m
        <4> QED
          BY <3>1, <3>2, <4>2
      <3> HIDE DEF m
      <3>4. n < LastChallenge
        <4> HIDE DEF n
        <4> QED
          BY <3>2, <3>3
      <3> QED
        BY <1>5, <3>2, <3>4
    <2> QED
      BY <2>1, <2>2
  <1> QED
    BY <1>2, <1>4, <1>5

(* The public values are the challenges, in order, and the three others. *)
InputsInv ==
  /\ IsSequence(state.inputs)
  /\ Len(state.inputs) = IF Now = 0 THEN 0 ELSE IF Now <= LastChallenge THEN Now - 1
                          ELSE LastChallenge + 3
  /\ \A i \in 1 .. LastChallenge : i < Now => state.inputs[i] = Ch(state, i)
  /\ Now > LastChallenge => \A i \in 1 .. 3 : state.inputs[LastChallenge + i] = PublicValues[i]

(* It holds at the start. *)
LEMMA InputsInit ==
  ASSUME Init
  PROVE  InputsInv
  <1>1. state = NewState(shape, Zero) /\ dims \in Dims
    BY Zenon DEF Init
  <1>2. state.inputs = <<>> /\ state.challenges = <<>>
    BY <1>1 DEF NewState
  <1>3. Now = 0 /\ LastChallenge \in Nat
    BY <1>1, <1>2, EmptyIsSequence, Indices DEF Now, CurrentRound, LastChallenge
  <1> QED
    BY <1>2, <1>3, EmptyIsSequence DEF InputsInv

(* Every step keeps it. *)
LEMMA InputsNext ==
  ASSUME TypeInv, BoundInv, ValueInv, InputsInv, [Next]_vars
  PROVE  InputsInv'
  <1>0. Now \in Nat /\ LastChallenge \in Nat /\ LastChallenge >= 1
    BY Numbers
  <1>1. CASE OuterRound \/ OuterFinal \/ InnerFirst \/ InnerRound \/ InnerFinal \/ CommitW
    <2> DEFINE n == Now
               m == LastChallenge
               s == state.inputs
               t == Given
               c == state'.inputs
               l == Len(s)
    <2>1. /\ Now' = n + 1 /\ dims' = dims /\ taus' = taus
          /\ \A k \in 1 .. n : Ch(state', k) = Ch(state, k)
          /\ n >= m => r_x' = r_x /\ r_y' = r_y
          /\ m' = m
      BY <1>1, RoundKeeps DEF Ch, LastChallenge
    <2>2. c = s \o t
      BY <1>1, ValueRound
    <2>3. n >= m => PublicValues' = PublicValues
      <3> SUFFICES ASSUME n >= m PROVE PublicValues' = PublicValues
        OBVIOUS
      <3>1. dims.nx + 2 \in 1 .. n /\ m \in 1 .. n
        BY <1>0, Numbers
      <3>2. Ch(state', m) = Ch(state, m) /\ Ch(state', dims.nx + 2) = Ch(state, dims.nx + 2)
        BY <2>1, <3>1
      <3>3. LastEval' = LastEval
        BY <2>1, <3>2 DEF LastEval
      <3> QED
        BY <2>1, <3>2, <3>3 DEF PublicValues, Tau, EvalX, EvalW
    <2>4. /\ t = IF n = 0 \/ n > m THEN <<>>
                 ELSE IF n < m THEN <<Ch(state, n)>>
                 ELSE <<Ch(state, n), PublicValues[1], PublicValues[2], PublicValues[3]>>
      BY DEF Given
    <2> DEFINE p == PublicValues
    <2>5. /\ IsSequence(s)
          /\ l = IF n = 0 THEN 0 ELSE IF n <= m THEN n - 1 ELSE m + 3
          /\ \A i \in 1 .. m : i < n => s[i] = Ch(state, i)
          /\ n > m => \A i \in 1 .. 3 : s[m + i] = p[i]
      BY DEF InputsInv
    <2> HIDE DEF n, m, s, t, c, l, p
    <2>6. n \in Nat /\ m \in Nat /\ m >= 1 /\ l \in Nat
      BY <1>0, <2>5 DEF n, m
    <2>7. CASE n = 0 \/ n > m
      <3>1. t = <<>>
        BY <2>4, <2>7
      <3>2. Concatenates(c, s, <<>>)
        BY <2>2, <2>5, <3>1, EmptyIsSequence, Concatenated
      <3>3. IsSequence(c) /\ Len(c) = l /\ \A i \in 1 .. l : c[i] = s[i]
        BY <2>6, <3>2, EmptyIsSequence DEF Concatenates, l
      <3>4. n > m => \A i \in 1 .. 3 : m + i \in 1 .. l
        BY <2>5, <2>6
      <3>5. n > m => \A i \in 1 .. m : i \in 1 .. l /\ i \in 1 .. n /\ i < n
        BY <2>5, <2>6
      <3>6. \A i \in 1 .. m : i < n + 1 => c[i] = Ch(state', i)
        BY <2>1, <2>5, <2>6, <2>7, <3>3, <3>5
      <3>7. n + 1 > m' => \A i \in 1 .. 3 : c[m' + i] = p'[i]
        <4>1. n > m \/ ~(n + 1 > m)
          BY <2>6, <2>7
        <4>2. n > m => p' = p
          BY <2>3, <2>6 DEF p, m, n
        <4> QED
          BY <2>1, <2>5, <3>3, <3>4, <4>1, <4>2
      <3>8. l = IF n + 1 <= m THEN (n + 1) - 1 ELSE m + 3
        BY <2>5, <2>6, <2>7
      <3> QED
        BY <2>1, <2>6, <3>3, <3>6, <3>7, <3>8 DEF InputsInv, c, m, p, n
    <2>8. CASE n # 0 /\ n < m
      <3> DEFINE e == Ch(state, n)
      <3>1. t = <<e>> /\ l = n - 1 /\ <<e>>[1] = e
        BY <2>4, <2>5, <2>6, <2>8
      <3>2. IsSequence(<<e>>) /\ Len(<<e>>) = 1
        BY Tuples
      <3> HIDE DEF e
      <3>3. Concatenates(c, s, <<e>>)
        BY <2>2, <2>5, <3>1, <3>2, Concatenated
      <3>4. IsSequence(c) /\ Len(c) = l + 1 /\ (\A i \in 1 .. l : c[i] = s[i]) /\ c[l + 1] = e
        <4>1. 1 \in 1 .. 1
          OBVIOUS
        <4> QED
          BY <3>1, <3>2, <3>3, <4>1 DEF Concatenates, l
      <3>5. ASSUME NEW i \in 1 .. m, i < n + 1 PROVE c[i] = Ch(state', i)
        <4>1. i \in 1 .. n
          BY <2>6, <3>5
        <4>2. CASE i = n
          BY <2>1, <2>6, <3>1, <3>4, <4>1, <4>2 DEF e
        <4>3. CASE i # n
          <5>1. i \in 1 .. l /\ i < n
            BY <2>6, <3>1, <4>1, <4>3
          <5> QED
            BY <2>1, <2>5, <3>4, <4>1, <5>1
        <4> QED
          BY <4>2, <4>3
      <3>6. /\ ~(n + 1 > m) /\ n + 1 # 0
            /\ l + 1 = IF n + 1 <= m THEN (n + 1) - 1 ELSE m + 3
        BY <2>6, <2>8, <3>1
      <3>7. ~(n + 1 > m')
        BY <2>1, <3>6
      <3> QED
        BY <2>1, <3>4, <3>5, <3>6, <3>7 DEF InputsInv, c, m, n
    <2>9. CASE n # 0 /\ n = m
      <3> DEFINE u == <<Ch(state, n), p[1], p[2], p[3]>>
      <3>1. t = u /\ l = n - 1
        BY <2>4, <2>5, <2>6, <2>9 DEF p
      <3>2. IsSequence(u) /\ Len(u) = 4
        BY Tuples
      <3>3. u[1] = Ch(state, n) /\ u[2] = p[1] /\ u[3] = p[2] /\ u[4] = p[3]
        OBVIOUS
      <3> HIDE DEF u
      <3>4. Concatenates(c, s, u)
        BY <2>2, <2>5, <3>1, <3>2, Concatenated
      <3>5. /\ IsSequence(c) /\ Len(c) = l + 4 /\ (\A i \in 1 .. l : c[i] = s[i])
            /\ \A i \in 1 .. 4 : c[l + i] = u[i]
        BY <3>2, <3>4 DEF Concatenates, l
      <3>6. /\ c[l + 1] = Ch(state, n) /\ c[l + 2] = p[1] /\ c[l + 3] = p[2] /\ c[l + 4] = p[3]
        <4>1. 1 \in 1 .. 4 /\ 2 \in 1 .. 4 /\ 3 \in 1 .. 4 /\ 4 \in 1 .. 4
          OBVIOUS
        <4> QED
          BY <3>3, <3>5, <4>1
      <3>7. ASSUME NEW i \in 1 .. m, i < n + 1 PROVE c[i] = Ch(state', i)
        <4>1. i \in 1 .. n
          BY <2>6, <3>7
        <4>2. CASE i = n
          BY <2>1, <2>6, <3>1, <3>6, <4>1, <4>2
        <4>3. CASE i # n
          <5>1. i \in 1 .. l /\ i < n
            BY <2>6, <3>1, <4>1, <4>3
          <5> QED
            BY <2>1, <2>5, <3>5, <4>1, <5>1
        <4> QED
          BY <4>2, <4>3
      <3>8. \A i \in 1 .. 3 : c[m' + i] = p'[i]
        <4>1. p' = p
          BY <2>3, <2>6, <2>9 DEF p, m, n
        <4>2. l + 2 = m + 1 /\ l + 3 = m + 2 /\ l + 4 = m + 3
          BY <2>6, <2>9, <3>1
        <4>3. \A i \in 1 .. 3 : i = 1 \/ i = 2 \/ i = 3
          OBVIOUS
        <4> QED
          BY <2>1, <3>6, <4>1, <4>2, <4>3
      <3>9. ~(n + 1 <= m) /\ n + 1 # 0 /\ l + 4 = m + 3
        BY <2>6, <2>9, <3>1
      <3> QED
        BY <2>1, <3>5, <3>7, <3>8, <3>9 DEF InputsInv, c, m, n, p
    <2> QED
      BY <2>6, <2>7, <2>8, <2>9
  <1>2. CASE \/ Start \/ DivisionByZero \/ Finalize \/ StartVerify \/ VerifyRound \/ Conclude
             \/ UNCHANGED vars
    <2>1. UNCHANGED <<state, dims, r_x, r_y>>
      BY <1>2, OthersUnchanged
    <2>2. /\ Now' = Now /\ LastChallenge' = LastChallenge /\ \A k : Ch(state', k) = Ch(state, k)
      BY <2>1 DEF Now, CurrentRound, LastChallenge, Ch
    <2>3. Now > LastChallenge => PublicValues' = PublicValues
      <3>1. stage = "start" => Now = 0
        BY DEF TypeInv, Counts
      <3>2. Now > LastChallenge => stage # "start"
        BY <1>0, <3>1
      <3>3. stage # "start" => taus' = taus
        BY <1>2, Zenon DEF Start, DivisionByZero, Finalize, StartVerify, VerifyRound, Conclude, vars
      <3> QED
        BY <2>1, <2>2, <3>2, <3>3 DEF PublicValues, Tau, EvalX, EvalW, LastEval
    <2> QED
      BY <2>1, <2>2, <2>3 DEF InputsInv
  <1> QED
    BY <1>1, <1>2 DEF Next

-----------------------------------------------------------------------------
(* The segments of the witness *)

(* Where the segments of the rounds lie. *)
Sizes(s, n) ==
  /\ Total(s.num_vars) \in Nat
  /\ \A k \in 0 .. n : /\ SumFirst(s.num_vars, k) \in Nat
                       /\ SumFirst(s.num_vars_unpadded, k) \in Nat
  /\ \A k \in 1 .. n :
       /\ s.num_vars[k] \in Nat /\ s.num_vars_unpadded[k] \in Nat
       /\ SumFirst(s.num_vars_unpadded, k)
            = SumFirst(s.num_vars_unpadded, k - 1) + s.num_vars_unpadded[k]
       /\ SumFirst(s.num_vars, k - 1) + s.num_vars[k] <= Total(s.num_vars)
  /\ s.num_vars[n] = Width /\ s.num_vars_unpadded[n] = Width

(* The places of the shape made at setup lie one after the other. *)
LEMMA SizesAre ==
  ASSUME NEW d \in Dims, NEW s, ShapeIs(s, d)
  PROVE  Sizes(s, NumRounds(d))
  <1> DEFINE n == NumRounds(d)
             a == s.num_vars
             b == s.num_vars_unpadded
  <1>1. /\ n \in Nat /\ n >= 1 /\ n - 1 = d.nx + d.ny + 2 /\ n \in 1 .. n
        /\ d.nx \in Nat /\ d.nx >= 1 /\ d.ny \in Nat /\ d.ny >= 2
        /\ Width \in Nat \ {0}
    BY Indices, DimsAssumption
  <1>2. /\ Len(a) = n
        /\ \A k \in 1 .. n : /\ b[k] = AuxLength(d, k - 1)
                             /\ a[k] = PadToWidth(Width, AuxLength(d, k - 1))
    BY DEF ShapeIs
  <1> HIDE DEF n, a, b
  <1>3. ASSUME NEW k \in 1 .. n PROVE a[k] \in Nat /\ b[k] \in Nat
    <2>1. AuxLength(d, k - 1) \in Nat
      BY <1>1 DEF AuxLength
    <2> QED
      BY <1>1, <1>2, <2>1, Padding
  <1>4. /\ \A k \in 0 .. n : SumFirst(a, k) \in Nat /\ SumFirst(b, k) \in Nat
        /\ \A k \in 1 .. n : /\ SumFirst(a, k) = SumFirst(a, k - 1) + a[k]
                             /\ SumFirst(b, k) = SumFirst(b, k - 1) + b[k]
    <2>1. /\ \A k \in 0 .. n : SumFirst(a, k) \in Nat
          /\ \A k \in 1 .. n : SumFirst(a, k) = SumFirst(a, k - 1) + a[k]
      BY <1>1, <1>3, SumUnfolds
    <2>2. /\ \A k \in 0 .. n : SumFirst(b, k) \in Nat
          /\ \A k \in 1 .. n : SumFirst(b, k) = SumFirst(b, k - 1) + b[k]
      BY <1>1, <1>3, SumUnfolds
    <2> QED
      BY <2>1, <2>2
  <1>5. Total(a) = SumFirst(a, n) /\ n \in 0 .. n
    BY <1>1, <1>2 DEF Total
  <1>6. \A i, k \in 0 .. n : i <= k => SumFirst(a, i) <= SumFirst(a, k)
    BY <1>1, <1>3, SumIncreases
  <1>7. ASSUME NEW k \in 1 .. n PROVE SumFirst(a, k - 1) + a[k] <= Total(a)
    <2>1. k \in 0 .. n /\ k <= n
      OBVIOUS
    <2>2. SumFirst(a, k) <= SumFirst(a, n)
      BY <1>5, <1>6, <2>1
    <2> QED
      BY <1>4, <1>5, <2>2
  <1>8. a[n] = Width /\ b[n] = Width
    <2>1. AuxLength(d, n - 1) = Width
      BY <1>1 DEF AuxLength
    <2>2. PadToWidth(Width, Width) = Width
      BY <1>1, Padding
    <2> QED
      BY <1>1, <1>2, <2>1, <2>2
  <1>9. Total(a) \in Nat
    BY <1>4, <1>5
  <1> QED
    BY <1>3, <1>4, <1>7, <1>8, <1>9 DEF Sizes, n, a, b

(* The variables fill the rounds up to now, and each commitment is to a     *)
(* segment as long as the shape says; the last one is to the row of eval_W. *)
WitnessInv ==
  /\ IsSequence(state.aux)
  /\ Len(state.aux) = SumFirst(shape.num_vars_unpadded, Now)
  /\ \A k \in 1 .. Now : Len(state.comm_w_per_round[k].segment) = shape.num_vars[k]
  /\ Now = NumRounds(dims) => state.comm_w_per_round[Now].segment = WithZeros(EvalW, Width)

(* It holds at the start. *)
LEMMA WitnessInit ==
  ASSUME Init
  PROVE  WitnessInv
  <1>1. state = NewState(shape, Zero) /\ dims \in Dims /\ shape = SetupShape(dims)
    BY Zenon DEF Init
  <1>2. state.aux = <<>> /\ state.challenges = <<>>
    BY <1>1 DEF NewState
  <1>3. Now = 0 /\ NumRounds(dims) # 0
    BY <1>1, <1>2, EmptyIsSequence, Indices DEF Now, CurrentRound
  <1>4. SumFirst(shape.num_vars_unpadded, 0) = 0
    BY SumUnfolds
  <1> QED
    BY <1>2, <1>3, <1>4, EmptyIsSequence DEF WitnessInv

(* A round commits to a segment of the right length, and to the variables   *)
(* it allocated where they fill it.                                         *)
Committed(x, aux) ==
  /\ IsSequence(state'.aux)
  /\ Len(state'.aux) = SumFirst(shape.num_vars_unpadded, Now + 1)
  /\ \A k \in 1 .. Now + 1 : Len(state'.comm_w_per_round[k].segment) = shape.num_vars[k]
  /\ shape.num_vars[Now + 1] = shape.num_vars_unpadded[Now + 1] =>
       CutFrom(state'.comm_w_per_round[Now + 1].segment, aux, 0, shape.num_vars[Now + 1])

(* A round commits so. *)
LEMMA WitnessRound ==
  ASSUME TypeInv, BoundInv, WitnessInv, NEW circuit, NEW x, Rounded(circuit, x)
  PROVE  Committed(x, Syn(circuit).aux)
  <1> DEFINE n == Now
             a == Syn(circuit).aux
             u == state.aux
             aux == u \o a
             comm == RoundSent(state, shape, Syn(circuit), n)
             from == SumFirst(shape.num_vars_unpadded, n)
             len == shape.num_vars[n + 1]
             min == shape.num_vars_unpadded[n + 1]
  <1>1. /\ dims \in Dims /\ ShapeIs(shape, dims) /\ OnTo(state.w, Total(shape.num_vars))
        /\ n \in Nat /\ n < NumRounds(dims) /\ NumRounds(dims) \in Nat
    <2>1. /\ dims \in Dims /\ ShapeIs(shape, dims) /\ OnTo(state.w, Total(shape.num_vars))
          /\ n \in Nat
      BY ShapeFacts, Numbers DEF TypeInv
    <2>2. NumRounds(dims) \in Nat
      BY <2>1, Indices
    <2>3. n < shape.num_rounds
      BY DEF Rounded, Accepts, Now
    <2> QED
      BY <2>1, <2>2, <2>3 DEF ShapeIs
  <1>2. Sizes(shape, NumRounds(dims)) /\ n + 1 \in 1 .. NumRounds(dims) /\ n \in 0 .. NumRounds(dims)
        /\ (n + 1) - 1 = n
    BY <1>1, SizesAre
  <1>3. /\ Total(shape.num_vars) \in Nat /\ SumFirst(shape.num_vars, n) \in Nat /\ from \in Nat
        /\ len \in Nat /\ min \in Nat
        /\ SumFirst(shape.num_vars_unpadded, n + 1) = from + min
        /\ SumFirst(shape.num_vars, n) + len <= Total(shape.num_vars)
    <2> HIDE DEF n
    <2>1. /\ SumFirst(shape.num_vars_unpadded, n + 1)
               = SumFirst(shape.num_vars_unpadded, (n + 1) - 1) + shape.num_vars_unpadded[n + 1]
          /\ SumFirst(shape.num_vars, (n + 1) - 1) + shape.num_vars[n + 1] <= Total(shape.num_vars)
      BY <1>2 DEF Sizes
    <2> QED
      BY <1>2, <2>1 DEF Sizes
  <1>4. IsSequence(a) /\ Len(a) = min
    <2>1. Fits(Rounds(dims, Width, circuit, n, state.vars_per_round, state.challenges_per_round,
                      PassedChallenges(state, n)), AuxLength(dims, n), InputLength(dims, n))
      BY <1>1, RoundsFit
    <2>2. Syn(circuit) = Rounds(dims, Width, circuit, n, state.vars_per_round,
                                state.challenges_per_round, PassedChallenges(state, n))
      BY Zenon DEF Syn, Synthesis
    <2>3. min = AuxLength(dims, n)
      <3> HIDE DEF n
      <3> QED
        BY <1>1, <1>2 DEF ShapeIs
    <2> HIDE DEF n, min
    <2> QED
      BY <2>1, <2>2, <2>3 DEF Fits
  <1>5. IsSequence(u) /\ Len(u) = from
    BY DEF WitnessInv
  <1>6. Concatenates(aux, u, a)
    <2> HIDE DEF u, a
    <2> QED
      BY <1>4, <1>5, Concatenated
  <1> HIDE DEF u, a, n, aux, from, len, min
  <1>7. /\ IsSequence(aux) /\ Len(aux) = from + min
        /\ \A i \in 1 .. min : aux[from + i] = a[i]
    BY <1>4, <1>5, <1>6 DEF Concatenates
  <1>8. Segments(comm, shape, aux, n)
    <2>1. Len(aux) >= SumFirst(shape.num_vars_unpadded, n) + shape.num_vars_unpadded[n + 1]
      BY <1>3, <1>7 DEF from, min
    <2>2. /\ SumFirst(shape.num_vars, n) \in Nat /\ shape.num_vars[n + 1] \in Nat
          /\ SumFirst(shape.num_vars_unpadded, n) \in Nat
          /\ Total(shape.num_vars) \in Nat
          /\ SumFirst(shape.num_vars, n) + shape.num_vars[n + 1] <= Total(shape.num_vars)
      BY <1>3 DEF from, len
    <2>3. Segments(RoundCommitment(shape, Copied(shape, state.w, aux, n), n), shape, aux, n)
      BY <1>1, <2>1, <2>2, SegmentIs
    <2>4. comm = RoundCommitment(shape, Copied(shape, state.w, aux, n), n)
      BY Zenon DEF RoundSent, RoundWitness, aux, u, a
    <2> QED
      BY <2>3, <2>4, Zenon
  <1> HIDE DEF comm
  <1>9. /\ state'.aux = aux
        /\ state'.comm_w_per_round = Append(state.comm_w_per_round, comm)
    BY Zenon DEF Rounded, Processed, comm, aux, u, a, n
  <1>10. IsSequence(state.comm_w_per_round) /\ Len(state.comm_w_per_round) = n
    BY DEF BoundInv, RoundsBound, n, Now, CurrentRound
  <1>11. /\ \A k \in 1 .. n : state'.comm_w_per_round[k] = state.comm_w_per_round[k]
         /\ state'.comm_w_per_round[n + 1] = comm
    BY <1>9, <1>10, Appended
  <1>12. \A k \in 1 .. n : Len(state.comm_w_per_round[k].segment) = shape.num_vars[k]
    BY DEF WitnessInv, n
  <1>13. \A k \in 1 .. n + 1 : Len(state'.comm_w_per_round[k].segment) = shape.num_vars[k]
    <2> SUFFICES ASSUME NEW k \in 1 .. n + 1
                 PROVE  Len(state'.comm_w_per_round[k].segment) = shape.num_vars[k]
      OBVIOUS
    <2>1. CASE k = n + 1
      BY <1>8, <1>11, <2>1 DEF Segments
    <2>2. CASE k # n + 1
      <3>1. k \in 1 .. n
        BY <1>1, <2>2
      <3> QED
        BY <1>11, <1>12, <3>1
    <2> QED
      BY <2>1, <2>2
  <1>14. ASSUME len = min PROVE CutFrom(comm.segment, a, 0, len)
    <2>1. CutFrom(comm.segment, aux, from, len)
      BY <1>8, <1>14 DEF Segments, len, min, from
    <2>2. ASSUME NEW i \in 1 .. len PROVE comm.segment[i] = a[0 + i]
      <3>1. 0 + i = i /\ i \in 1 .. min
        BY <1>3, <1>14
      <3> QED
        BY <1>7, <2>1, <3>1 DEF CutFrom
    <2> QED
      BY <2>1, <2>2 DEF CutFrom
  <1>15. Committed(x, a)
    BY <1>3, <1>7, <1>9, <1>11, <1>13, <1>14 DEF Committed, n, len, min
  <1> QED
    BY <1>15 DEF a

(* Every step keeps it. *)
LEMMA WitnessNext ==
  ASSUME TypeInv, BoundInv, ValueInv, WitnessInv, [Next]_vars
  PROVE  WitnessInv'
  <1>1. CASE OuterRound \/ OuterFinal \/ InnerFirst \/ InnerRound \/ InnerFinal \/ CommitW
    <2>1. PICK circuit, x : Rounded(circuit, x)
      BY <1>1, RoundActions
    <2>2. Committed(x, Syn(circuit).aux)
      BY <2>1, WitnessRound
    <2>3. Now' = Now + 1 /\ shape' = shape /\ dims' = dims /\ Now \in Nat
      BY <1>1, RoundKeeps, Numbers
    <2>4. ASSUME Now + 1 = NumRounds(dims)
          PROVE  state'.comm_w_per_round[Now + 1].segment = WithZeros(EvalW', Width)
      <3> DEFINE n == Now
      <3>1. /\ dims \in Dims /\ ShapeIs(shape, dims) /\ n \in Nat
            /\ dims.nx \in Nat /\ dims.nx >= 1 /\ dims.ny \in Nat /\ dims.ny >= 2
            /\ NumRounds(dims) = dims.nx + dims.ny + 3 /\ LastChallenge = dims.nx + 1 + dims.ny
        BY ShapeFacts, Numbers, Indices DEF TypeInv
      <3>2. n = dims.nx + dims.ny + 2 /\ n > LastChallenge /\ LastChallenge + 1 = n
        <4> HIDE DEF n
        <4> QED
          BY <2>4, <3>1 DEF n
      <3>3. CommitW
        <4>1. stage \in RoundStages
          BY <1>1, RoundActions
        <4>2. stage = "commit_w"
          <5>1. Counts /\ Len(r_x) \in Nat /\ Len(r_y) \in Nat
            BY Numbers DEF TypeInv
          <5> DEFINE l == Len(r_x)
                     m == Len(r_y)
          <5>2. /\ stage = "outer" => n = l /\ l < dims.nx
                /\ stage = "outer_final" => n = dims.nx
                /\ stage = "inner_first" => n = dims.nx + 1
                /\ stage = "inner" => n = dims.nx + 1 + m /\ m < dims.ny
                /\ stage = "inner_final" => n = dims.nx + 1 + dims.ny
            BY <5>1 DEF Counts
          <5>3. l \in Nat /\ m \in Nat
            BY <5>1
          <5> HIDE DEF n, l, m
          <5> QED
            BY <3>1, <3>2, <4>1, <5>2, <5>3 DEF RoundStages
        <4> QED
          BY <1>1, <4>2, Zenon DEF OuterRound, OuterFinal, InnerFirst, InnerRound, InnerFinal
      <3>4. PICK y : CommitTaken(y)
        BY <3>3, CommitWIs
      <3>5. Rounded(vc, y) /\ r_y' = r_y
        BY <3>4 DEF CommitTaken
      <3>6. vc.eval_W = EvalW /\ EvalW' = EvalW
        BY <3>2, <3>5 DEF ValueInv, HandedOn, EvalW
      <3>7. Syn(vc).aux = WithZeros(EvalW, Width)
        <4> DEFINE chals == PassedChallenges(state, n)
        <4>1. Syn(vc) = Rounds(dims, Width, vc, n, state.vars_per_round,
                               state.challenges_per_round, chals)
          BY Zenon DEF Syn, Synthesis
        <4> HIDE DEF n, chals
        <4>2. Yields(Rounds(dims, Width, vc, n, state.vars_per_round,
                            state.challenges_per_round, chals),
                     WithZeros(vc.eval_W, Width), <<>>, <<vc.eval_W>>, <<>>,
                     {<<vc.eval_W, state.vars_per_round[n][1]>>})
          BY <3>1, <3>2, CommitYields
        <4>3. Rounds(dims, Width, vc, n, state.vars_per_round,
                     state.challenges_per_round, chals).aux = WithZeros(vc.eval_W, Width)
          BY <4>2, Zenon DEF Yields
        <4> QED
          BY <3>6, <4>1, <4>3
      <3> DEFINE q == state'.comm_w_per_round[n + 1].segment
                 p == WithZeros(EvalW, Width)
      <3>8. CutFrom(q, p, 0, Width)
        <4>1. Committed(y, p)
          BY <3>5, <3>7, WitnessRound
        <4>2. shape.num_vars[n + 1] = Width /\ shape.num_vars_unpadded[n + 1] = Width
          BY <2>4, <3>1, SizesAre DEF Sizes
        <4> HIDE DEF p
        <4>3. shape.num_vars[n + 1] = shape.num_vars_unpadded[n + 1] =>
                CutFrom(q, p, 0, shape.num_vars[n + 1])
          BY <4>1 DEF Committed
        <4> QED
          BY <4>2, <4>3
      <3>9. q = p
        <4>1. Width \in Nat
          BY DimsAssumption
        <4>2. DOMAIN p = 1 .. Width /\ p = [k \in 1 .. Width |-> p[k]]
          BY DEF WithZeros
        <4> HIDE DEF p, q
        <4>3. IsSequence(q) /\ Len(q) = Width /\ \A i \in 1 .. Width : q[i] = p[i]
          <5>1. \A i \in 1 .. Width : 0 + i = i
            BY <4>1
          <5> QED
            BY <3>8, <5>1 DEF CutFrom
        <4>4. q = [k \in 1 .. Width |-> q[k]]
          <5>1. q \in Seq(Range(q))
            BY <4>3 DEF IsSequence
          <5>2. q = [k \in 1 .. Len(q) |-> q[k]]
            BY <5>1, LenProperties
          <5> QED
            BY <4>3, <5>2
        <4> QED
          BY <4>2, <4>3, <4>4
      <3> QED
        BY <3>6, <3>9
    <2>5. /\ IsSequence(state'.aux)
          /\ Len(state'.aux) = SumFirst(shape.num_vars_unpadded, Now + 1)
          /\ \A k \in 1 .. Now + 1 : Len(state'.comm_w_per_round[k].segment) = shape.num_vars[k]
      BY <2>2 DEF Committed
    <2> QED
      BY <2>3, <2>4, <2>5 DEF WitnessInv
  <1>2. CASE \/ Start \/ DivisionByZero \/ Finalize \/ StartVerify \/ VerifyRound \/ Conclude
             \/ UNCHANGED vars
    <2>1. UNCHANGED <<shape, dims, state, r_y>>
      BY <1>2, OthersUnchanged
    <2>2. Now' = Now /\ EvalW' = EvalW
      BY <2>1 DEF Now, CurrentRound, EvalW
    <2> QED
      BY <2>1, <2>2 DEF WitnessInv
  <1> QED
    BY <1>1, <1>2 DEF Next

-----------------------------------------------------------------------------
(* The finalized instance *)

(* What the verifier slices out of a public input. *)
Readable(X) ==
  /\ Len(X) = LastChallenge + 3
  /\ SliceOf(X).r_x = r_x /\ SliceOf(X).r = r /\ SliceOf(X).r_y = r_y
  /\ SliceOf(X).public_values = PublicValues

(* The rounds can be finalized, and the verifier reads the prover's         *)
(* challenges and the values it expects.                                    *)
Complete ==
  /\ MayFinalize(state, shape)
  /\ LengthsValid(Finalized(state, shape), shape)
  /\ Readable(RegularX(Finalized(state, shape)))

(* So it is when all rounds are done. *)
LEMMA CompleteAtTheEnd ==
  ASSUME TypeInv, BoundInv, ValueInv, InputsInv, Now = NumRounds(dims)
  PROVE  Complete
  <1> DEFINE n == Now
             m == LastChallenge
             nx == dims.nx
             ny == dims.ny
             c == [k \in 1 .. m |-> Ch(state, k)]
             p == PublicValues
             F == Finalized(state, shape)
             q == SubSeq(state.inputs, m + 1, m + 3)
             f == FlattenSeq(state.challenges)
             X == RegularX(F)
  <1>1. /\ dims \in Dims /\ ShapeIs(shape, dims) /\ n \in Nat /\ n = m + 2 /\ m \in Nat /\ m \in 1 .. n
        /\ m = nx + 1 + ny /\ nx \in Nat /\ nx >= 1 /\ ny \in Nat /\ ny >= 2
        /\ shape.num_rounds = n /\ shape.num_public = 3 /\ Total(shape.num_challenges) = m
        /\ idx_inner_final(dims) = m
    <2>1. /\ dims \in Dims /\ ShapeIs(shape, dims)
          /\ nx \in Nat /\ nx >= 1 /\ ny \in Nat /\ ny >= 2 /\ m = nx + 1 + ny
          /\ n = nx + ny + 3 /\ idx_inner_final(dims) = m
      BY ShapeFacts, Numbers, Indices DEF TypeInv
    <2>2. shape.num_rounds = n /\ shape.num_public = 3 /\ Total(shape.num_challenges) = m
      BY <2>1 DEF ShapeIs
    <2> HIDE DEF n, m, nx, ny
    <2> QED
      BY <2>1, <2>2
  <1>2. /\ IsSequence(state.inputs) /\ Len(state.inputs) = m + 3
        /\ \A i \in 1 .. 3 : state.inputs[m + i] = p[i]
    <2>1. n # 0 /\ ~(n <= m) /\ n > m
      BY <1>1
    <2> QED
      BY <2>1 DEF InputsInv
  <1>3. /\ \A k \in 1 .. n : state.challenges[k] = IF k <= m THEN <<Ch(state, k)>> ELSE <<>>
        /\ Len(state.challenges) = n
        /\ Len(state.comm_w_per_round) = n
    BY DEF ValueInv, ChallengesGiven, BoundInv, RoundsBound, Now, CurrentRound
  <1>4. (m + 3) - m = 3
    BY <1>1
  <1>5. F.comm_w_per_round = state.comm_w_per_round /\ F.public_values = q
        /\ F.challenges_per_round = state.challenges
    <2>1. F = [comm_w_per_round |-> state.comm_w_per_round, public_values |-> q,
               challenges_per_round |-> state.challenges]
      <3>1. F = [comm_w_per_round |-> state.comm_w_per_round,
                 public_values |-> SubSeq(state.inputs, Total(shape.num_challenges) + 1,
                                          Len(state.inputs)),
                 challenges_per_round |-> state.challenges]
        BY Zenon DEF Finalized
      <3> HIDE DEF F, m
      <3> QED
        BY <1>1, <1>2, <3>1 DEF m
    <2> HIDE DEF F, q
    <2> QED
      BY <2>1
  <1>6. CutFrom(q, state.inputs, m, 3)
    BY <1>1, Cut
  <1>7. IsSequence(q) /\ Len(q) = 3 /\ \A i \in 1 .. 3 : q[i] = p[i]
    BY <1>2, <1>6 DEF CutFrom
  <1>8. Singles(f, c, m)
    <2>1. \A k \in 1 .. n : state.challenges[k] = IF k <= m THEN <<c[k]>> ELSE <<>>
      <3> SUFFICES ASSUME NEW k \in 1 .. n
                   PROVE  state.challenges[k] = IF k <= m THEN <<c[k]>> ELSE <<>>
        OBVIOUS
      <3>1. k <= m => k \in 1 .. m /\ c[k] = Ch(state, k)
        BY <1>1
      <3> QED
        BY <1>3, <3>1
    <2> HIDE DEF n, m, c
    <2> QED
      BY <1>1, <1>3, <2>1, FlattenSingles
  <1>9. \A k \in 1 .. m : c[k] = Ch(state, k)
    OBVIOUS
  <1> HIDE DEF n, m, nx, ny, c, p, F, q, f, X
  <1>10. Concatenates(X, f, q)
    <2>1. X = FlattenSeq(F.challenges_per_round) \o F.public_values
      BY Zenon DEF RegularX, X
    <2>2. X = f \o q
      BY <1>5, <2>1, Zenon DEF f
    <2>3. IsSequence(f) /\ IsSequence(q)
      BY <1>7, <1>8 DEF Singles
    <2> QED
      BY <2>2, <2>3, Concatenated
  <1>11. /\ Len(X) = m + 3
         /\ \A i \in 1 .. m : X[i] = Ch(state, i)
         /\ \A i \in 1 .. 3 : X[m + i] = p[i]
    BY <1>7, <1>8, <1>9, <1>10 DEF Concatenates, Singles
  <1>12. MayFinalize(state, shape)
    <2>1. CurrentRound(state) = shape.num_rounds
      BY <1>1 DEF n, Now
    <2>2. Len(state.inputs) - Total(shape.num_challenges) = shape.num_public
      BY <1>1, <1>2, <1>4
    <2>3. ASSUME NEW k \in 1 .. n PROVE Len(state.challenges[k]) = shape.num_challenges[k]
      <3>1. k \in 1 .. NumRounds(dims)
        BY DEF n
      <3>2. shape.num_challenges[k] = IF k - 1 < m THEN 1 ELSE 0
        BY <1>1, <3>1 DEF ShapeIs, NumChallenges
      <3>3. k - 1 < m <=> k <= m
        BY <1>1
      <3>4. Len(<<Ch(state, k)>>) = 1
        BY Tuples
      <3> QED
        BY <1>3, <3>2, <3>3, <3>4, EmptyIsSequence
    <2> QED
      BY <1>1, <2>1, <2>2, <2>3 DEF MayFinalize
  <1>13. LengthsValid(F, shape)
    BY <1>1, <1>3, <1>5, <1>7 DEF LengthsValid
  <1>14. /\ Kept /\ IsSequence(r_x) /\ Len(r_x) = nx /\ IsSequence(r_y) /\ Len(r_y) = ny
    <2>1. /\ stage \in {"finalize", "finalized", "verify", "accepted", "rejected"} =>
               Len(r_x) = nx /\ Len(r_y) = ny
      BY DEF TypeInv, Counts, nx, ny
    <2>2. stage \in {"finalize", "finalized", "verify", "accepted", "rejected"}
      <3>1. Counts /\ Len(r_x) \in Nat /\ Len(r_y) \in Nat
            /\ stage \in RoundStages \cup {"start", "failed", "finalize", "finalized",
                                 "verify", "accepted", "rejected"}
        BY Numbers DEF TypeInv
      <3> DEFINE l == Len(r_x)
                 h == Len(r_y)
      <3>2. /\ stage = "start" => n = 0
            /\ stage = "outer" => n = l /\ l < nx
            /\ stage = "outer_final" => n = nx
            /\ stage = "inner_first" => n = nx + 1
            /\ stage = "inner" => n = nx + 1 + h /\ h < ny
            /\ stage \in {"inner_final", "failed"} => n = nx + 1 + ny
            /\ stage = "commit_w" => n = nx + ny + 2
        BY <3>1 DEF Counts, n, nx, ny
      <3>3. l \in Nat /\ h \in Nat
        BY <3>1
      <3> HIDE DEF l, h
      <3> QED
        BY <1>1, <3>1, <3>2, <3>3 DEF RoundStages
    <2> QED
      BY <2>1, <2>2 DEF ValueInv, TypeInv
  <1>15. /\ \A i \in 1 .. nx : r_x[i] = X[i]
         /\ r = X[nx + 1]
         /\ \A j \in 1 .. ny : r_y[j] = X[nx + 1 + j]
    <2>1. /\ \A i \in 1 .. nx : i \in 1 .. m
          /\ \A j \in 1 .. ny : nx + 1 + j \in 1 .. m
          /\ nx + 1 \in 1 .. m /\ n > nx
      BY <1>1
    <2>2. /\ \A i \in 1 .. nx : r_x[i] = Ch(state, i)
          /\ r = Ch(state, nx + 1)
          /\ \A j \in 1 .. ny : r_y[j] = Ch(state, nx + 1 + j)
      BY <1>14, <2>1 DEF Kept, n, nx
    <2> QED
      BY <1>11, <2>1, <2>2
  <1>16. /\ SliceOf(X).r_x = SubSeq(X, 1, nx) /\ SliceOf(X).r = X[nx + 1]
         /\ SliceOf(X).r_y = SubSeq(X, nx + 2, nx + 1 + ny)
         /\ SliceOf(X).public_values = SubSeq(X, nx + 1 + ny + 1, nx + 1 + ny + 3)
    BY DEF SliceOf, nx, ny
  <1>17. SubSeq(X, 1, nx) = r_x
    <2> DEFINE t == SubSeq(X, 0 + 1, 0 + nx)
    <2>1. CutFrom(t, X, 0, nx)
      BY <1>1, Cut
    <2>2. 0 + 1 = 1 /\ 0 + nx = nx
      BY <1>1
    <2>3. t = SubSeq(X, 1, nx)
      BY <2>2
    <2> HIDE DEF t
    <2>4. IsSequence(t) /\ Len(t) = nx /\ \A i \in 1 .. nx : t[i] = r_x[i]
      <3>1. \A i \in 1 .. nx : 0 + i = i
        BY <1>1
      <3> QED
        BY <1>15, <2>1, <3>1 DEF CutFrom
    <2>5. t = r_x
      BY <1>14, <2>4, SameSequence
    <2> QED
      BY <2>3, <2>5
  <1>18. SubSeq(X, nx + 2, nx + 1 + ny) = r_y
    <2> DEFINE a == nx + 1
               t == SubSeq(X, a + 1, a + ny)
    <2>1. a \in Nat /\ a + 1 = nx + 2 /\ a + ny = nx + 1 + ny
      BY <1>1
    <2>2. t = SubSeq(X, nx + 2, nx + 1 + ny)
      BY <2>1
    <2>3. CutFrom(t, X, a, ny)
      <3> HIDE DEF a
      <3> QED
        BY <1>1, <2>1, Cut
    <2> HIDE DEF t
    <2>4. IsSequence(t) /\ Len(t) = ny /\ \A i \in 1 .. ny : t[i] = r_y[i]
      BY <1>15, <2>3 DEF CutFrom
    <2>5. t = r_y
      BY <1>14, <2>4, SameSequence
    <2> QED
      BY <2>2, <2>5
  <1>19. SubSeq(X, nx + 1 + ny + 1, nx + 1 + ny + 3) = p
    <2> DEFINE t == SubSeq(X, m + 1, m + 3)
    <2>1. CutFrom(t, X, m, 3)
      BY <1>1, Cut
    <2>2. t = SubSeq(X, nx + 1 + ny + 1, nx + 1 + ny + 3)
      BY <1>1
    <2> HIDE DEF t
    <2>3. IsSequence(t) /\ Len(t) = 3 /\ \A i \in 1 .. 3 : t[i] = p[i]
      BY <1>11, <2>1 DEF CutFrom
    <2>4. IsSequence(p) /\ Len(p) = 3
      <3>1. \A a, b, d : IsSequence(<<a, b, d>>) /\ Len(<<a, b, d>>) = 3
        BY Tuples
      <3> QED
        BY <3>1, Zenon DEF p, PublicValues
    <2>5. t = p
      BY <2>3, <2>4, SameSequence
    <2> QED
      BY <2>2, <2>5
  <1>20. Readable(X)
    BY <1>11, <1>15, <1>16, <1>17, <1>18, <1>19 DEF Readable, m, p
  <1> QED
    BY <1>12, <1>13, <1>20 DEF Complete, X, F

-----------------------------------------------------------------------------
(* The verifier's replay *)

(* Whoever opens the transcript again gets the same taus. *)
Reopens(t) ==
  \A p : Grown(oracle, p) =>
           Opening(p) = [challenges |-> taus, transcript |-> t, oracle |-> p]

(* Whoever sends the commitment of round k again gets the same challenges. *)
Resends(k, before, after) ==
  \A p : Grown(oracle, p) =>
           Exchange(shape, state.comm_w_per_round[k], k - 1, before, p)
             = [challenges |-> state.challenges[k], transcript |-> after, oracle |-> p]

(* T has the transcripts after the opening and after each round. *)
Replayed(T) ==
  /\ T[Now] = transcript
  /\ Reopens(T[0])
  /\ \A k \in 1 .. Now : Resends(k, T[k - 1], T[k])

(* The verifier has come to one of them. *)
Verifying(T) ==
  /\ verifier.round \in 0 .. Now
  /\ verifier = [transcript |-> T[verifier.round], taus |-> taus, round |-> verifier.round]

(* The stages after finalize. *)
Ended == {"finalized", "verify", "accepted", "rejected"}

(* The inductive invariant behind ProofsAreAccepted: the verifier can make  *)
(* every exchange again and has found nothing to refuse.                    *)
ReplayInv ==
  /\ stage # "start" => \E T : Replayed(T) /\ (stage = "verify" => Verifying(T))
  /\ stage \in Ended => U = Finalized(state, shape)
  /\ stage # "rejected"

(* Transcripts stay replayed while nobody asks the oracle. *)
LEMMA ReplayKept ==
  ASSUME UNCHANGED <<shape, dims, state, transcript, oracle, taus>>, NEW T, Replayed(T)
  PROVE  Replayed(T)'
  <1>1. Now' = Now
    BY DEF Now, CurrentRound
  <1>2. Reopens(T[0])'
    <2>1. \A p : Opening(p)' = Opening(p)
      BY DEF Opening
    <2>2. Reopens(T[0])
      BY DEF Replayed
    <2> QED
      BY <2>1, <2>2 DEF Reopens
  <1>3. ASSUME NEW k \in 1 .. Now PROVE Resends(k, T[k - 1], T[k])'
    BY DEF Replayed, Resends
  <1> QED
    BY <1>1, <1>2, <1>3 DEF Replayed

(* Start opens the transcript. *)
LEMMA ReplayStart ==
  ASSUME TypeInv, BoundInv, Start
  PROVE  ReplayInv'
  <1> DEFINE x == Opening(oracle)
  <1>1. /\ stage = "start" /\ transcript' = x.transcript /\ oracle' = x.oracle
        /\ taus' = x.challenges /\ stage' = "outer" /\ UNCHANGED <<shape, dims, state>>
    BY Zenon DEF Start
  <1>2. OpeningAgain(oracle)
    BY OpeningFacts DEF TypeInv, BoundInv, RoundsBound
  <1>3. Now = 0 /\ Now' = 0
    BY <1>1 DEF TypeInv, Counts, Now, CurrentRound
  <1>4. \A p : Opening(p)' = Opening(p)
    BY <1>1 DEF Opening
  <1>5. PICK T : T[0] = x.transcript
    <2>1. [k \in 0 .. 0 |-> x.transcript][0] = x.transcript
      OBVIOUS
    <2> QED
      BY <2>1
  <1>6. Reopens(T[0])'
    <2>1. ASSUME NEW p, Grown(x.oracle, p)
          PROVE  Opening(p) = [challenges |-> x.challenges, transcript |-> x.transcript,
                               oracle |-> p]
      BY <1>2, <2>1, Zenon DEF OpeningAgain
    <2> HIDE DEF x
    <2> QED
      BY <1>1, <1>4, <1>5, <2>1 DEF Reopens
  <1>7. Replayed(T)'
    <2> HIDE DEF x
    <2> QED
      BY <1>1, <1>3, <1>5, <1>6 DEF Replayed
  <1> QED
    BY <1>1, <1>7 DEF ReplayInv, Ended

(* A round's exchange is the one the verifier will make again. *)
LEMMA ReplayRound ==
  ASSUME TypeInv, BoundInv, ReplayInv,
         OuterRound \/ OuterFinal \/ InnerFirst \/ InnerRound \/ InnerFinal \/ CommitW
  PROVE  ReplayInv'
  <1> DEFINE n == Now
  <1>1. PICK circuit, x : Rounded(circuit, x)
    BY RoundActions
  <1>2. stage \in RoundStages /\ stage' \in RoundStages \cup {"finalize"}
    <2>1. stage \in RoundStages
      BY RoundActions
    <2>2. IsSequence(r_y) /\ (stage = "inner_first" => Len(r_y) = 0)
      BY DEF TypeInv, Counts
    <2>3. stage' \in RoundStages \cup {"finalize"}
      BY Zenon DEF OuterRound, OuterFinal, InnerFirst, InnerRound, InnerFinal, CommitW,
                   RoundStages
    <2> QED
      BY <2>1, <2>3
  <1>3. PICK T : Replayed(T)
    BY <1>2 DEF ReplayInv, RoundStages
  <1>4. /\ state' = x.state /\ transcript' = x.transcript /\ oracle' = x.oracle
        /\ UNCHANGED <<shape, dims, taus>>
        /\ Processed(x, Made(circuit), state, shape, Syn(circuit), n)
    BY <1>1 DEF Rounded
  <1>5. Now' = n + 1 /\ n \in Nat
    BY <1>1, RoundedType
  <1> DEFINE e == Made(circuit)
             comm == RoundSent(state, shape, Syn(circuit), n)
  <1>6. /\ x.transcript = e.transcript /\ x.oracle = e.oracle
        /\ x.state.challenges = Append(state.challenges, e.challenges)
        /\ x.state.comm_w_per_round = Append(state.comm_w_per_round, comm)
    BY <1>4 DEF Processed
  <1>7. /\ RoundsBound(state, transcript, oracle, TauQueries)
        /\ OracleOK(oracle) /\ TranscriptOK(transcript, oracle)
        /\ IsSequence(state.challenges) /\ Len(state.challenges) = n
        /\ IsSequence(state.comm_w_per_round) /\ Len(state.comm_w_per_round) = n
    BY DEF BoundInv, RoundsBound, Now, CurrentRound
  <1>8. Grown(oracle, x.oracle)
    BY <1>4, <1>7, BoundProcessed DEF Made
  <1>9. Repeats(shape, comm, n, transcript, oracle) /\ e = Exchange(shape, comm, n, transcript, oracle)
    <2>1. e = Exchange(shape, comm, n, transcript, oracle)
      BY Zenon DEF Made, RoundExchange
    <2> HIDE DEF comm, n, e
    <2> QED
      BY <1>7, <2>1, ExchangeFacts
  <1> HIDE DEF e, comm, n
  <1>10. /\ Len(x.state.challenges) = n + 1
         /\ \A i \in 1 .. n : x.state.challenges[i] = state.challenges[i]
         /\ x.state.challenges[n + 1] = e.challenges
    BY <1>6, <1>7, Appended
  <1>11. /\ \A i \in 1 .. n : x.state.comm_w_per_round[i] = state.comm_w_per_round[i]
         /\ x.state.comm_w_per_round[n + 1] = comm
    BY <1>6, <1>7, Appended
  <1>12. PICK R : R[n + 1] = x.transcript /\ \A k \in 0 .. n : R[k] = T[k]
    <2> DEFINE S == [k \in 0 .. n + 1 |-> IF k = n + 1 THEN x.transcript ELSE T[k]]
    <2>1. \A k \in 0 .. n : k # n + 1 /\ k \in 0 .. n + 1
      BY <1>5
    <2>2. n + 1 \in 0 .. n + 1
      BY <1>5
    <2>3. S[n + 1] = x.transcript /\ \A k \in 0 .. n : S[k] = T[k]
      BY <2>1, <2>2
    <2> QED
      BY <2>3
  <1>13. \A p : Grown(oracle', p) => Grown(oracle, p)
    BY <1>4, <1>7, <1>8, GrownTransitive
  <1>14. Reopens(R[0])'
    <2>1. Reopens(T[0]) /\ R[0] = T[0]
      BY <1>3, <1>5, <1>12 DEF Replayed
    <2>2. \A p : Opening(p)' = Opening(p)
      BY <1>4 DEF Opening
    <2>3. Reopens(T[0])'
      BY <1>4, <1>13, <2>1, <2>2 DEF Reopens
    <2> QED
      BY <2>1, <2>3
  <1>15. ASSUME NEW k \in 1 .. n + 1 PROVE Resends(k, R[k - 1], R[k])'
    <2>1. CASE k = n + 1
      <3>1. k - 1 = n /\ n \in 0 .. n
        BY <1>5, <2>1
      <3>2. R[k - 1] = transcript /\ R[k] = x.transcript
        BY <1>3, <1>12, <2>1, <3>1 DEF Replayed, n
      <3>3. ASSUME NEW p, Grown(x.oracle, p)
            PROVE  Exchange(shape, comm, n, transcript, p)
                     = [challenges |-> e.challenges, transcript |-> e.transcript, oracle |-> p]
        <4>1. Grown(Exchange(shape, comm, n, transcript, oracle).oracle, p)
          BY <1>6, <1>9, <3>3
        <4> QED
          BY <1>9, <4>1 DEF Repeats
      <3> QED
        BY <1>4, <1>6, <1>10, <1>11, <2>1, <3>1, <3>2, <3>3 DEF Resends
    <2>2. CASE k # n + 1
      <3>1. k \in 1 .. n /\ k \in 0 .. n /\ k - 1 \in 0 .. n
        BY <1>5, <2>2
      <3>2. Resends(k, T[k - 1], T[k])
        BY <1>3, <3>1 DEF Replayed, n
      <3>3. R[k - 1] = T[k - 1] /\ R[k] = T[k]
        BY <1>12, <3>1
      <3>4. Resends(k, R[k - 1], R[k])
        BY <3>2, <3>3
      <3> QED
        BY <1>4, <1>10, <1>11, <1>13, <3>1, <3>4 DEF Resends
    <2> QED
      BY <2>1, <2>2
  <1>16. Replayed(R)'
    BY <1>4, <1>5, <1>12, <1>14, <1>15 DEF Replayed
  <1>17. stage' # "start" /\ stage' # "verify" /\ stage' \notin Ended /\ stage' # "rejected"
    BY <1>2 DEF RoundStages, Ended
  <1> QED
    BY <1>16, <1>17 DEF ReplayInv

(* A round of the verifier is the exchange of the prover, made again. *)
LEMMA ReplayVerify ==
  ASSUME TypeInv, BoundInv, WitnessInv, ReplayInv, VerifyRound
  PROVE  ReplayInv'
  <1> DEFINE x == ValidateRound(U, shape, verifier.round, verifier.transcript, oracle)
             k == verifier.round + 1
             n == Now
  <1>1. /\ stage = "verify" /\ verifier.round < shape.num_rounds
        /\ verifier' = [verifier EXCEPT !.transcript = x.transcript, !.round = @ + 1]
        /\ oracle' = x.oracle /\ stage' = IF x.ok THEN "verify" ELSE "rejected"
        /\ UNCHANGED <<shape, dims, state, transcript, taus, U>>
    BY Zenon DEF VerifyRound
  <1>2. PICK T : Replayed(T) /\ Verifying(T)
    BY <1>1 DEF ReplayInv
  <1>3. U = Finalized(state, shape)
    BY <1>1 DEF ReplayInv, Ended
  <1>4. /\ U.comm_w_per_round = state.comm_w_per_round
        /\ U.challenges_per_round = state.challenges
    BY <1>3 DEF Finalized
  <1>5. /\ n \in Nat /\ shape.num_rounds = n
    <2>1. dims \in Dims /\ ShapeIs(shape, dims) /\ Counts
      BY ShapeFacts DEF TypeInv
    <2>2. n = dims.nx + dims.ny + 3
      BY <1>1, <2>1 DEF Counts
    <2>3. n \in Nat /\ NumRounds(dims) = dims.nx + dims.ny + 3
      BY Numbers, Indices DEF TypeInv
    <2> QED
      BY <2>1, <2>2, <2>3 DEF ShapeIs
  <1>6. verifier.round \in 0 .. n /\ k \in 1 .. n /\ k - 1 = verifier.round
    <2>1. verifier.round \in 0 .. n
      BY <1>2 DEF Verifying
    <2> HIDE DEF n
    <2> QED
      BY <1>1, <1>5, <2>1
  <1>7. /\ verifier = [transcript |-> T[verifier.round], taus |-> taus,
                       round |-> verifier.round]
        /\ verifier.transcript = T[k - 1]
    <2>1. verifier = [transcript |-> T[verifier.round], taus |-> taus,
                      round |-> verifier.round]
      BY <1>2 DEF Verifying
    <2> QED
      BY <1>6, <2>1
  <1> DEFINE e == Exchange(shape, U.comm_w_per_round[k], verifier.round,
                           verifier.transcript, oracle)
  <1>8. Validated(x, e, U, shape, verifier.round)
    BY ValidateIs
  <1>9. e = [challenges |-> state.challenges[k], transcript |-> T[k], oracle |-> oracle]
    <2>1. Resends(k, T[k - 1], T[k])
      BY <1>2, <1>6 DEF Replayed
    <2>2. Grown(oracle, oracle)
      BY GrownReflexive DEF BoundInv, RoundsBound
    <2>3. Exchange(shape, state.comm_w_per_round[k], k - 1, T[k - 1], oracle)
            = [challenges |-> state.challenges[k], transcript |-> T[k], oracle |-> oracle]
      BY <2>1, <2>2 DEF Resends
    <2> HIDE DEF k
    <2> QED
      BY <1>4, <1>6, <1>7, <2>3
  <1>10. Len(state.comm_w_per_round[k].segment) = shape.num_vars[k]
    BY <1>6 DEF WitnessInv
  <1> HIDE DEF x, e
  <1>11. /\ x.transcript = T[k] /\ x.oracle = oracle /\ x.ok
    <2>1. /\ e.transcript = T[k] /\ e.oracle = oracle /\ e.challenges = state.challenges[k]
      BY <1>9
    <2>2. /\ x.transcript = e.transcript /\ x.oracle = e.oracle
          /\ x.ok <=> /\ Len(U.comm_w_per_round[k].segment) = shape.num_vars[k]
                      /\ U.challenges_per_round[k] = e.challenges
      BY <1>8 DEF Validated
    <2> QED
      BY <1>4, <1>10, <2>1, <2>2
  <1>12. stage' = "verify" /\ oracle' = oracle
    BY <1>1, <1>11
  <1>13. Replayed(T)'
    BY <1>1, <1>2, <1>12, ReplayKept
  <1>14. Verifying(T)'
    <2>1. Now' = n
      BY <1>1 DEF Now, CurrentRound
    <2>2. verifier' = [transcript |-> T[k], taus |-> taus, round |-> k]
      <3> DEFINE a == T[verifier.round]
                 c == verifier.round
                 v == [verifier EXCEPT !.transcript = T[k]]
      <3>1. verifier' = [verifier EXCEPT !.transcript = T[k], !.round = k]
        BY <1>1, <1>11
      <3>2. verifier' = [v EXCEPT !.round = k]
        <4> HIDE DEF k
        <4> QED
          BY <3>1
      <3>3. verifier = [transcript |-> a, taus |-> taus, round |-> c]
        BY <1>7
      <3> HIDE DEF a, c, k
      <3>4. v = [transcript |-> T[k], taus |-> taus, round |-> c]
        BY <3>3
      <3> HIDE DEF v
      <3> QED
        BY <3>2, <3>4
    <2>3. verifier'.round = k
      BY <2>2
    <2>4. k \in 0 .. n
      BY <1>5, <1>6
    <2> HIDE DEF k, n
    <2> QED
      BY <1>1, <2>1, <2>2, <2>3, <2>4 DEF Verifying
  <1>15. U' = Finalized(state, shape)'
    BY <1>1, <1>3 DEF Finalized
  <1> QED
    BY <1>12, <1>13, <1>14, <1>15 DEF ReplayInv

(* What verify computes from an honest instance is what it finds in it. *)
LEMMA ReplayConclude ==
  ASSUME TypeInv, BoundInv, ValueInv, InputsInv, WitnessInv, ReplayInv, Conclude
  PROVE  ReplayInv'
  <1> DEFINE X == RegularX(U)
             s == SliceOf(X)
             accepted == /\ Len(X) = dims.nx + 1 + dims.ny + 3
                         /\ s.public_values = ExpectedPublicValues(s)
                         /\ OpensToEvaluation(s)
  <1>1. /\ stage = "verify" /\ stage' = IF accepted THEN "accepted" ELSE "rejected"
        /\ UNCHANGED <<shape, dims, state, transcript, oracle, taus, U>>
    BY Zenon DEF Conclude
  <1>2. PICK T : Replayed(T) /\ Verifying(T)
    BY <1>1 DEF ReplayInv
  <1>3. U = Finalized(state, shape)
    BY <1>1 DEF ReplayInv, Ended
  <1>4. U.comm_w_per_round = state.comm_w_per_round
    BY <1>3 DEF Finalized
  <1>5. /\ dims.nx \in Nat /\ dims.nx >= 1 /\ dims.ny \in Nat /\ dims.ny >= 2
        /\ LastChallenge = dims.nx + 1 + dims.ny /\ Now = NumRounds(dims)
        /\ Now = dims.nx + dims.ny + 3
        /\ Len(r_x) = dims.nx /\ Len(r_y) = dims.ny
    <2>1. Counts /\ dims \in Dims
      BY DEF TypeInv
    <2>2. Now = dims.nx + dims.ny + 3 /\ Len(r_x) = dims.nx /\ Len(r_y) = dims.ny
      BY <1>1, <2>1 DEF Counts
    <2> QED
      BY <2>1, <2>2, Numbers, Indices
  <1>6. Readable(X)
    <2>1. Complete
      BY <1>5, CompleteAtTheEnd
    <2> HIDE DEF X
    <2>2. X = RegularX(Finalized(state, shape))
      BY <1>3, Zenon DEF X
    <2> QED
      BY <2>1, <2>2 DEF Complete
  <1>7. /\ Len(X) = LastChallenge + 3 /\ s.r_x = r_x /\ s.r_y = r_y
        /\ s.public_values = PublicValues
    BY <1>6, Zenon DEF Readable
  <1>8. verifier.taus = taus
    <2>1. verifier = [transcript |-> T[verifier.round], taus |-> taus,
                      round |-> verifier.round]
      BY <1>2 DEF Verifying
    <2> QED
      BY <2>1
  <1> HIDE DEF X, s
  <1>9. r_y[1] = Ch(state, dims.nx + 2) /\ r_y[Len(r_y)] = Ch(state, LastChallenge)
    <2>1. Kept
      BY DEF ValueInv
    <2>2. /\ 1 \in 1 .. Len(r_y) /\ Len(r_y) \in 1 .. Len(r_y)
          /\ dims.nx + 1 + 1 = dims.nx + 2 /\ dims.nx + 1 + Len(r_y) = LastChallenge
      BY <1>5
    <2>3. \A j \in 1 .. Len(r_y) : r_y[j] = Ch(state, dims.nx + 1 + j)
      BY <2>1 DEF Kept
    <2> QED
      BY <2>2, <2>3
  <1>10. ExpectedPublicValues(s) = PublicValues
    <2>1. ExpectedPublicValues(s)
            = <<<<"tau", s.r_x, verifier.taus>>, <<"eval_X", 1, Tail(s.r_y)>>,
                Quotient(<<"eval", <<"inner", 1, Len(s.r_y) - 1>>, s.r_y[Len(s.r_y)]>>,
                         <<"eval_W", 1, Tail(s.r_y)>>, <<"eval_X", 1, Tail(s.r_y)>>,
                         s.r_y[1])>>
      BY Zenon DEF ExpectedPublicValues
    <2>2. ExpectedPublicValues(s)
            = <<<<"tau", r_x, taus>>, <<"eval_X", 1, Tail(r_y)>>,
                Quotient(<<"eval", <<"inner", 1, dims.ny - 1>>, r_y[Len(r_y)]>>,
                         <<"eval_W", 1, Tail(r_y)>>, <<"eval_X", 1, Tail(r_y)>>,
                         r_y[1])>>
      BY <1>5, <1>7, <1>8, <2>1
    <2> QED
      BY <1>9, <2>2 DEF PublicValues, LastEval, Tau, EvalX, EvalW
  <1>11. OpensToEvaluation(s)
    <2>1. EvalWCommitRound + 1 = Now
      BY <1>5 DEF EvalWCommitRound
    <2>2. state.comm_w_per_round[Now].segment = WithZeros(EvalW, Width)
      BY <1>5 DEF WitnessInv
    <2>3. WithZeros(EvalW, Width)
            = [k \in 1 .. Width |-> IF k = 1 THEN <<"eval_W", 1, Tail(s.r_y)>> ELSE Zero]
      BY <1>7, Zenon DEF WithZeros, EvalW
    <2> QED
      BY <1>4, <2>1, <2>2, <2>3 DEF OpensToEvaluation
  <1>12. accepted
    BY <1>5, <1>7, <1>10, <1>11
  <1>13. stage' = "accepted"
    <2> HIDE DEF accepted
    <2> QED
      BY <1>1, <1>12
  <1>14. Replayed(T)'
    BY <1>1, <1>2, ReplayKept
  <1>15. U' = Finalized(state, shape)'
    BY <1>1, <1>3 DEF Finalized
  <1> QED
    BY <1>13, <1>14, <1>15 DEF ReplayInv

(* Every step keeps it. *)
LEMMA ReplayNext ==
  ASSUME TypeInv, BoundInv, ValueInv, InputsInv, WitnessInv, ReplayInv, [Next]_vars
  PROVE  ReplayInv'
  <1>1. CASE Start
    BY <1>1, ReplayStart
  <1>2. CASE OuterRound \/ OuterFinal \/ InnerFirst \/ InnerRound \/ InnerFinal \/ CommitW
    BY <1>2, ReplayRound
  <1>3. CASE DivisionByZero \/ Finalize
    <2>1. /\ UNCHANGED <<shape, dims, state, transcript, oracle, taus>>
          /\ \/ stage' = "failed"
             \/ stage' = "finalized" /\ U' = Finalized(state, shape)
          /\ stage \in {"inner_final", "finalize"}
      BY <1>3, Zenon DEF DivisionByZero, Finalize
    <2>2. PICK T : Replayed(T)
      BY <2>1 DEF ReplayInv
    <2>3. Replayed(T)'
      BY <2>1, <2>2, ReplayKept
    <2>4. Finalized(state, shape)' = Finalized(state, shape)
      BY <2>1 DEF Finalized
    <2> QED
      BY <2>1, <2>3, <2>4 DEF ReplayInv, Ended
  <1>4. CASE StartVerify
    <2> DEFINE x == Opening(oracle)
    <2>1. /\ stage = "finalized" /\ stage' = "verify" /\ oracle' = x.oracle
          /\ verifier' = [transcript |-> x.transcript, taus |-> x.challenges, round |-> 0]
          /\ UNCHANGED <<shape, dims, state, transcript, taus, U>>
      BY <1>4, Zenon DEF StartVerify
    <2>2. PICK T : Replayed(T)
      BY <2>1 DEF ReplayInv
    <2>3. x = [challenges |-> taus, transcript |-> T[0], oracle |-> oracle]
      <3>1. Grown(oracle, oracle)
        BY GrownReflexive DEF BoundInv, RoundsBound
      <3> QED
        BY <2>2, <3>1 DEF Replayed, Reopens
    <2> HIDE DEF x
    <2>4. /\ oracle' = oracle
          /\ verifier' = [transcript |-> T[0], taus |-> taus, round |-> 0]
      BY <2>1, <2>3
    <2>5. Replayed(T)'
      BY <2>1, <2>2, <2>4, ReplayKept
    <2>6. Verifying(T)'
      <3>1. Now' = Now /\ Now \in Nat
        BY <2>1, Numbers DEF Now, CurrentRound
      <3>2. verifier'.round = 0
        BY <2>4
      <3> QED
        BY <2>1, <2>4, <3>1, <3>2 DEF Verifying
    <2>7. U' = Finalized(state, shape)'
      BY <2>1 DEF ReplayInv, Ended, Finalized
    <2> QED
      BY <2>1, <2>5, <2>6, <2>7 DEF ReplayInv
  <1>5. CASE VerifyRound
    BY <1>5, ReplayVerify
  <1>6. CASE Conclude
    BY <1>6, ReplayConclude
  <1>7. CASE UNCHANGED vars
    <2>1. UNCHANGED <<shape, dims, stage, state, transcript, oracle, taus, U, verifier>>
      BY <1>7, Zenon DEF vars
    <2>2. stage # "start" =>
            \E T : Replayed(T)' /\ (stage = "verify" => Verifying(T)')
      <3> SUFFICES ASSUME stage # "start"
                   PROVE  \E T : Replayed(T)' /\ (stage = "verify" => Verifying(T)')
        OBVIOUS
      <3>1. PICK T : Replayed(T) /\ (stage = "verify" => Verifying(T))
        BY DEF ReplayInv
      <3>2. Replayed(T)'
        BY <2>1, <3>1, ReplayKept
      <3>3. stage = "verify" => Verifying(T)'
        <4>1. Now' = Now
          BY <2>1 DEF Now, CurrentRound
        <4> QED
          BY <2>1, <3>1, <4>1 DEF Verifying
      <3> QED
        BY <3>2, <3>3
    <2>3. Finalized(state, shape)' = Finalized(state, shape)
      BY <2>1 DEF Finalized
    <2> QED
      BY <2>1, <2>2, <2>3 DEF ReplayInv
  <1> QED
    BY <1>1, <1>2, <1>3, <1>4, <1>5, <1>6, <1>7 DEF Next

(* All invariants the acceptance of honest proofs rests on. *)
ReplayAll == TypeInv /\ BoundInv /\ ValueInv /\ InputsInv /\ WitnessInv /\ ReplayInv

(* They imply the property of the runs. *)
LEMMA AcceptedInTheEnd ==
  ASSUME ReplayAll
  PROVE  ProofsAreAccepted
  <1>1. TypeInv /\ BoundInv /\ ValueInv /\ InputsInv /\ WitnessInv /\ ReplayInv
    BY DEF ReplayAll
  <1>2. stage # "rejected"
    BY <1>1 DEF ReplayInv
  <1>3. stage \in RoundStages => Accepts
    BY <1>1, RoundsAccepted
  <1>4. stage \in Ended \cup {"finalize"} => Complete
    <2>1. Counts /\ dims \in Dims
      BY <1>1 DEF TypeInv
    <2>2. stage \in Ended \cup {"finalize"} => Now = dims.nx + dims.ny + 3
      BY <2>1 DEF Counts, Ended
    <2>3. NumRounds(dims) = dims.nx + dims.ny + 3
      BY <2>1, Indices
    <2> QED
      BY <1>1, <2>2, <2>3, CompleteAtTheEnd
  <1>5. stage = "finalize" => MayFinalize(state, shape)
    BY <1>4 DEF Complete
  <1>6. stage \in {"finalized", "verify", "accepted"} =>
          /\ LengthsValid(U, shape)
          /\ SliceOf(RegularX(U)).r_x = r_x /\ SliceOf(RegularX(U)).r = r
          /\ SliceOf(RegularX(U)).r_y = r_y
    <2> SUFFICES ASSUME stage \in {"finalized", "verify", "accepted"}
                 PROVE  /\ LengthsValid(U, shape)
                        /\ SliceOf(RegularX(U)).r_x = r_x /\ SliceOf(RegularX(U)).r = r
                        /\ SliceOf(RegularX(U)).r_y = r_y
      OBVIOUS
    <2>1. U = Finalized(state, shape)
      BY <1>1 DEF ReplayInv, Ended
    <2>2. LengthsValid(Finalized(state, shape), shape)
          /\ Readable(RegularX(Finalized(state, shape)))
      BY <1>4 DEF Complete, Ended
    <2> QED
      BY <2>1, <2>2, Zenon DEF Readable
  <1> QED
    BY <1>2, <1>3, <1>5, <1>6, Zenon DEF ProofsAreAccepted

(* Prover and verifier agree, whatever the numbers of rounds. *)
THEOREM HonestProofsAccepted == Spec => []ProofsAreAccepted
  <1>1. Init => ReplayAll
    <2> SUFFICES ASSUME Init PROVE ReplayAll
      OBVIOUS
    <2>1. stage = "start"
      BY Zenon DEF Init
    <2>2. ReplayInv
      BY <2>1 DEF ReplayInv, Ended
    <2> QED
      BY <2>2, TypeInit, BoundInit, ValueInit, InputsInit, WitnessInit DEF ReplayAll
  <1>2. ReplayAll /\ [Next]_vars => ReplayAll'
    <2> SUFFICES ASSUME ReplayAll, [Next]_vars PROVE ReplayAll'
      OBVIOUS
    <2>1. TypeInv /\ BoundInv /\ ValueInv /\ InputsInv /\ WitnessInv /\ ReplayInv
      BY DEF ReplayAll
    <2>2. TypeInv' /\ BoundInv' /\ ValueInv'
      BY <2>1, TypeNext, BoundNext, ValueNext
    <2>3. InputsInv' /\ WitnessInv'
      BY <2>1, InputsNext, WitnessNext
    <2>4. ReplayInv'
      BY <2>1, ReplayNext
    <2> QED
      BY <2>2, <2>3, <2>4 DEF ReplayAll
  <1>3. ReplayAll => ProofsAreAccepted
    BY AcceptedInTheEnd
  <1> QED
    BY <1>1, <1>2, <1>3, PTL DEF Spec

=============================================================================
