------------------------------ MODULE FoldSpec ------------------------------
(***************************************************************************)
(* What the NIFS prover of vega_mc_zkp.rs promises.  The batch of n        *)
(* instances is extended to a power of two with copies of instance 0, and  *)
(* its index is read as a string of bits, least significant bit first.     *)
(* Round t sends the polynomial of the sum-check over bit t, in which the  *)
(* bits before t are bound to the challenges so far and those after t are  *)
(* summed with their weights.  In the end all bits are bound, and the      *)
(* vectors handed on are the same combination of the instances.            *)
(*                                                                         *)
(* A vector is the set of its terms <<part, bits, instance>>: the part of  *)
(* the entries, those that fit a machine word or those that do not, of an  *)
(* instance, multiplied by eq of the bits with the first challenges.       *)
(***************************************************************************)
EXTENDS Naturals, Sequences, Dimensions

CONSTANT Sizes     \* possible numbers of instances

VARIABLES n, polys, out

Parts == {"small", "large"}
BitStrings(len) == [1 .. len -> {0, 1}]
NumRounds == Log2(n)

(* The index the string of bits stands for, and the instance there. *)
IndexOf[bits \in Seq({0, 1})] ==
  IF bits = <<>> THEN 0 ELSE bits[1] + 2 * IndexOf[Tail(bits)]
InstanceAt(bits) == IF IndexOf[bits] < n THEN IndexOf[bits] ELSE 0

(* The vectors' multilinear extension with the first t bits bound and the   *)
(* others equal to rest.                                                    *)
PartialEvaluation(t, rest) ==
  {<<part, bound, InstanceAt(bound \o rest)>> : part \in Parts, bound \in BitStrings(t)}

(* lo and hi are the two ends of A and B on bit t, c that of C at 0.  In    *)
(* round 0 the value at 0 is known to be 0, and C is not read.              *)
RoundPolynomial(t) ==
  {[weight |-> w,
    lo |-> PartialEvaluation(t, <<0>> \o w),
    hi |-> PartialEvaluation(t, <<1>> \o w),
    c  |-> IF t = 0 THEN {} ELSE PartialEvaluation(t, <<0>> \o w)] :
     w \in BitStrings(NumRounds - t - 1)}

Running == [status |-> "running", layers |-> <<>>]
Failed  == [status |-> "failed", layers |-> <<>>]
Done(ab, c, W) == [status |-> "done", layers |-> <<ab, c, W>>]

Init == n \in Sizes /\ polys = <<>> /\ out = Running

SendRound ==
  /\ out = Running
  /\ Len(polys) < NumRounds
  /\ polys' = Append(polys, RoundPolynomial(Len(polys)))
  /\ UNCHANGED <<n, out>>

Produce ==
  LET folded == PartialEvaluation(NumRounds, <<>>)
  IN  /\ out = Running
      /\ Len(polys) = NumRounds
      /\ out' = Done(folded, folded, folded)
      /\ UNCHANGED <<n, polys>>

(* A challenge whose weight has no inverse, or an error of the circuit.     *)
Fail == out = Running /\ out' = Failed /\ UNCHANGED <<n, polys>>

Next == SendRound \/ Produce \/ Fail

SafeSpec == Init /\ [][Next]_<<n, polys, out>>

Spec == SafeSpec /\ WF_<<n, polys, out>>(Next)

=============================================================================
