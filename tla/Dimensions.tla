----------------------------- MODULE Dimensions -----------------------------
(* Lengths: powers of two, their logarithms, and how a length is split.     *)
EXTENDS Naturals

LeastOf(a, b) == IF a < b THEN a ELSE b
GreatestOf(a, b) == IF a < b THEN b ELSE a

PowerOfTwo[k \in Nat] == IF k = 0 THEN 1 ELSE 2 * PowerOfTwo[k - 1]

(* log_2 of math.rs: the number of bits of n, less one for a power of two,  *)
(* so the logarithm is rounded up (the comment on it says down);            *)
(* usize::next_power_of_two, where the one after 0 is 1.                    *)
Log2(n) == CHOOSE k \in 0 .. n : n <= PowerOfTwo[k] /\ (k = 0 \/ PowerOfTwo[k - 1] < n)
NextPowerOfTwo(n) == PowerOfTwo[Log2(n)]

DivCeil(a, b) == (a + b - 1) \div b

(* Fault: the next power of two instead of the next multiple. *)
FaultyPadToWidth(width, n) == IF n = 0 THEN 0 ELSE NextPowerOfTwo(n)

(* pad_to_width: the next multiple of the width of a commitment key.        *)
PadToWidth(width, n) == DivCeil(n, width) * width

(* The length of the parts a table of powers is the outer product of.       *)
TensorLeft(n) == PowerOfTwo[DivCeil(Log2(NextPowerOfTwo(n)), 2)]
TensorRight(n) == PowerOfTwo[Log2(NextPowerOfTwo(n)) \div 2]

(* split_evals writes the second entry of the right part without asking     *)
(* whether there is one; a sparse evaluation drops coordinates that must    *)
(* exist.                                                                   *)
SplitEvalsFit(len_right) == len_right >= 2
SparseFits(num_vars, len) == Log2(NextPowerOfTwo(len)) <= num_vars - 1

=============================================================================
