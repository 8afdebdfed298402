----------------------------- MODULE MCSumCheck -----------------------------
(* Sums of up to six coordinates, with every tau of up to two coordinates  *)
(* from 0, 1 and 3 and a few longer ones, the powers of 0, 1 and 3, and     *)
(* witnesses of two to eight entries with zero tails of every length.       *)
EXTENDS SumCheck

Field7 == 7
MCChallenges == {0, 1, 3}

Curve(size, a, b) == [i \in 0 .. size - 1 |-> (a * i * i + b * i + 2) % 7]

Cubic(kind, taus) ==
  LET size == 2 ^ Len(taus)
      left == Curve(size, 2, 1)
      right == Curve(size, 1, 4)
  IN  [kind |-> kind, size |-> size, taus |-> taus, t |-> 0, num_extra |-> 0,
       A |-> left, B |-> right, C |-> [i \in 0 .. size - 1 |-> (left[i] * right[i]) % 7],
       A_lo |-> Unknown, A_hi |-> Unknown, B_lo |-> Unknown, B_hi |-> Unknown]

LongTaus == {<<3, 0, 1>>, <<5, 3, 2>>, <<0, 3, 5, 1>>, <<3, 2, 5, 4>>, <<3, 2, 0, 5, 1, 4>>}

Power_(n, t) ==
  LET size == 2 ^ n
  IN  [kind |-> "power", size |-> size, taus |-> <<>>, t |-> t, num_extra |-> 0,
       A |-> Curve(size, 3, 1), B |-> Curve(size, 1, 2), C |-> Curve(size, 5, 0),
       A_lo |-> Unknown, A_hi |-> Unknown, B_lo |-> Unknown, B_hi |-> Unknown]

(* Columns past lo in the lower half and past extra in the upper are zero.  *)
Inner(kind, n, lo, extra) ==
  LET num == 2 ^ (n - 1)
      curve == Curve(2 * num, 2, 3)
      z == Curve(2 * num, 1, 1)
      upper(f) == [i \in 0 .. 2 * num - 1 |-> IF i >= num + extra THEN 0 ELSE f[i]]
      abc == [i \in 0 .. 2 * num - 1 |-> IF lo <= i /\ i < num THEN 0 ELSE upper(curve)[i]]
      known(k) == IF kind = "inner" THEN k ELSE Unknown
  IN  [kind |-> kind, size |-> 2 * num, taus |-> <<>>, t |-> 0, num_extra |-> extra,
       A |-> abc, B |-> upper(z), C |-> [i \in {0} |-> 0],
       A_lo |-> known(lo), A_hi |-> known(extra), B_lo |-> known(num), B_hi |-> known(extra)]

MCJobs ==
  {Cubic(kind, taus) : kind \in {"cubic", "zk_cubic"},
     taus \in [1 .. 1 -> MCChallenges] \cup [1 .. 2 -> MCChallenges] \cup LongTaus}
  \cup {Power_(n, t) : n \in 2 .. 4, t \in MCChallenges}
  \cup {Inner("inner", 2, lo, 1) : lo \in 0 .. 2}
  \cup {Inner("inner", 3, lo, extra) : lo \in 0 .. 4, extra \in 1 .. 2}
  \cup {Inner("inner", 4, 3, 3)}
  \cup {Inner("compact", 2, 2, 1), Inner("compact", 3, 3, 1), Inner("compact", 3, 4, 2),
        Inner("compact", 4, 7, 3)}

=============================================================================
