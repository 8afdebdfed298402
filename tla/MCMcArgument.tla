---------------------------- MODULE MCMcArgument ----------------------------
(***************************************************************************)
(* Dimensions for McArgument: each of the three protocols with its         *)
(* smallest number of rounds and with more, and calls whose number of      *)
(* folding rounds is and is not the key's.                                 *)
(***************************************************************************)
EXTENDS McArgument

MCKeyDims == [nb : 1 .. 3, nx : 1 .. 2, ny : 2 .. 3]
MCCallRounds == 1 .. 3

=============================================================================
