---------------------------- MODULE MCScArgument ----------------------------
(***************************************************************************)
(* Dimensions for ScArgument: each sum-check with its smallest number of   *)
(* rounds (one outer, two inner) and with more.                            *)
(***************************************************************************)
EXTENDS ScArgument

MCDims == [nx : 1 .. 4, ny : 2 .. 5]

=============================================================================
