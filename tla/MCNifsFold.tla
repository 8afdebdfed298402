---------------------------- MODULE MCNifsFold ----------------------------
(***************************************************************************)
(* Batches of NifsFold: powers of two, and sizes that need one or several  *)
(* padding instances.                                                      *)
(***************************************************************************)
EXTENDS NifsFold

MCSizes == {2, 3, 4, 5, 6, 8, 9, 16}

=============================================================================
