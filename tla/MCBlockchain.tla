---------------------------- MODULE MCBlockchain ----------------------------
(***************************************************************************)
(* Blockchain over the small block trees.                                  *)
(***************************************************************************)
EXTENDS Blockchain, SmallTrees
=============================================================================
