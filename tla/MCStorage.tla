----------------------------- MODULE MCStorage -----------------------------
(***************************************************************************)
(* ChainStorage over the small block trees.                                *)
(***************************************************************************)
EXTENDS ChainStorage, SmallTrees
=============================================================================
