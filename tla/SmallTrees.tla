----------------------------- MODULE SmallTrees -----------------------------
(***************************************************************************)
(* Small block trees.  A tree is given by the path to every block;         *)
(* difficulty differs between siblings, as it does when their timestamps   *)
(* do.                                                                     *)
(***************************************************************************)
\* Two branches that overtake each other, a bad block and its child.
ForkChain ==
  [g  |-> <<"g">>,
   a1 |-> <<"g", "a1">>,
   a2 |-> <<"g", "a1", "a2">>,
   b1 |-> <<"g", "b1">>,
   b2 |-> <<"g", "b1", "b2">>,
   x1 |-> <<"g", "b1", "x1">>,
   x2 |-> <<"g", "b1", "x1", "x2">>]
ForkBlock == DOMAIN ForkChain
ForkWork  == [g |-> 1, a1 |-> 2, a2 |-> 2, b1 |-> 2, b2 |-> 3, x1 |-> 1, x2 |-> 9]
ForkTotal == [g |-> 1, a1 |-> 3, a2 |-> 5, b1 |-> 3, b2 |-> 6, x1 |-> 4, x2 |-> 13]

\* One branch to damage, and a shorter heavier one to switch to.
FileChain ==
  [g  |-> <<"g">>,
   a1 |-> <<"g", "a1">>,
   a2 |-> <<"g", "a1", "a2">>,
   a3 |-> <<"g", "a1", "a2", "a3">>,
   b2 |-> <<"g", "a1", "b2">>]
FileBlock == DOMAIN FileChain
FileWork  == [g |-> 1, a1 |-> 1, a2 |-> 1, a3 |-> 1, b2 |-> 4]
FileTotal == [g |-> 1, a1 |-> 2, a2 |-> 3, a3 |-> 4, b2 |-> 6]
=============================================================================
