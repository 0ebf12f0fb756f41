----------------------------- MODULE ChainPolicy -----------------------------
(***************************************************************************)
(* The rules by which one path of blocks may replace another: how deep a   *)
(* reorg goes, what the local checkpoint demands, where it trails.         *)
(***************************************************************************)
EXTENDS BlockTree

CONSTANTS
  MaxReorgDepth,         \* constants::MAX_REORG_DEPTH
  RuntimeMaxReorgDepth,  \* runtime_max_reorg_depth(): CRYPTEX_MAX_REORG_DEPTH
  AllowDeepReorg         \* allow_deep_reorg(): CRYPTEX_ALLOW_DEEP_REORG

ASSUME ReorgAssumption ==
  /\ MaxReorgDepth \in Nat
  /\ RuntimeMaxReorgDepth \in Nat
  /\ AllowDeepReorg \in BOOLEAN

-----------------------------------------------------------------------------
Tip(path) == path[Len(path)]

BestHeight(path) == Len(path) - 1

\* The blocks of path that a switch to candidate takes off the active chain.
SharedPrefix(path, candidate) ==
  CHOOSE n \in 0..Len(path) :
    /\ n <= Len(candidate)
    /\ \A i \in 1..n : path[i] = candidate[i]
    /\ (n < Len(path) /\ n < Len(candidate)) => path[n + 1] # candidate[n + 1]

ReorgDepth(path, candidate) == Len(path) - SharedPrefix(path, candidate)

ReorgAllowed(path, candidate) ==
  ReorgDepth(path, candidate) <= RuntimeMaxReorgDepth \/ AllowDeepReorg

\* The checkpoint that trails the tip of path by MaxReorgDepth blocks.
TrailingCheckpoint(path) ==
  LET h == IF BestHeight(path) > MaxReorgDepth
           THEN BestHeight(path) - MaxReorgDepth ELSE 0
  IN  [height |-> h, hash |-> path[h + 1]]

MatchesCheckpoint(path, cp) ==
  /\ Len(path) > cp.height
  /\ path[cp.height + 1] = cp.hash

\* refresh_local_checkpoint: a pinned checkpoint does not trail.
RefreshedCheckpoint(path, cp, isPinned) ==
  IF isPinned THEN cp ELSE TrailingCheckpoint(path)
=============================================================================
