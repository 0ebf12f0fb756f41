----------------------------- MODULE ActiveChain -----------------------------
(***************************************************************************)
(* What the block tree promises the rest of the node (wallet, RPC, peers): *)
(* a single chain of sound blocks that starts at genesis and moves only    *)
(* by switching to a strictly heavier sound chain through the checkpoint,  *)
(* giving up no more blocks than the reorg policy allows.  The one other   *)
(* move is the repair at startup, which keeps a prefix.                    *)
(***************************************************************************)
EXTENDS ChainPolicy

VARIABLES chain, checkpoint, pinned

chainVars == <<chain, checkpoint, pinned>>

-----------------------------------------------------------------------------
ChainInit ==
  /\ chain = <<Genesis>>
  /\ checkpoint = [height |-> 0, hash |-> Genesis]
  /\ pinned = FALSE

\* The chain moves to a heavier sound one, an extension or a reorg.
Switch ==
  \E b \in Block :
    /\ SoundChain(b)
    /\ TotalWork[b] > TotalWork[Tip(chain)]
    /\ MatchesCheckpoint(Chain[b], checkpoint)
    /\ ReorgAllowed(chain, Chain[b])
    /\ chain' = Chain[b]
    /\ checkpoint' = RefreshedCheckpoint(Chain[b], checkpoint, pinned)
    /\ UNCHANGED pinned

\* Startup finds a block of the chain unreadable and keeps what precedes it.
Truncate ==
  \E n \in 1..(Len(chain) - 1) :
    /\ chain' = SubSeq(chain, 1, n)
    /\ checkpoint' = RefreshedCheckpoint(chain', checkpoint, pinned)
    /\ UNCHANGED pinned

Pin ==
  /\ checkpoint' = [height |-> BestHeight(chain), hash |-> Tip(chain)]
  /\ pinned' = TRUE
  /\ UNCHANGED chain

Unpin ==
  /\ checkpoint' = TrailingCheckpoint(chain)
  /\ pinned' = FALSE
  /\ UNCHANGED chain

ChainNext == Switch \/ Truncate \/ Pin \/ Unpin

ChainSpec == ChainInit /\ [][ChainNext]_chainVars
=============================================================================
