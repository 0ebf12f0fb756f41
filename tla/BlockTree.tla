------------------------------ MODULE BlockTree ------------------------------
(***************************************************************************)
(* The blocks of the world and the facts about each that no node can       *)
(* change.  A block's header names its parent by hash, so a block fixes    *)
(* the whole path from it down to genesis: Chain.  Its bits fix the work   *)
(* it adds, and together with its ancestors they decide whether the        *)
(* contextual checks of validated_prefix_length pass.  A block id stands   *)
(* both for the 512-bit proof-of-work id and for the 256-bit header link   *)
(* hash: link_index_ maps the second to the first and is written and       *)
(* erased together with index_.                                            *)
(***************************************************************************)
EXTENDS Integers, Sequences, FiniteSets

CONSTANTS
  Block,          \* every block that may reach the node, genesis included
  Genesis,        \* the block of Block::create_genesis
  NoBlock,        \* the null hash, an absent file, a failed lookup
  Chain,          \* Chain[b]: the path of hashes from genesis to b
  BlockWork,      \* block_work(bits) of each block
  TotalWork,      \* the sum of block_work along Chain[b]
  BadTimestamp,   \* blocks stamped no later than their parent
  BadBody         \* blocks that fail bits, merkle, coinbase, tx or reward checks

-----------------------------------------------------------------------------
BlocksOf(path) == {path[i] : i \in DOMAIN path}

Height == [b \in Block |-> Len(Chain[b]) - 1]

Heights == {Height[b] : b \in Block}

Parent == [b \in Block |-> IF b = Genesis THEN NoBlock
                                          ELSE Chain[b][Len(Chain[b]) - 1]]

\* A block that every check made with its ancestors at hand accepts.
Sound(b) == b \notin BadTimestamp \cup BadBody

SoundChain(b) == \A a \in BlocksOf(Chain[b]) : Sound(a)

\* build_path_to_genesis succeeds exactly for these members of an index.
Connected(known) == {b \in known : BlocksOf(Chain[b]) \subseteq known}

-----------------------------------------------------------------------------
ASSUME BlockAssumption ==
  /\ Genesis \in Block
  /\ NoBlock \notin Block
  /\ BadTimestamp \subseteq Block \ {Genesis}
  /\ BadBody \subseteq Block \ {Genesis}

\* The path of a block starts at genesis, ends in the block, and every prefix
\* of it is the path of the block the prefix ends in.
ASSUME ChainAssumption ==
  /\ Chain \in [Block -> Seq(Block)]
  /\ \A b \in Block :
       /\ Len(Chain[b]) >= 1
       /\ Chain[b][1] = Genesis
       /\ Chain[b][Len(Chain[b])] = b
       /\ \A i \in 1..Len(Chain[b]) : Chain[Chain[b][i]] = SubSeq(Chain[b], 1, i)

\* Targets above the proof-of-work limit, for which block_work answers 0, never
\* equal the expected bits: such blocks belong to BadBody with any work.
ASSUME WorkAssumption ==
  /\ BlockWork \in [Block -> Nat \ {0}]
  /\ TotalWork \in [Block -> Nat]
  /\ TotalWork[Genesis] = BlockWork[Genesis]
  /\ \A b \in Block \ {Genesis} : TotalWork[b] = TotalWork[Parent[b]] + BlockWork[b]
=============================================================================
