----------------------------- MODULE Blockchain -----------------------------
(***************************************************************************)
(* The class Blockchain: every block the node has heard of, the active     *)
(* path through them, the maps that decide which path is active, and the   *)
(* files they are rebuilt from when the process starts again.              *)
(*                                                                         *)
(* accept_block calls itself for every parked child of the block it has    *)
(* just connected.  Each of those calls is a step of its own here, taken   *)
(* from the stack "pending"; no other handler runs until it is empty, but  *)
(* the process may die between two of them.                                *)
(***************************************************************************)
EXTENDS ChainPolicy

CONSTANT MaxLosses      \* bound on block files lost to the outside world

Absent == -1            \* no entry for the block in a map

VARIABLES
  heightMap,       \* height_map_ and index.dat: the active path, genesis first
  index,           \* index_ and link_index_: blocks whose header is known
  blockPool,       \* block_pool_: blocks whose body is in memory
  chainWork,       \* chain_work_: a block with an entry counts as processed
  blockHeight,     \* block_height_
  heightIndex,     \* height_index_
  children,        \* children_: children[p] is the set parked under p
  localCheckpoint, \* local_checkpoint_, local_checkpoint.dat, manual_checkpoint.dat
  pinned,          \* manual_checkpoint_pinned_
  utxo,            \* the blocks whose transactions utxo_ and chainstate.dat hold
  heightFile,      \* blocks/blk<height>.dat
  hashFile,        \* blocks-by-hash/<hash>.dat
  headerFile,      \* headers.dat: the blocks whose header it lists
  pending,         \* the parked children that accept_block has still to retry
  started,         \* FALSE once the constructor has thrown
  losses           \* block files lost so far

maps  == <<chainWork, blockHeight, heightIndex, children>>
files == <<heightFile, hashFile, headerFile>>
vars  == <<heightMap, index, blockPool, maps, localCheckpoint, pinned, utxo,
           files, pending, started, losses>>

-----------------------------------------------------------------------------
(* Looking blocks up and validating a path                                 *)

\* get_block_by_hash: a hit in height_index_ ends the search even when the
\* height file is gone or holds another block.
Fetch(known, pool, heightOf, fileAt, b) ==
  IF b \notin known               THEN NoBlock
  ELSE IF b \in pool              THEN b
  ELSE IF heightOf[b] # Absent    THEN fileAt[heightOf[b]]
  ELSE IF b \in hashFile          THEN b
  ELSE NoBlock

Contents(known, pool, heightOf, fileAt, path) ==
  [i \in 1..Len(path) |-> Fetch(known, pool, heightOf, fileAt, path[i])]

\* Mutant of BlockValid: the linkage is not compared.
BlockValidUnlinked(content, i) == content[i] # NoBlock /\ Sound(content[i])

\* The checks validated_prefix_length makes of one block of a path: it reads
\* the linkage from the contents, not from the hashes of the path.
BlockValid(content, i) ==
  /\ content[i] # NoBlock
  /\ i > 1 => Parent[content[i]] = content[i - 1]
  /\ Sound(content[i])

Validates(content) == \A i \in 1..Len(content) : BlockValid(content, i)

\* Mutant of IsValidPrefix: the answer may stop before the first invalid block.
IsSomeValidPrefix(content, n) == \A i \in 1..n : BlockValid(content, i)

\* n is the length validated_prefix_length answers.
IsValidPrefix(content, n) ==
  /\ \A i \in 1..n : BlockValid(content, i)
  /\ n < Len(content) => ~BlockValid(content, n + 1)

-----------------------------------------------------------------------------
(* The maps after they are rebuilt, and after a path is activated          *)

\* The map that gives the blocks of S their value in f and the others no entry.
On(S, f) == [b \in Block |-> IF b \in S THEN f[b] ELSE Absent]

\* rebuild_known_block_state: every header that connects to genesis is given
\* its work and its height, and height_index_ is given the same heights.
RebuildMaps(known, path) ==
  LET reached == Connected(known)
  IN  /\ chainWork'   = On(reached, TotalWork)
      /\ blockHeight' = On(reached \cup BlocksOf(path), Height)
      /\ heightIndex' = On(reached \cup BlocksOf(path), Height)
      /\ children'    = [p \in Block |-> {b \in known : Parent[b] = p}]

\* remove_height for every height above best up to the first gap.
PruneAfter(best, fileAt) ==
  [h \in Heights |->
     IF h > best /\ \A k \in (best + 1)..h : fileAt[k] # NoBlock
     THEN NoBlock ELSE fileAt[h]]

\* Mutant of WriteHeights: a height file that exists is not written again.
WriteMissingHeights(content, fileAt) ==
  PruneAfter(Len(content) - 1,
    [h \in Heights |-> IF h < Len(content) /\ fileAt[h] = NoBlock
                       THEN content[h + 1] ELSE fileAt[h]])

WriteHeights(content, fileAt) ==
  PruneAfter(Len(content) - 1,
    [h \in Heights |-> IF h < Len(content) THEN content[h + 1] ELSE fileAt[h]])

\* Mutant of ActivatePath: the new UTXO set is not swapped in.
ActivatePathKeepingUtxo(path, content) ==
  /\ heightMap' = path
  /\ UNCHANGED utxo
  /\ heightFile' = WriteHeights(content, heightFile)
  /\ localCheckpoint' = RefreshedCheckpoint(path, localCheckpoint, pinned)

\* What activate_path writes for every path, in accept_block and in the repair.
ActivatePath(path, content) ==
  /\ heightMap' = path
  /\ utxo' = content
  /\ heightFile' = WriteHeights(content, heightFile)
  /\ localCheckpoint' = RefreshedCheckpoint(path, localCheckpoint, pinned)

\* Mutant of ActivateMaps: height_index_ keeps the entries it had.
ActivateMapsAdding(path) ==
  /\ chainWork'   = On(BlocksOf(path), TotalWork)
  /\ blockHeight' = On(BlocksOf(path), Height)
  /\ heightIndex' = [b \in Block |-> IF b \in BlocksOf(path)
                                     THEN Height[b] ELSE heightIndex[b]]

\* The maps activate_path installs know the blocks of the path and no other.
ActivateMaps(path) ==
  /\ chainWork'   = On(BlocksOf(path), TotalWork)
  /\ blockHeight' = On(BlocksOf(path), Height)
  /\ heightIndex' = On(BlocksOf(path), Height)

\* Mutant of PersistHeaders: headers.dat is written before index_ changes.
PersistHeadersEarly == headerFile' = index

\* persist_headers, always after index_ has its new value.
PersistHeaders == headerFile' = index'

-----------------------------------------------------------------------------
(* accept_block: the block b, the stack of parked children left over       *)

\* The next of the stack: retries the children of the newest block first.
Push(kids, rest) == IF kids = {} THEN rest ELSE <<kids>> \o rest

\* block_timestamp_valid against the parent's header, when that is known.
TimestampOK(b) == ~(Parent[b] \in index /\ b \in BadTimestamp)

\* The header, the body and the hash file are cached before the block is judged.
Cache(b) ==
  /\ index' = index \cup {b}
  /\ blockPool' = blockPool \cup {b}
  /\ hashFile' = hashFile \cup {b}

RejectTimestamp(b, rest) ==
  /\ ~TimestampOK(b)
  /\ pending' = rest
  /\ UNCHANGED <<heightMap, index, blockPool, maps, localCheckpoint, pinned,
                 utxo, files>>

\* A block with work is processed: it is cached again and nothing else.
AcceptKnown(b, rest) ==
  /\ TimestampOK(b)
  /\ chainWork[b] # Absent
  /\ Cache(b)
  /\ pending' = rest
  /\ UNCHANGED <<heightMap, maps, localCheckpoint, pinned, utxo, heightFile,
                 headerFile>>

ParentProcessed(b) == Parent[b] \in index /\ chainWork[Parent[b]] # Absent

\* The parent is unknown, or known without work: b waits under its parent.
ParkOrphan(b, rest) ==
  /\ TimestampOK(b)
  /\ chainWork[b] = Absent
  /\ b # Genesis
  /\ ~ParentProcessed(b)
  /\ Cache(b)
  /\ children' = [children EXCEPT ![Parent[b]] = @ \cup {b}]
  /\ pending' = rest
  /\ UNCHANGED <<heightMap, chainWork, blockHeight, heightIndex,
                 localCheckpoint, pinned, utxo, heightFile, headerFile>>

\* b gets as far as validated_prefix_length.  The lookups on the way (height of
\* the parent, a header for every ancestor) cannot fail: see Bookkeeping.
Candidate(b) ==
  /\ TimestampOK(b)
  /\ chainWork[b] = Absent
  /\ b # Genesis
  /\ ParentProcessed(b)
  /\ blockHeight[Parent[b]] # Absent
  /\ BlocksOf(Chain[b]) \subseteq index \cup {b}

CandidateContent(b) ==
  Contents(index \cup {b}, blockPool \cup {b}, heightIndex, heightFile, Chain[b])

CandidateWork(b) == chainWork[Parent[b]] + BlockWork[b]

\* Mutant of BeatsTip: a tie moves the tip.
TiesTip(b) ==
  \/ chainWork[Tip(heightMap)] = Absent
  \/ CandidateWork(b) >= chainWork[Tip(heightMap)]

\* Mutant of BeatsTip: the longer chain wins, not the heavier.
LongerThanTip(b) == Height[b] > BestHeight(heightMap)

BeatsTip(b) ==
  \/ chainWork[Tip(heightMap)] = Absent
  \/ CandidateWork(b) > chainWork[Tip(heightMap)]

\* The descendants of root that purge_cached_subtree reaches through children_.
Subtree(root, known) ==
  {b \in Block :
     \E i \in 1..Len(Chain[b]) :
        /\ Chain[b][i] = root
        /\ \A j \in (i + 1)..Len(Chain[b]) :
             /\ Chain[b][j - 1] \in known
             /\ Chain[b][j] \in children[Chain[b][j - 1]]}

\* purge_cached_subtree: the blocks of height_index_ are spared.
PurgeInvalid(b, rest) ==
  /\ Candidate(b)
  /\ ~Validates(CandidateContent(b))
  /\ LET known  == index \cup {b}
         doomed == {d \in Subtree(b, known) : heightIndex[d] = Absent}
     IN  /\ index' = known \ doomed
         /\ blockPool' = (blockPool \cup {b}) \ doomed
         /\ hashFile' = (hashFile \cup {b}) \ doomed
         /\ PersistHeaders
         /\ RebuildMaps(known \ doomed, heightMap)
  /\ pending' = rest
  /\ UNCHANGED <<heightMap, localCheckpoint, pinned, utxo, heightFile>>

\* Mutant of MayReplaceTip: the checkpoint is not consulted.
MayReplaceTipUnchecked(path) == ReorgAllowed(heightMap, path)

MayReplaceTip(path) ==
  /\ MatchesCheckpoint(path, localCheckpoint)
  /\ ReorgAllowed(heightMap, path)

\* Heavier than the tip, but across the checkpoint or too deep: the block stays
\* cached without work, and its own children are not retried.
RejectCandidate(b, rest) ==
  /\ Candidate(b)
  /\ Validates(CandidateContent(b))
  /\ BeatsTip(b)
  /\ ~MayReplaceTip(Chain[b])
  /\ Cache(b)
  /\ pending' = rest
  /\ UNCHANGED <<heightMap, maps, localCheckpoint, pinned, utxo, heightFile,
                 headerFile>>

\* A sound block that does not beat the tip joins a side branch.
StoreSide(b, rest) ==
  /\ Candidate(b)
  /\ Validates(CandidateContent(b))
  /\ ~BeatsTip(b)
  /\ Cache(b)
  /\ blockHeight' = [blockHeight EXCEPT ![b] = blockHeight[Parent[b]] + 1]
  /\ chainWork' = [chainWork EXCEPT ![b] = CandidateWork(b)]
  /\ pending' = Push(children[b], rest)
  /\ UNCHANGED <<heightMap, heightIndex, children, localCheckpoint, pinned, utxo,
                 heightFile, headerFile>>

\* The path to b becomes the active chain.
Activate(b, rest) ==
  /\ Candidate(b)
  /\ Validates(CandidateContent(b))
  /\ BeatsTip(b)
  /\ MayReplaceTip(Chain[b])
  /\ ActivatePath(Chain[b], CandidateContent(b))
  /\ ActivateMaps(Chain[b])
  /\ index' = index \cup {b}
  /\ blockPool' = blockPool \cup {b}
  /\ hashFile' = hashFile \cup {b} \cup BlocksOf(Chain[b])
  /\ PersistHeaders
  /\ pending' = Push(children[b], rest)
  /\ UNCHANGED <<children, pinned>>

AcceptBlock(b, rest) ==
  \/ RejectTimestamp(b, rest)
  \/ AcceptKnown(b, rest)
  \/ ParkOrphan(b, rest)
  \/ PurgeInvalid(b, rest)
  \/ RejectCandidate(b, rest)
  \/ StoreSide(b, rest)
  \/ Activate(b, rest)

\* A block arrives from a peer, the miner or the RPC server.  connect_block is
\* the same call for a block whose parent is the tip.
SubmitBlock(b) ==
  /\ started
  /\ pending = <<>>
  /\ AcceptBlock(b, <<>>)
  /\ UNCHANGED <<started, losses>>

\* Mutant of Without: the child stays on the stack.
WithoutPop(k) == pending

\* What is left to retry after the child k.
Without(k) == Push(Head(pending) \ {k}, Tail(pending))

\* accept_block calls itself for a parked child whose body is in block_pool_.
RetryChild(k) ==
  /\ k \in blockPool
  /\ AcceptBlock(k, Without(k))
  /\ UNCHANGED <<started, losses>>

\* A child known from headers.dat alone has no body in memory and is passed over.
SkipChild(k) ==
  /\ k \notin blockPool
  /\ pending' = Without(k)
  /\ UNCHANGED <<heightMap, index, blockPool, maps, localCheckpoint, pinned,
                 utxo, files, started, losses>>

RetryParked ==
  /\ started
  /\ pending # <<>>
  /\ \E k \in Head(pending) : RetryChild(k) \/ SkipChild(k)

-----------------------------------------------------------------------------
(* The checkpoint                                                          *)

Quiet == started /\ pending = <<>>

SetCheckpoint(cp, isPinned) ==
  /\ localCheckpoint' = cp
  /\ pinned' = isPinned
  /\ UNCHANGED <<heightMap, index, blockPool, maps, utxo, files, pending,
                 started, losses>>

\* Mutant of PinCheckpoint: the height after the tip, whose hash is null.
PinNextHeight ==
  /\ Quiet
  /\ SetCheckpoint([height |-> Len(heightMap), hash |-> NoBlock], TRUE)

PinCheckpoint ==
  /\ Quiet
  /\ SetCheckpoint([height |-> BestHeight(heightMap), hash |-> Tip(heightMap)], TRUE)

ClearPin ==
  /\ Quiet
  /\ SetCheckpoint(TrailingCheckpoint(heightMap), FALSE)

RefreshCheckpoint ==
  /\ Quiet
  /\ SetCheckpoint(RefreshedCheckpoint(heightMap, localCheckpoint, pinned), pinned)

-----------------------------------------------------------------------------
(* The constructor, after the process stopped at any point                 *)

OnDisk == BlocksOf(heightMap) \cup headerFile

\* ensure_genesis fills block_pool_ from the height files of the active chain.
ReadBack == {heightFile[h] : h \in 0..BestHeight(heightMap)} \ {NoBlock}

StartupContent ==
  Contents(OnDisk, ReadBack,
           On(Connected(OnDisk) \cup BlocksOf(heightMap), Height),
           heightFile, heightMap)

\* repair_height_files_from_active_index_if_needed.
RestoreHeights(path, fileAt, hashes) ==
  LET filled == [h \in Heights |->
                   IF h < Len(path) /\ fileAt[h] = NoBlock /\ path[h + 1] \in hashes
                   THEN path[h + 1] ELSE fileAt[h]]
  IN  IF filled = fileAt THEN fileAt ELSE PruneAfter(BestHeight(path), filled)

\* The active chain is kept: every block of it is readable and valid, or not
\* even the first is and the repair gives up.
StartKept ==
  LET stale == localCheckpoint.height > BestHeight(heightMap)
  IN  /\ \E n \in {0, Len(heightMap)} : IsValidPrefix(StartupContent, n)
      /\ index' = OnDisk
      /\ blockPool' = ReadBack
      /\ hashFile' = hashFile \cup ReadBack
      /\ heightFile' = RestoreHeights(heightMap, heightFile, hashFile')
      /\ RebuildMaps(OnDisk, heightMap)
      /\ started' = (stale \/ MatchesCheckpoint(heightMap, localCheckpoint))
      /\ pinned' = (pinned /\ ~stale)
      /\ localCheckpoint' = IF started'
                            THEN RefreshedCheckpoint(heightMap, localCheckpoint, pinned')
                            ELSE localCheckpoint
      /\ UNCHANGED <<heightMap, utxo, headerFile>>

\* repair_active_chain_if_needed: the chain is cut before the first block that
\* cannot be read or does not validate.  A repair keeps clear_stale_... from
\* running, so a pinned checkpoint above the cut makes the constructor throw.
StartRepaired ==
  \E n \in 1..(Len(heightMap) - 1) :
    LET path == SubSeq(heightMap, 1, n)
        cut  == BlocksOf(heightMap) \ BlocksOf(path)
    IN  /\ IsValidPrefix(StartupContent, n)
        /\ ActivatePath(path, SubSeq(StartupContent, 1, n))
        /\ index' = OnDisk \ cut
        /\ blockPool' = ReadBack \ cut
        /\ hashFile' = ((hashFile \cup ReadBack) \ cut) \cup BlocksOf(path)
        /\ PersistHeaders
        /\ RebuildMaps(OnDisk \ cut, path)
        /\ started' = MatchesCheckpoint(path, localCheckpoint')
        /\ UNCHANGED pinned

Restart ==
  /\ StartKept \/ StartRepaired
  /\ pending' = <<>>
  /\ UNCHANGED losses

-----------------------------------------------------------------------------
(* The outside world: block files that disappear from the data directory   *)

LoseHeightFile(h) ==
  /\ losses < MaxLosses
  /\ heightFile[h] # NoBlock
  /\ heightFile' = [heightFile EXCEPT ![h] = NoBlock]
  /\ losses' = losses + 1
  /\ UNCHANGED <<heightMap, index, blockPool, maps, localCheckpoint, pinned,
                 utxo, hashFile, headerFile, pending, started>>

LoseHashFile(b) ==
  /\ losses < MaxLosses
  /\ b \in hashFile
  /\ hashFile' = hashFile \ {b}
  /\ losses' = losses + 1
  /\ UNCHANGED <<heightMap, index, blockPool, maps, localCheckpoint, pinned,
                 utxo, heightFile, headerFile, pending, started>>

-----------------------------------------------------------------------------
\* The constructor in an empty data directory.
Init ==
  /\ heightMap = <<Genesis>>
  /\ index = {Genesis}
  /\ blockPool = {Genesis}
  /\ chainWork = On({Genesis}, TotalWork)
  /\ blockHeight = On({Genesis}, Height)
  /\ heightIndex = On({Genesis}, Height)
  /\ children = [p \in Block |-> {}]
  /\ localCheckpoint = [height |-> 0, hash |-> Genesis]
  /\ pinned = FALSE
  /\ utxo = <<Genesis>>
  /\ heightFile = [h \in Heights |-> IF h = 0 THEN Genesis ELSE NoBlock]
  /\ hashFile = {Genesis}
  /\ headerFile = {Genesis}
  /\ pending = <<>>
  /\ started = TRUE
  /\ losses = 0

\* What a process does between its start and its end.
Run ==
  \/ \E b \in Block : SubmitBlock(b)
  \/ RetryParked
  \/ PinCheckpoint
  \/ ClearPin
  \/ RefreshCheckpoint

Next ==
  \/ Run
  \/ Restart
  \/ \E h \in Heights : LoseHeightFile(h)
  \/ \E b \in Block : LoseHashFile(b)

Spec == Init /\ [][Next]_vars

\* A node that is never stopped and loses no file.
RunSpec == Init /\ [][Run]_vars

-----------------------------------------------------------------------------
(* Invariants                                                              *)

\* The state of every variable has the shape its declaration says.
TypeOK ==
  /\ heightMap \in Seq(Block) \ {<<>>}
  /\ index \subseteq Block
  /\ blockPool \subseteq Block
  /\ chainWork \in [Block -> Nat \cup {Absent}]
  /\ blockHeight \in [Block -> Nat \cup {Absent}]
  /\ heightIndex \in [Block -> Heights \cup {Absent}]
  /\ children \in [Block -> SUBSET Block]
  /\ localCheckpoint \in [height : Nat, hash : Block]
  /\ pinned \in BOOLEAN
  /\ utxo \in Seq(Block)
  /\ heightFile \in [Heights -> Block \cup {NoBlock}]
  /\ hashFile \subseteq Block
  /\ headerFile \subseteq Block
  /\ pending \in Seq(SUBSET Block)
  /\ started \in BOOLEAN
  /\ losses \in Nat

\* Whatever order blocks arrive in, get parked, purged, reorganised or are cut
\* off by a repair, the active chain is the hash path of its tip, every block
\* of it passed validation, and the UTXO set is what replaying it gives.
ActiveChainSound ==
  /\ heightMap = Chain[Tip(heightMap)]
  /\ SoundChain(Tip(heightMap))
  /\ utxo = heightMap

\* A height file is never a stale block of an abandoned branch: up to the tip
\* it is missing or holds the active block (store, prune_height_files_after).
HeightFilesServeChain ==
  \A h \in 0..BestHeight(heightMap) : heightFile[h] \in {NoBlock, heightMap[h + 1]}

\* What accept_block and ensure_genesis read with at() and find() is there: a
\* block with work has its height, its header and processed ancestors, and no
\* map knows a block the others do not.
Bookkeeping ==
  /\ BlocksOf(heightMap) \subseteq {b \in Block : heightIndex[b] # Absent}
  /\ \A b \in Block :
       /\ (chainWork[b] = Absent) <=> (blockHeight[b] = Absent)
       /\ heightIndex[b] # Absent => /\ chainWork[b] # Absent
                                     /\ heightIndex[b] = Height[b]
       /\ chainWork[b] # Absent =>
            /\ chainWork[b] = TotalWork[b]
            /\ blockHeight[b] = Height[b]
            /\ \A a \in BlocksOf(Chain[b]) : a \in index /\ chainWork[a] # Absent

\* headers.dat lists every block index.dat names, or load_headers throws.
HeadersPersisted == BlocksOf(heightMap) \subseteq headerFile

\* A node that runs has its checkpoint on its active chain, so that the next
\* start does not refuse the chain; one that refused to start has pinned it
\* above the tip, where clear_stale_local_checkpoint_if_needed finds it.
CheckpointOnChain ==
  \/ MatchesCheckpoint(heightMap, localCheckpoint)
  \/ ~started /\ pinned /\ localCheckpoint.height > BestHeight(heightMap)

-----------------------------------------------------------------------------
(* Action properties, refinement, liveness                                 *)

\* The active chain moves only as ActiveChain allows: to a strictly heavier
\* sound chain through the checkpoint and within the reorg depth, or back to a
\* prefix when the process starts over damaged files.
AC == INSTANCE ActiveChain WITH chain <- heightMap, checkpoint <- localCheckpoint

ImplementsActiveChain == AC!ChainSpec

ActiveFilesPresent ==
  \A h \in 0..BestHeight(heightMap) : heightFile[h] # NoBlock

\* A start over intact files succeeds and keeps the chain, whatever was going
\* on when the process stopped, and also after a start that threw.
RestartKeepsChain ==
  [][(Restart /\ ActiveFilesPresent) => (heightMap' = heightMap /\ started')]_vars

\* accept_block's recursion over parked children comes to an end.
RecursionEnds == (pending # <<>>) ~> (pending = <<>>)

-----------------------------------------------------------------------------
(* What the comments and tests say of the node, and the code does not do   *)

\* technology.html:14: the active chain is selected by cumulative work.  When no
\* call runs, no sound chain whose every block is at hand, and which the
\* checkpoint and the reorg depth admit, is heavier than the active one.
HeaviestActive ==
  (started /\ pending = <<>>) =>
    \A b \in Block :
      (/\ BlocksOf(Chain[b]) \subseteq index \cap blockPool
       /\ SoundChain(b)
       /\ MayReplaceTip(Chain[b]))
      => TotalWork[b] <= TotalWork[Tip(heightMap)]

\* tests.cpp:705, test_rejected_candidate_does_not_become_processed: once its
\* parent is processed and no call runs, a block that fails validation is not
\* known (knows_hash), whether it came before or after its parent.
RejectedNotKnown ==
  pending = <<>> =>
    \A b \in index \ {Genesis} : ParentProcessed(b) => Sound(b)

\* tests.cpp:1766, test_blockchain_restores_missing_height_files_from_hash_index:
\* a start restores missing height files from the hash files and keeps the chain.
RestartRestoresHeightFiles ==
  [][(Restart /\ BlocksOf(heightMap) \subseteq hashFile) => heightMap' = heightMap]_vars

\* tests.cpp:2938, test_stale_checkpoint_above_tip_is_cleared_on_startup: a start
\* that finds a checkpoint above its tip clears it instead of throwing.
StaleCheckpointCleared ==
  [][(Restart /\ localCheckpoint.height > BestHeight(heightMap')) => started']_vars
=============================================================================
