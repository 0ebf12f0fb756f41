---------------------------- MODULE ChainStorage ----------------------------
(***************************************************************************)
(* What Blockchain leaves atomic: the files activate_path writes one after *)
(* another, a process that dies between two of them or while one is being  *)
(* written, writes that fail, and the constructor that makes a node of     *)
(* whatever files it finds.                                                *)
(*                                                                         *)
(* node is the memory of the process, disk the files.  writes is what the  *)
(* running call has still to write, in order.  Every file is truncated     *)
(* when it is opened, so the one being written when the process dies may   *)
(* be left torn.  Block files by hash are left out: nothing here reads a   *)
(* block from them but the repair of missing height files, which Blockchain*)
(* has.                                                                    *)
(***************************************************************************)
EXTENDS ChainPolicy, SequencesExt

CONSTANTS
  TornBlock,   \* a height file that exists and cannot be read
  MaxMishaps   \* bound: crashes and failed writes

ASSUME StorageAssumption ==
  /\ MaxMishaps \in Nat /\ TornBlock \notin Block \cup {NoBlock}
  /\ IsFiniteSet(Block)

VARIABLES node, disk, phase, writes, onto, lapses, mishaps
storageVars == <<node, disk, phase, writes, onto, lapses, mishaps>>

NoPath == << >>
NoCheckpoint == [height |-> 0, hash |-> NoBlock]
\* path is height_map_, coins the blocks whose transactions utxo_ holds, pool
\* block_pool_, known index_.
Nothing == [path |-> NoPath, coins |-> NoPath, pool |-> {}, known |-> {},
            checkpoint |-> NoCheckpoint]

BlockWrite(h, b) == [file |-> "block", at |-> h, to |-> b]
Write(file) == [file |-> file]

-----------------------------------------------------------------------------
(* Writing *)

\* The height files above best, up to the first gap.
Stale(best) ==
  {h \in Heights : h > best /\ \A k \in (best + 1)..h : disk.blocks[k] # NoBlock}

\* The mutant: the index is written before the blocks it names.
ActivationWritesIndexFirst(path, content) ==
  <<[file |-> "maps", path |-> path, coins |-> content], Write("index")>>
  \o [i \in 1..Len(path) |-> BlockWrite(i - 1, content[i])]
  \o <<Write("checkpoint"), Write("headers"), Write("chainstate")>>

\* activate_path, its blocks resolved: the height files, the maps and utxo_ in
\* memory, the removal of height files above, and the files of the new tip.
ActivationWrites(path, content) ==
  [i \in 1..Len(path) |-> BlockWrite(i - 1, content[i])]
  \o <<[file |-> "maps", path |-> path, coins |-> content]>>
  \o [i \in 1..Cardinality(Stale(Len(path) - 1)) |-> BlockWrite(Len(path) - 1 + i, NoBlock)]
  \o (IF TrailingCheckpoint(path) = node.checkpoint THEN << >> ELSE <<Write("checkpoint")>>)
  \o <<Write("index"), Write("headers"), Write("chainstate")>>

\* The files after the write w; the one of the maps is none.
Written(w) ==
  CASE w.file = "block"      -> [disk EXCEPT !.blocks[w.at] = w.to]
    [] w.file = "maps"       -> disk
    [] w.file = "checkpoint" -> [disk EXCEPT !.checkpoint = TrailingCheckpoint(node.path)]
    [] w.file = "index"      -> [disk EXCEPT !.index = node.path]
    [] w.file = "headers"    -> [disk EXCEPT !.headers = [state |-> "whole", of |-> node.known]]
    [] w.file = "chainstate" -> [disk EXCEPT !.chainstate =
                                   [path |-> node.path, coins |-> node.coins]]

\* What a write cut short may leave: an index, chainstate or checkpoint that
\* its reader refuses, and a headers.dat that is empty or ends within a header.
TornBy(w) ==
  CASE w.file = "block" /\ w.to # NoBlock -> {[disk EXCEPT !.blocks[w.at] = TornBlock]}
    [] w.file = "index"      -> {[disk EXCEPT !.index = NoPath]}
    [] w.file = "headers"    -> {[disk EXCEPT !.headers = [state |-> s, of |-> {}]] :
                                   s \in {"empty", "cut"}}
    [] w.file = "chainstate" -> {[disk EXCEPT !.chainstate = [path |-> NoPath, coins |-> NoPath]]}
    [] w.file = "checkpoint" -> {[disk EXCEPT !.checkpoint = NoCheckpoint]}
    [] OTHER -> {}

\* lapses holds the files that are not as the last write of them meant, "reorg"
\* as long as that may be a path to another branch, and "unrepaired" from a start
\* that cannot repair the chain, and has not its UTXO set, to the next snapshot.
Lapse(w) == {IF w.file = "maps" THEN "block" ELSE w.file}
            \cup IF onto = "reorg" THEN {"reorg"} ELSE {}

\* The path is in memory once all of its height files are written.
Mended(w) ==
  CASE w.file = "block" -> {}
    [] w.file = "maps"  -> IF \A i \in 1..Len(w.path) : disk.blocks[i - 1] = w.coins[i]
                           THEN {"block"} ELSE {}
    [] w.file = "chainstate" /\ node.coins = node.path -> {w.file, "unrepaired"}
    [] OTHER -> {w.file}

DoWrite ==
  /\ writes # << >>
  /\ LET w == Head(writes) IN
     /\ disk' = Written(w)
     /\ node' = CASE w.file = "maps" -> [node EXCEPT !.path = w.path, !.coins = w.coins]
                  [] w.file = "checkpoint" ->
                       [node EXCEPT !.checkpoint = TrailingCheckpoint(node.path)]
                  [] OTHER -> node
     /\ lapses' = LET left == lapses \ Mended(w) IN
                  IF w.file = "chainstate" /\ phase = "running" /\ left = {"reorg"}
                  THEN {} ELSE left
  /\ writes' = Tail(writes)
  /\ UNCHANGED <<phase, onto, mishaps>>

\* A write of the running node fails.  A block file makes activate_path give
\* up, unless the data is lost when the stream is closed, which nobody looks
\* at; the others fail without a word.
FailWrite ==
  /\ phase = "running" /\ writes # << >> /\ Head(writes).file # "maps"
  /\ mishaps < MaxMishaps /\ mishaps' = mishaps + 1
  /\ disk' \in {disk} \cup TornBy(Head(writes))
  /\ \/ Head(writes).file = "block" /\ Head(writes).to # NoBlock /\ writes' = << >>
     \/ (Head(writes).file = "block" => disk' # disk) /\ writes' = Tail(writes)
  /\ lapses' = lapses \cup Lapse(Head(writes))
  /\ UNCHANGED <<node, phase, onto>>

StorageCrash ==
  /\ phase \notin {"down", "refused"} /\ writes # << >>
  /\ mishaps < MaxMishaps /\ mishaps' = mishaps + 1
  /\ disk' \in {disk} \cup TornBy(Head(writes))
  /\ lapses' = lapses \cup Lapse(Head(writes))
  /\ node' = Nothing /\ phase' = "down" /\ writes' = << >>
  /\ UNCHANGED onto

\* The process ends between two calls.
Stop ==
  /\ phase = "running" /\ writes = << >>
  /\ node' = Nothing /\ phase' = "down"
  /\ UNCHANGED <<disk, writes, onto, lapses, mishaps>>

-----------------------------------------------------------------------------
(* The running node *)

\* accept_block parks the block, or stores it on a side branch; one of which only
\* headers.dat knew gets into block_pool_.
Learn(b) ==
  /\ phase = "running" /\ writes = << >>
  /\ b \notin node.pool \cap node.known
  /\ node' = [node EXCEPT !.known = @ \cup {b}, !.pool = @ \cup {b}]
  /\ UNCHANGED <<disk, phase, writes, onto, lapses, mishaps>>

\* accept_block finds the path to b valid and heavier, all of it in block_pool_.
BeginActivation(b) ==
  /\ phase = "running" /\ writes = << >>
  /\ b \notin BlocksOf(node.path)
  /\ BlocksOf(Chain[b]) \subseteq (node.pool \cap node.known) \cup {b}
  /\ TotalWork[b] > TotalWork[Tip(node.path)]
  /\ MatchesCheckpoint(Chain[b], node.checkpoint)
  /\ ReorgAllowed(node.path, Chain[b])
  /\ node' = [node EXCEPT !.known = @ \cup {b}, !.pool = @ \cup {b}]
  /\ writes' = ActivationWrites(Chain[b], Chain[b])
  /\ onto' = IF IsPrefix(node.path, Chain[b]) THEN "extension" ELSE "reorg"
  /\ UNCHANGED <<disk, phase, lapses, mishaps>>

-----------------------------------------------------------------------------
(* The constructor *)

Readable(h) == disk.blocks[h] \notin {NoBlock, TornBlock}
\* rebuild_from_blocks and rebuild_utxo_from_active_chain read height files up
\* to the first that is missing or unreadable.
FirstBlocks(limit) ==
  LET n == CHOOSE m \in 0..limit :
             /\ \A h \in 0..(m - 1) : Readable(h)
             /\ m < limit => ~Readable(m)
  IN  [i \in 1..n |-> disk.blocks[i - 1]]
Linked(content) == \A i \in 2..Len(content) : Parent[content[i]] = content[i - 1]

Refuse == node' = Nothing /\ phase' = "refused" /\ UNCHANGED writes

Loaded(path, known) ==
  /\ node' = [Nothing EXCEPT !.path = path, !.known = known,
                             !.checkpoint = disk.checkpoint]
  /\ phase' = "loaded"

\* rebuild_from_blocks: at() throws for a block whose parent is not among them.
Rebuild(content) ==
  IF Linked(content)
  THEN Loaded(content, BlocksOf(content)) /\ writes' = <<Write("index"), Write("headers")>>
  ELSE Refuse

\* With not even a first block, ensure_genesis creates it.
CreateGenesis ==
  /\ Loaded(<<Genesis>>, {Genesis})
  /\ writes' = <<BlockWrite(0, Genesis), Write("index"), Write("headers")>>

Unread == disk.index = NoPath \/ disk.headers.state = "empty"

\* load_index, load_headers: an unreadable file is made anew from the blocks; a
\* headers.dat that ends within a header, or lacks one that index.dat names,
\* makes the constructor throw.
Load ==
  /\ phase \in {"down", "refused"}
  /\ LET rebuilt == FirstBlocks(Cardinality(Heights)) IN
     IF Unread /\ rebuilt # NoPath THEN Rebuild(rebuilt)
         ELSE IF disk.headers.state = "cut" THEN Refuse
         ELSE IF Unread THEN CreateGenesis
         ELSE IF BlocksOf(disk.index) \subseteq disk.headers.of
         THEN Loaded(disk.index, disk.headers.of) /\ UNCHANGED writes
         ELSE Refuse
  /\ onto' = "extension"
  /\ UNCHANGED <<disk, lapses, mishaps>>

\* load_block_file does not notice that a file has ended: what it makes of a
\* block file that was cut may be no block, as above, or a block that links to
\* nothing or cannot be parsed, and then the constructor throws.
ReadTorn ==
  /\ phase \in {"down", "refused", "loaded", "replayed"} /\ writes = << >>
  /\ \E h \in Heights :
       /\ disk.blocks[h] = TornBlock
       /\ IF phase \in {"loaded", "replayed"} THEN h < Len(node.path)
          ELSE Unread /\ h = Len(FirstBlocks(Cardinality(Heights)))
  /\ Refuse
  /\ UNCHANGED <<disk, onto, lapses, mishaps>>

\* The contents under the hashes of the active path: height_index_ leads every
\* lookup to the height files.  Their longest valid prefix is kept.
ValidPrefix ==
  LET content == FirstBlocks(Len(node.path))
  IN  Cardinality({n \in 1..Len(content) : Linked(SubSeq(content, 1, n))})

\* The mutant: the tip of the snapshot is not compared with the chain's.
CurrentIfReadable == disk.chainstate.path # NoPath
SnapshotCurrent == disk.chainstate.path = node.path

\* load_chainstate_snapshot, or rebuild_utxo_from_active_chain.
Replay ==
  /\ phase = "loaded" /\ writes = << >>
  /\ node' = [node EXCEPT !.coins = IF SnapshotCurrent THEN disk.chainstate.coins
                                   ELSE FirstBlocks(Len(node.path))]
  /\ writes' = IF SnapshotCurrent THEN << >> ELSE <<Write("chainstate")>>
  /\ phase' = "replayed"
  /\ UNCHANGED <<disk, onto, lapses, mishaps>>

\* repair_active_chain_if_needed; a path without even its first block is left
\* as it is.
Repair ==
  /\ phase = "replayed" /\ writes = << >>
  /\ LET n == ValidPrefix
         heights == 0..(Len(node.path) - 1)
         kept == SubSeq(node.path, 1, n)
         cut == IF n = 0 THEN {} ELSE BlocksOf(node.path) \ BlocksOf(kept)
     IN  /\ node' = [node EXCEPT
                       !.pool = {disk.blocks[h] : h \in {k \in heights : Readable(k)}} \ cut,
                       !.known = @ \ cut]
         /\ writes' = IF n \in {0, Len(node.path)} THEN << >>
                      ELSE ActivationWrites(kept, FirstBlocks(n))
         /\ lapses' = lapses \cup IF n = 0 /\ node.coins # node.path THEN {"unrepaired"} ELSE {}
  /\ phase' = "repaired"
  /\ UNCHANGED <<disk, onto, mishaps>>

\* The chain is held against the checkpoint, one above the tip being dropped.
Check ==
  /\ phase = "repaired" /\ writes = << >>
  /\ IF \/ node.checkpoint = NoCheckpoint
        \/ MatchesCheckpoint(node.path, node.checkpoint)
        \/ node.checkpoint.height > BestHeight(node.path)
     THEN /\ phase' = "running"
          /\ node' = [node EXCEPT !.checkpoint = TrailingCheckpoint(node.path)]
          /\ disk' = [disk EXCEPT !.checkpoint = TrailingCheckpoint(node.path)]
          /\ lapses' = IF Len(FirstBlocks(Len(node.path))) = Len(node.path)
                       THEN lapses \ {"block"} ELSE lapses
          /\ UNCHANGED writes
     ELSE Refuse /\ UNCHANGED <<disk, lapses>>
  /\ UNCHANGED <<onto, mishaps>>

-----------------------------------------------------------------------------
StorageInit ==
  LET g == <<Genesis>> IN
  /\ node = [path |-> g, coins |-> g, pool |-> {Genesis}, known |-> {Genesis},
             checkpoint |-> TrailingCheckpoint(g)]
  /\ disk = [blocks |-> [h \in Heights |-> IF h = 0 THEN Genesis ELSE NoBlock],
             index |-> g, headers |-> [state |-> "whole", of |-> {Genesis}],
             chainstate |-> [path |-> g, coins |-> g],
             checkpoint |-> TrailingCheckpoint(g)]
  /\ phase = "running" /\ writes = << >> /\ onto = "extension"
  /\ lapses = {} /\ mishaps = 0

StorageNext ==
  \/ DoWrite \/ FailWrite \/ StorageCrash \/ Stop
  \/ \E b \in Block : Learn(b) \/ BeginActivation(b)
  \/ Load \/ ReadTorn \/ Replay \/ Repair \/ Check

StorageSpec == StorageInit /\ [][StorageNext]_storageVars

-----------------------------------------------------------------------------
(* Properties *)

Serving == phase = "running" /\ writes = << >>

\* Whatever was being written when the process died, a node that starts again
\* serves a sound chain, the UTXO set of that chain, and its very blocks, unless
\* the write belonged to a reorg or blk0.dat itself was torn.  A UTXO set made of
\* a chain without blk0.dat stays in chainstate.dat, under the name of its tip,
\* until the next snapshot.
RestartedChainSound ==
  (Serving /\ lapses \cap {"reorg", "block", "unrepaired"} = {}) =>
    /\ node.path = Chain[Tip(node.path)]
    /\ node.coins = node.path
    /\ \A h \in 0..BestHeight(node.path) : disk.blocks[h] = node.path[h + 1]

\* The start refuses the files only if the process died, or the disk failed,
\* while headers.dat lagged behind index.dat, or within a reorg, or if a height
\* file is cut short, or if the index is unreadable and an activation that broke
\* off has left height files that do not link.
RefusesOnlyLaggingHeaders ==
  phase = "refused" =>
    \/ lapses \cap {"headers", "reorg"} # {}
    \/ {"index", "block"} \subseteq lapses
    \/ \E h \in Heights : disk.blocks[h] = TornBlock

\* docs/communication-systems.md:487, "startup repair now truncates invalid active
\* chain tails caused by stale `bits` or missing canonical blocks": whatever a
\* crash left of the newest blocks, the constructor does not throw.  Height files
\* that were cut short are left to RefusesOnlyLaggingHeaders.
StartsAfterCrash ==
  phase = "refused" => \E h \in Heights : disk.blocks[h] = TornBlock

StorageTypeOK ==
  /\ phase \in {"running", "down", "loaded", "replayed", "repaired", "refused"}
  /\ onto \in {"extension", "reorg"}
  /\ node.path \in Seq(Block) /\ node.coins \in Seq(Block)
  /\ node.pool \cup node.known \cup disk.headers.of \subseteq Block
  /\ disk.blocks \in [Heights -> Block \cup {NoBlock, TornBlock}]
  /\ lapses \subseteq {"block", "checkpoint", "index", "headers", "chainstate", "reorg",
                "unrepaired"}
  /\ mishaps \in 0..MaxMishaps
=============================================================================
