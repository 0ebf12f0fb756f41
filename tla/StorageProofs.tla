--------------------------- MODULE StorageProofs ----------------------------
(***************************************************************************)
(* The files of a node: what those of the chain say to the constructor     *)
(* that finds them, for every block tree and every number of crashes and   *)
(* failed writes; and, in the last part, that changes of the wallet which  *)
(* do not overlap lose no acknowledged key, also when the process dies     *)
(* once.                                                                   *)
(***************************************************************************)
EXTENDS ChainStorage, WalletFile, BlockchainProofs, PositionsTheorems

-----------------------------------------------------------------------------
(* What holds of the node, of its files, and of what it has yet to write   *)

Paths == {Chain[b] : b \in Block}
Marks == {[height |-> Height[b], hash |-> b] : b \in Block} \cup {NoCheckpoint}
BlockFiles == [Heights -> Block \cup {NoBlock, TornBlock}]
WriteType ==
  [file : {"block"}, at : Nat, to : Block \cup {NoBlock}]
  \cup [file : {"maps"}, path : Paths, coins : Seq(Block)]
  \cup [file : {"checkpoint", "index", "headers", "chainstate"}]

StorageTyped ==
  /\ phase \in {"running", "down", "loaded", "replayed", "repaired", "refused"}
  /\ onto \in {"extension", "reorg"}
  /\ node \in [path : Paths \cup {NoPath}, coins : Seq(Block), pool : SUBSET Block,
               known : SUBSET Block, checkpoint : Marks]
  /\ disk \in [blocks : BlockFiles,
               index : Paths \cup {NoPath},
               headers : [state : {"whole", "empty", "cut"}, of : SUBSET Block],
               chainstate : [path : Paths \cup {NoPath}, coins : Seq(Block)],
               checkpoint : Marks]
  /\ lapses \subseteq {"block", "checkpoint", "index", "headers", "chainstate", "reorg", "unrepaired"}
  /\ writes \in Seq(WriteType)
  /\ mishaps \in 0..MaxMishaps

\* The kinds of writes, and the order in which a call has them.
Kind(w) == IF w.file = "block" /\ w.to = NoBlock THEN "removal" ELSE w.file
Kinds(s) == {Kind(w) : w \in ToSet(s)}
MayFollow(k) ==
  CASE k = "block"      -> {"block", "maps", "removal", "checkpoint", "index", "headers", "chainstate"}
    [] k = "maps"       -> {"removal", "checkpoint", "index", "headers", "chainstate"}
    [] k = "removal"    -> {"removal", "checkpoint", "index", "headers", "chainstate"}
    [] k = "checkpoint" -> {"index", "headers", "chainstate"}
    [] k = "index"      -> {"headers", "chainstate"}
    [] k = "headers"    -> {"chainstate"}
    [] OTHER            -> {}
InOrder(s) == \A i, j \in DOMAIN s : i < j => Kind(s[j]) \in MayFollow(Kind(s[i]))

Queue == ToSet(writes)
Pending == Kinds(writes)
Alive == phase \notin {"down", "refused"}

\* The path and the blocks that memory has when the running call is done.
Ahead(q) == {w \in ToSet(q) : w.file = "maps"}
TargetOf(q, memory) ==
  LET m == IF Ahead(q) = {} THEN memory ELSE CHOOSE w \in Ahead(q) : TRUE
  IN  [path |-> m.path, coins |-> m.coins]
Target == TargetOf(writes, node)

CanRead(blockAt, h) == blockAt[h] \notin {NoBlock, TornBlock}
\* FirstBlocks, of any height files.
First(blockAt, limit) ==
  LET n == CHOOSE m \in 0..limit :
             /\ \A h \in 0..(m - 1) : CanRead(blockAt, h)
             /\ m < limit => ~CanRead(blockAt, m)
  IN  [i \in 1..n |-> blockAt[i - 1]]
\* A height file holds a block of its height.
WellPlaced(blockAt) == \A h \in Heights : blockAt[h] \in Block => Height[blockAt[h]] = h
\* Height files that are there, that agree with a path where they can be read,
\* and that hold it.
Complete(blockAt, path) == \A h \in 0..(Len(path) - 1) : CanRead(blockAt, h)
Fits(blockAt, path) ==
  \A h \in 0..(Len(path) - 1) : blockAt[h] \in {path[h + 1], TornBlock, NoBlock}
Holds(blockAt, path) == \A h \in 0..(Len(path) - 1) : blockAt[h] = path[h + 1]
EndsAt(blockAt, n) == n \in Heights => blockAt[n] = NoBlock
\* A path does not contradict a checkpoint.
Respects(path, cp) == cp = NoCheckpoint \/ (cp.height < Len(path) => path[cp.height + 1] = cp.hash)

\* A file is not what the running node has in memory because a write failed,
\* in this reorg or before.
Reorganizing == phase = "running" /\ onto = "reorg" /\ writes # << >>
Lapsed(file) == phase = "running" /\ file \in lapses
Failed(file) == Lapsed(file) /\ (Reorganizing => "reorg" \in lapses)

Placed == WellPlaced(disk.blocks) /\ ("block" \notin lapses => CanRead(disk.blocks, 0))

\* What is still to be written, phase by phase.
Planned ==
  /\ InOrder(writes)
  /\ ~Alive => node = Nothing /\ writes = << >>
  /\ Alive => node.path \in Paths
  /\ phase = "loaded" => Pending \subseteq {"block", "index", "headers"}
  /\ phase = "replayed" => Pending \subseteq {"chainstate"}
  /\ phase \in {"repaired", "running"} =>
       /\ Pending # {} => "chainstate" \in Pending
       /\ "block" \in Pending => "maps" \in Pending
  /\ "index" \in Pending => "headers" \in Pending
  /\ Pending \cap {"block", "maps", "removal", "checkpoint"} # {} => "index" \in Pending

\* What each write is to write.
Aimed ==
  /\ \A w \in Queue : Kind(w) = "removal" => w.at >= Len(Target.path)
  /\ \A w \in Queue : Kind(w) = "block" /\ phase # "loaded" =>
       /\ w.at < Len(Target.path)
       /\ w.to = Target.coins[w.at + 1]
  /\ phase = "loaded" /\ "block" \in Pending =>
       /\ writes = <<BlockWrite(0, Genesis), Write("index"), Write("headers")>>
       /\ node.path = <<Genesis>> /\ Unread /\ ~CanRead(disk.blocks, 0)
  /\ phase = "loaded" /\ writes # << >> /\ "block" \notin Pending => CanRead(disk.blocks, 0)
  /\ writes # << >> /\ phase \in {"repaired", "running"} =>
       /\ Len(Target.coins) = Len(Target.path)
       /\ \A i \in 1..Len(Target.coins) : Height[Target.coins[i]] = i - 1
  /\ writes # << >> /\ phase = "running" => Target.coins = Target.path

IndexAsMemory == disk.index = node.path
HeadersAsMemory == disk.headers.state = "whole" /\ BlocksOf(node.path) \subseteq disk.headers.of
SnapshotAsMemory == disk.chainstate = [path |-> node.path, coins |-> node.coins]

\* What is no longer, or not yet, to be written is as memory has it.
Recorded ==
  /\ Alive => /\ "index" \notin Pending => (IndexAsMemory \/ Failed("index"))
              /\ "headers" \notin Pending => (HeadersAsMemory \/ Failed("headers"))
              /\ "maps" \in Pending => /\ IndexAsMemory \/ Lapsed("index")
                                       /\ HeadersAsMemory \/ Lapsed("headers")
  /\ phase \in {"replayed", "repaired", "running"} =>
       /\ "chainstate" \notin Pending => (SnapshotAsMemory \/ Failed("chainstate"))
       /\ "maps" \in Pending => (SnapshotAsMemory \/ Lapsed("chainstate"))
  /\ disk.index = NoPath => "index" \in lapses
  /\ Alive => /\ BlocksOf(Target.path) \subseteq node.known
              /\ disk.checkpoint \in {NoCheckpoint, node.checkpoint}
  /\ phase = "running" => /\ BlocksOf(node.path) \subseteq node.known
                          /\ MatchesCheckpoint(node.path, node.checkpoint)
                          /\ MatchesCheckpoint(Target.path, node.checkpoint)

\* What an activation makes of the height files.
Stored ==
  phase \in {"repaired", "running"} /\ writes # << >> =>
    /\ \/ EndsAt(disk.blocks, Len(Target.path))
       \/ BlockWrite(Len(Target.path), NoBlock) \in Queue
    /\ ~Failed("block") =>
         \A h \in 0..(Len(Target.path) - 1) :
           \/ disk.blocks[h] = Target.coins[h + 1]
           \/ phase = "running" /\ BlockWrite(h, Target.coins[h + 1]) \in Queue

Calm == "reorg" \notin lapses /\ ~Reorganizing
CoinsOfPath == node.coins = node.path \/ "unrepaired" \in lapses
Mismatched == disk.chainstate.path # disk.chainstate.coins

StraightIndex ==
  /\ Fits(disk.blocks, disk.index)
  /\ phase = "running" => IsPrefix(disk.index, node.path)
  /\ phase = "repaired" /\ "index" \in Pending => IsPrefix(node.path, disk.index) /\ ~Unread
StraightHeaders ==
  \/ "headers" \in lapses
  \/ "headers" \in Pending /\ "index" \notin Pending
  \/ disk.headers.state = "whole" /\ BlocksOf(disk.index) \subseteq disk.headers.of
\* Files that the index is to be made from anew.
StraightFiles ==
  /\ "block" \notin lapses /\ Pending \cap {"block", "maps", "removal"} = {}
  /\ disk.index = NoPath \/ (phase = "loaded" /\ "index" \in Pending)
  => Linked(FirstBlocks(Cardinality(Heights)))
StraightCheckpoint ==
  /\ Respects(disk.index, disk.checkpoint)
  /\ disk.checkpoint # NoCheckpoint =>
       disk.blocks[disk.checkpoint.height] \in {disk.checkpoint.hash, TornBlock, NoBlock}
  /\ Alive => Respects(node.path, node.checkpoint) /\ Respects(Target.path, node.checkpoint)
StraightMemory ==
  /\ Alive => /\ Fits(disk.blocks, node.path)
              /\ \A h \in 0..(Len(Target.path) - 1) :
                   \/ disk.blocks[h] \in {Target.path[h + 1], TornBlock, NoBlock}
                   \/ BlockWrite(h, Target.path[h + 1]) \in Queue
  /\ phase = "running" =>
       /\ IsPrefix(node.path, Target.path)
       /\ "block" \notin lapses => Holds(disk.blocks, node.path)
       /\ CoinsOfPath
  /\ phase = "repaired" =>
       /\ IsPrefix(Target.path, node.path)
       /\ writes # << >> => Target.coins = Target.path /\ CanRead(disk.blocks, 0)
       /\ "maps" \notin Pending => Complete(disk.blocks, node.path) \/ ~CanRead(disk.blocks, 0)
       /\ writes = << >> => CoinsOfPath
  /\ phase \in {"replayed", "repaired"} =>
       CoinsOfPath \/ ~Complete(disk.blocks, node.path)
StraightSnapshot ==
  Mismatched =>
    \/ "unrepaired" \in lapses
    \/ /\ ~Complete(disk.blocks, disk.chainstate.path)
       /\ CanRead(disk.blocks, 0) \/ ~Unread
       /\ phase # "running"

Straight == StraightIndex /\ StraightHeaders /\ StraightFiles /\ StraightCheckpoint
            /\ StraightMemory /\ StraightSnapshot

StorageInv ==
  /\ StorageTyped /\ Placed /\ Planned /\ Aimed /\ Recorded /\ Stored
  /\ Calm => Straight
  /\ RefusesOnlyLaggingHeaders

-----------------------------------------------------------------------------
(* Queues of writes                                                        *)

LEMMA QueueHead ==
  ASSUME NEW T, NEW s \in Seq(T), s # << >>
  PROVE  /\ Head(s) \in T /\ Tail(s) \in Seq(T)
         /\ ToSet(s) = {Head(s)} \cup ToSet(Tail(s))
         /\ Kinds(s) = {Kind(Head(s))} \cup Kinds(Tail(s))
<1>1. /\ Len(s) \in Nat \ {0} /\ DOMAIN s = 1..Len(s) /\ s[1] = Head(s)
      /\ Tail(s) \in Seq(T) /\ DOMAIN Tail(s) = 1..(Len(s) - 1)
      /\ \A i \in 1..(Len(s) - 1) : Tail(s)[i] = s[i + 1]
      /\ Head(s) \in T
  BY HeadTailProperties, EmptySeq, LenProperties
<1>2. ToSet(s) \subseteq {Head(s)} \cup ToSet(Tail(s))
  <2> SUFFICES ASSUME NEW i \in 1..Len(s), i # 1 PROVE s[i] \in ToSet(Tail(s))
    BY <1>1 DEF ToSet
  <2>1. i - 1 \in DOMAIN Tail(s) /\ Tail(s)[i - 1] = s[i]
    BY <1>1
  <2> QED
    BY <2>1 DEF ToSet
<1>3. {Head(s)} \cup ToSet(Tail(s)) \subseteq ToSet(s)
  <2>1. Head(s) \in ToSet(s)
    BY <1>1 DEF ToSet
  <2>2. ASSUME NEW i \in 1..(Len(s) - 1) PROVE Tail(s)[i] \in ToSet(s)
    <3>1. i + 1 \in DOMAIN s /\ Tail(s)[i] = s[i + 1]
      BY <1>1
    <3> QED
      BY <3>1 DEF ToSet
  <2> QED
    BY <1>1, <2>1, <2>2 DEF ToSet
<1>4. ToSet(s) = {Head(s)} \cup ToSet(Tail(s))
  BY <1>2, <1>3
<1> QED
  BY <1>1, <1>4 DEF Kinds

LEMMA InOrderTail ==
  ASSUME NEW T, NEW s \in Seq(T), s # << >>, InOrder(s)
  PROVE  InOrder(Tail(s)) /\ Kinds(Tail(s)) \subseteq MayFollow(Kind(Head(s)))
<1>1. /\ Len(s) \in Nat \ {0} /\ DOMAIN s = 1..Len(s) /\ s[1] = Head(s)
      /\ DOMAIN Tail(s) = 1..(Len(s) - 1)
      /\ \A i \in 1..(Len(s) - 1) : Tail(s)[i] = s[i + 1]
  BY HeadTailProperties, EmptySeq, LenProperties
<1>2. ASSUME NEW i \in DOMAIN Tail(s), NEW j \in DOMAIN Tail(s), i < j
      PROVE  Kind(Tail(s)[j]) \in MayFollow(Kind(Tail(s)[i]))
  <2>1. i + 1 \in DOMAIN s /\ j + 1 \in DOMAIN s /\ i + 1 < j + 1
        /\ Tail(s)[i] = s[i + 1] /\ Tail(s)[j] = s[j + 1]
    BY <1>1, <1>2
  <2> QED
    BY <2>1 DEF InOrder
<1>3. ASSUME NEW j \in DOMAIN Tail(s) PROVE Kind(Tail(s)[j]) \in MayFollow(Kind(Head(s)))
  <2>1. 1 \in DOMAIN s /\ j + 1 \in DOMAIN s /\ 1 < j + 1 /\ Tail(s)[j] = s[j + 1]
    BY <1>1
  <2> QED
    BY <1>1, <2>1 DEF InOrder
<1> QED
  BY <1>2, <1>3 DEF InOrder, Kinds, ToSet

\* The elements of two queues one after the other, and their order.
LEMMA QueueConcat ==
  ASSUME NEW T, NEW s \in Seq(T), NEW t \in Seq(T)
  PROVE  /\ s \o t \in Seq(T)
         /\ ToSet(s \o t) = ToSet(s) \cup ToSet(t)
<1>1. /\ Len(s) \in Nat /\ Len(t) \in Nat /\ s \o t \in Seq(T)
      /\ DOMAIN s = 1..Len(s) /\ DOMAIN t = 1..Len(t)
      /\ DOMAIN (s \o t) = 1..(Len(s) + Len(t))
      /\ \A i \in 1..Len(s) : (s \o t)[i] = s[i]
      /\ \A i \in 1..Len(t) : (s \o t)[Len(s) + i] = t[i]
  BY ConcatProperties, LenProperties
<1>2. ASSUME NEW k \in 1..(Len(s) + Len(t)) PROVE (s \o t)[k] \in ToSet(s) \cup ToSet(t)
  <2>1. CASE k <= Len(s)
    BY <1>1, <2>1 DEF ToSet
  <2>2. CASE k > Len(s)
    <3>1. k - Len(s) \in 1..Len(t) /\ k = Len(s) + (k - Len(s))
      BY <1>1, <2>2
    <3>2. (s \o t)[k] = t[k - Len(s)]
      BY <1>1, <3>1
    <3> QED
      BY <1>1, <3>1, <3>2 DEF ToSet
  <2> QED
    BY <1>1, <2>1, <2>2
<1>3. ASSUME NEW i \in 1..Len(s) PROVE s[i] \in ToSet(s \o t)
  <2>1. i \in 1..(Len(s) + Len(t))
    BY <1>1
  <2> QED
    BY <1>1, <2>1 DEF ToSet
<1>4. ASSUME NEW i \in 1..Len(t) PROVE t[i] \in ToSet(s \o t)
  <2>1. Len(s) + i \in 1..(Len(s) + Len(t))
    BY <1>1
  <2> QED
    BY <1>1, <2>1 DEF ToSet
<1>5. ToSet(s \o t) \subseteq ToSet(s) \cup ToSet(t)
  BY <1>1, <1>2 DEF ToSet
<1>6. ToSet(s) \cup ToSet(t) \subseteq ToSet(s \o t)
  BY <1>1, <1>3, <1>4 DEF ToSet
<1> QED
  BY <1>1, <1>5, <1>6

LEMMA InOrderConcat ==
  ASSUME NEW T, NEW s \in Seq(T), NEW t \in Seq(T), InOrder(s), InOrder(t),
         \A v \in ToSet(s), w \in ToSet(t) : Kind(w) \in MayFollow(Kind(v))
  PROVE  InOrder(s \o t)
<1>1. /\ Len(s) \in Nat /\ Len(t) \in Nat
      /\ DOMAIN s = 1..Len(s) /\ DOMAIN t = 1..Len(t)
      /\ DOMAIN (s \o t) = 1..(Len(s) + Len(t))
      /\ \A i \in 1..Len(s) : (s \o t)[i] = s[i]
      /\ \A i \in 1..Len(t) : (s \o t)[Len(s) + i] = t[i]
  BY ConcatProperties, LenProperties
<1> SUFFICES ASSUME NEW i \in 1..(Len(s) + Len(t)), NEW j \in 1..(Len(s) + Len(t)), i < j
             PROVE  Kind((s \o t)[j]) \in MayFollow(Kind((s \o t)[i]))
  BY <1>1 DEF InOrder
<1>2. CASE j <= Len(s)
  <2>1. i \in DOMAIN s /\ j \in DOMAIN s /\ (s \o t)[i] = s[i] /\ (s \o t)[j] = s[j]
    BY <1>1, <1>2
  <2> QED
    BY <2>1 DEF InOrder
<1>3. CASE j > Len(s)
  <2>1. j - Len(s) \in DOMAIN t /\ j = Len(s) + (j - Len(s))
    BY <1>1, <1>3
  <2>2. (s \o t)[j] = t[j - Len(s)]
    BY <1>1, <2>1
  <2>3. CASE i <= Len(s)
    <3>1. i \in DOMAIN s /\ (s \o t)[i] = s[i]
      BY <1>1, <2>3
    <3> QED
      BY <2>1, <2>2, <3>1 DEF ToSet
  <2>4. CASE i > Len(s)
    <3>1. i - Len(s) \in DOMAIN t /\ i = Len(s) + (i - Len(s)) /\ i - Len(s) < j - Len(s)
      BY <1>1, <2>4
    <3>2. (s \o t)[i] = t[i - Len(s)]
      BY <1>1, <3>1
    <3> QED
      BY <2>1, <2>2, <3>1, <3>2 DEF InOrder
  <2> QED
    BY <1>1, <2>3, <2>4
<1> QED
  BY <1>1, <1>2, <1>3

-----------------------------------------------------------------------------
(* Heights, paths, and the blocks in the height files                      *)

\* Numbers without a gap from 0 on are those below their number.
LEMMA NoGaps ==
  ASSUME NEW S, S \subseteq Nat, IsFiniteSet(S), \A h \in S : \A k \in 0..h : k \in S
  PROVE  Cardinality(S) \in Nat /\ S = 0..(Cardinality(S) - 1)
<1>1. PICK n : n = Cardinality(S)
  OBVIOUS
<1>2. n \in Nat
  BY <1>1, FS_CardinalityType
<1>3. ASSUME NEW h \in S PROVE h < n
  <2>1. h \in Nat /\ (0..h) \in SUBSET S
    OBVIOUS
  <2>2. Cardinality(0..h) <= n
    BY <1>1, <2>1, FS_Subset
  <2>3. Cardinality(0..h) = h + 1
    <3>1. 0 \in Int /\ h \in Int
      BY <2>1
    <3>2. Cardinality(0..h) = IF 0 > h THEN 0 ELSE h - 0 + 1
      BY <3>1, FS_Interval
    <3> QED
      BY <2>1, <3>2
  <2> QED
    BY <1>2, <2>1, <2>2, <2>3
<1>4. ASSUME NEW h \in Nat, h < n PROVE h \in S
  <2>1. SUFFICES ASSUME h \notin S PROVE FALSE
    OBVIOUS
  <2>2. S \in SUBSET (0..(h - 1))
    <3>1. ASSUME NEW k \in S PROVE k < h
      <4>1. k \in Nat /\ ~(h \in 0..k)
        BY <2>1
      <4> QED
        BY <4>1
    <3> QED
      BY <3>1
  <2>3. /\ IsFiniteSet(0..(h - 1))
        /\ Cardinality(0..(h - 1)) = IF 0 > h - 1 THEN 0 ELSE h - 1 - 0 + 1
    <3>1. 0 \in Int /\ h - 1 \in Int
      OBVIOUS
    <3> QED
      BY <3>1, FS_Interval
  <2>4. n <= Cardinality(0..(h - 1))
    BY <1>1, <2>2, <2>3, FS_Subset
  <2> QED
    BY <1>2, <1>4, <2>3, <2>4
<1>5. S \subseteq 0..(n - 1)
  BY <1>2, <1>3
<1>6. 0..(n - 1) \subseteq S
  BY <1>2, <1>4
<1> QED
  BY <1>1, <1>2, <1>5, <1>6

LEMMA HeightsShape ==
  /\ Cardinality(Heights) \in Nat
  /\ Heights = 0..(Cardinality(Heights) - 1)
  /\ \A b \in Block : 0..(Len(Chain[b]) - 1) \subseteq Heights
  /\ 0 \in Heights
<1>1. ASSUME NEW b \in Block PROVE 0..(Len(Chain[b]) - 1) \subseteq Heights
  <2> SUFFICES ASSUME NEW k \in 0..(Len(Chain[b]) - 1) PROVE k \in Heights
    OBVIOUS
  <2>1. k + 1 \in 1..Len(Chain[b])
    BY PathShape
  <2>2. Chain[b][k + 1] \in Block /\ Height[Chain[b][k + 1]] = k
    BY <2>1, PrefixShape
  <2> QED
    BY <2>2 DEF Heights
<1>2. Heights \subseteq Nat
  BY GenesisOnly DEF Heights
<1>3. ASSUME NEW h \in Heights PROVE \A k \in 0..h : k \in Heights
  <2>1. PICK b \in Block : h = Height[b]
    BY DEF Heights
  <2>2. h = Len(Chain[b]) - 1
    BY <2>1 DEF Height
  <2> QED
    BY <1>1, <2>1, <2>2
<1>4. IsFiniteSet(Heights)
  <2> DEFINE f == [b \in Block |-> Height[b]]
  <2>1. f \in Surjection(Block, Heights)
    BY DEF Surjection, Heights
  <2>2. IsFiniteSet(Block)
    BY StorageAssumption
  <2> HIDE DEF f
  <2> QED
    BY <2>1, <2>2, FS_Surjection
<1>5. Cardinality(Heights) \in Nat /\ Heights = 0..(Cardinality(Heights) - 1)
  BY <1>2, <1>3, <1>4, NoGaps
<1>6. Genesis \in Block /\ Len(Chain[Genesis]) \in Nat \ {0}
  BY PathShape, BlockAssumption
<1>7. 0 \in Heights
  BY <1>1, <1>6
<1> QED
  BY <1>1, <1>5, <1>7

LEMMA PrefixIs ==
  ASSUME NEW p \in Seq(Block), NEW q \in Seq(Block)
  PROVE  IsPrefix(p, q) <=> Len(p) <= Len(q) /\ \A i \in 1..Len(p) : p[i] = q[i]
<1>1. Len(p) \in Nat /\ Len(q) \in Nat
  OBVIOUS
<1>2. SubSeq(p, 1, Len(p)) = p
  BY SubSeqFull
<1>3. CASE Len(p) <= Len(q)
  <2>1. /\ SubSeq(q, 1, Len(p)) \in Seq(Block)
        /\ Len(SubSeq(q, 1, Len(p))) = Len(p)
        /\ \A i \in 1..Len(p) : SubSeq(q, 1, Len(p))[i] = q[i]
    BY <1>1, <1>3
  <2>2. (p = SubSeq(q, 1, Len(p))) <=> \A i \in 1..Len(p) : p[i] = q[i]
    BY <2>1, SeqEqual
  <2> QED
    BY <1>2, <1>3, <2>2 DEF IsPrefix
<1> QED
  BY <1>3 DEF IsPrefix

\* A path is that of its tip, and each of its prefixes is a path.
LEMMA PathFacts ==
  ASSUME NEW p \in Paths
  PROVE  /\ p \in Seq(Block) /\ Len(p) \in Nat \ {0} /\ p # NoPath
         /\ p[1] = Genesis
         /\ Tip(p) \in Block /\ Chain[Tip(p)] = p
         /\ \A i \in 1..Len(p) : p[i] \in Block /\ Height[p[i]] = i - 1
         /\ \A h \in 0..(Len(p) - 1) : h \in Heights
         /\ \A i \in 2..Len(p) : Parent[p[i]] = p[i - 1]
         /\ BlocksOf(p) \subseteq Block
<1>1. PICK b \in Block : p = Chain[b]
  BY DEF Paths
<1>2. /\ p \in Seq(Block) /\ Len(p) \in Nat \ {0} /\ p[1] = Genesis
      /\ Tip(p) = b /\ BlocksOf(p) \subseteq Block
  BY <1>1, PathShape DEF Tip
<1>3. p # NoPath
  BY <1>2 DEF NoPath
<1>4. \A i \in 1..Len(p) : p[i] \in Block /\ Height[p[i]] = i - 1
  BY <1>1, PrefixShape
<1>5. \A h \in 0..(Len(p) - 1) : h \in Heights
  BY <1>1, HeightsShape
<1>6. \A i \in 2..Len(p) : Parent[p[i]] = p[i - 1]
  BY <1>1, ParentOnPath
<1> QED
  BY <1>1, <1>2, <1>3, <1>4, <1>5, <1>6

LEMMA PathPrefix ==
  ASSUME NEW p \in Paths, NEW n \in 1..Len(p)
  PROVE  /\ SubSeq(p, 1, n) \in Paths
         /\ Len(SubSeq(p, 1, n)) = n
         /\ \A i \in 1..n : SubSeq(p, 1, n)[i] = p[i]
         /\ BlocksOf(SubSeq(p, 1, n)) \subseteq BlocksOf(p)
         /\ IsPrefix(SubSeq(p, 1, n), p)
<1>1. PICK b \in Block : p = Chain[b]
  BY DEF Paths
<1>2. p[n] \in Block /\ Chain[p[n]] = SubSeq(p, 1, n)
  BY <1>1, PrefixShape
<1>3. SubSeq(p, 1, n) \in Paths
  BY <1>2 DEF Paths
<1>4. /\ p \in Seq(Block) /\ Len(p) \in Nat /\ n \in Nat /\ n <= Len(p)
      /\ SubSeq(p, 1, n) \in Seq(Block)
  BY <1>3, PathFacts
<1>5. Len(SubSeq(p, 1, n)) = n /\ \A i \in 1..n : SubSeq(p, 1, n)[i] = p[i]
  BY <1>4
<1>6. DOMAIN SubSeq(p, 1, n) = 1..n /\ 1..n \subseteq DOMAIN p
  BY <1>4, <1>5
<1>7. BlocksOf(SubSeq(p, 1, n)) \subseteq BlocksOf(p)
  BY <1>5, <1>6 DEF BlocksOf
<1>8. IsPrefix(SubSeq(p, 1, n), p)
  BY <1>4, <1>5, PrefixIs
<1> QED
  BY <1>3, <1>5, <1>7, <1>8

LEMMA GenesisPath == <<Genesis>> \in Paths /\ Chain[Genesis] = <<Genesis>>
<1>1. Genesis \in Block
  BY BlockAssumption
<1>2. Len(Chain[Genesis]) \in Nat \ {0} /\ Chain[Genesis][1] = Genesis /\ Chain[Genesis] \in Seq(Block)
  BY <1>1, PathShape
<1>3. Len(Chain[Genesis]) = 1
  <2>1. 1 \in 1..Len(Chain[Genesis])
    BY <1>2
  <2>2. Len(Chain[Chain[Genesis][1]]) = 1
    BY <1>1, <2>1, PrefixShape
  <2> QED
    BY <1>2, <2>2
<1>4. Chain[Genesis] = <<Genesis>>
  <2>1. /\ <<Genesis>> \in Seq(Block) /\ Len(<<Genesis>>) = 1
        /\ \A i \in 1..1 : <<Genesis>>[i] = Chain[Genesis][i]
    BY <1>1, <1>2
  <2> QED
    BY <1>2, <1>3, <2>1, SeqEqual
<1> QED
  BY <1>1, <1>4 DEF Paths

\* Contents that link, each block at its height, are the path of the last one.
LEMMA LinkedIsPath ==
  ASSUME NEW content \in Seq(Block), content # << >>, Linked(content),
         \A i \in 1..Len(content) : Height[content[i]] = i - 1
  PROVE  content \in Paths
<1> DEFINE b == content[Len(content)]
<1>1. Len(content) \in Nat \ {0} /\ b \in Block
  BY EmptySeq
<1>2. Chain[b] \in Seq(Block) /\ Len(Chain[b]) \in Nat \ {0} /\ Len(Chain[b]) = Len(content)
  <2>1. Height[b] = Len(content) - 1 /\ Len(Chain[b]) \in Nat /\ Chain[b] \in Seq(Block)
    BY <1>1, PathShape
  <2> QED
    BY <1>1, <2>1 DEF Height
<1>3. /\ content[Len(Chain[b])] = b
      /\ \A i \in 2..Len(Chain[b]) : Parent[content[i]] = content[i - 1]
  BY <1>2 DEF Linked
<1>4. \A i \in 1..Len(Chain[b]) : content[i] = Chain[b][i]
  BY <1>1, <1>3, LinkedContents
<1>5. content = Chain[b]
  BY <1>2, <1>4, SeqEqual
<1> QED
  BY <1>1, <1>5 DEF Paths

LEMMA PathIsLinked ==
  ASSUME NEW p \in Paths
  PROVE  Linked(p)
  BY PathFacts DEF Linked

\* The checkpoint of a path is on it.
LEMMA PathCheckpoint ==
  ASSUME NEW p \in Paths
  PROVE  /\ TrailingCheckpoint(p) \in Marks
         /\ TrailingCheckpoint(p) # NoCheckpoint
         /\ MatchesCheckpoint(p, TrailingCheckpoint(p))
         /\ Respects(p, TrailingCheckpoint(p))
<1> DEFINE cp == TrailingCheckpoint(p)
<1>1. PICK h : h = IF BestHeight(p) > MaxReorgDepth THEN BestHeight(p) - MaxReorgDepth ELSE 0
  OBVIOUS
<1>2. /\ Len(p) \in Nat \ {0} /\ \A i \in 1..Len(p) : p[i] \in Block /\ Height[p[i]] = i - 1
  BY PathFacts
<1>3. h \in 0..(Len(p) - 1)
  BY <1>1, <1>2, ReorgAssumption DEF BestHeight
<1>4. cp = [height |-> h, hash |-> p[h + 1]]
  BY <1>1 DEF TrailingCheckpoint
<1>5. h + 1 \in 1..Len(p) /\ p[h + 1] \in Block /\ Height[p[h + 1]] = h
  <2>1. h + 1 \in 1..Len(p)
    BY <1>2, <1>3
  <2>2. p[h + 1] \in Block /\ Height[p[h + 1]] = (h + 1) - 1
    BY <1>2, <2>1
  <2> QED
    BY <1>3, <2>1, <2>2
<1>6. cp \in Marks
  BY <1>4, <1>5 DEF Marks
<1>7. cp.hash # NoCheckpoint.hash
  BY <1>4, <1>5, BlockAssumption DEF NoCheckpoint
<1>8. MatchesCheckpoint(p, cp)
  BY <1>2, <1>3, <1>4 DEF MatchesCheckpoint
<1> QED
  BY <1>6, <1>7, <1>8 DEF MatchesCheckpoint, Respects

\* The height of a mark is in the tree; at height 0 there is genesis only.
LEMMA MarkFacts ==
  ASSUME NEW cp \in Marks, cp # NoCheckpoint
  PROVE  /\ cp.height \in Heights /\ cp.height \in Nat /\ cp.hash \in Block
         /\ Height[cp.hash] = cp.height
         /\ cp.height = 0 => cp.hash = Genesis
<1>1. PICK b \in Block : cp = [height |-> Height[b], hash |-> b]
  BY DEF Marks
<1>2. Height[b] \in Nat /\ (b # Genesis => Len(Chain[b]) >= 2) /\ Len(Chain[b]) \in Nat
  BY GenesisOnly, PathShape
<1>3. Height[b] = Len(Chain[b]) - 1 /\ Height[b] \in Heights
  BY DEF Height, Heights
<1>4. cp.height = Height[b] /\ cp.hash = b
  BY <1>1
<1>5. Height[b] = 0 => b = Genesis
  BY <1>2, <1>3
<1> QED
  BY <1>2, <1>3, <1>4, <1>5

-----------------------------------------------------------------------------
(* What the constructor reads                                              *)

LEMMA ReadsFiles ==
  /\ \A h : Readable(h) <=> CanRead(disk.blocks, h)
  /\ \A limit : FirstBlocks(limit) = First(disk.blocks, limit)
  BY DEF Readable, CanRead, FirstBlocks, First

\* The files are read up to the first that cannot be.
LEMMA FirstShape ==
  ASSUME NEW blockAt, NEW limit \in Nat
  PROVE  \E n \in 0..limit :
           /\ First(blockAt, limit) = [i \in 1..n |-> blockAt[i - 1]]
           /\ \A h \in 0..(n - 1) : CanRead(blockAt, h)
           /\ n < limit => ~CanRead(blockAt, n)
<1> DEFINE Stops == {m \in 0..limit : m < limit => ~CanRead(blockAt, m)}
           n == CHOOSE m \in 0..limit : /\ \A h \in 0..(m - 1) : CanRead(blockAt, h)
                                        /\ m < limit => ~CanRead(blockAt, m)
<1>1. Stops \subseteq Nat /\ limit \in Stops
  OBVIOUS
<1>2. PICK k \in Stops : \A j \in Stops : k <= j
  BY <1>1, LeastNumber
<1>3. \A h \in 0..(k - 1) : CanRead(blockAt, h)
  <2> SUFFICES ASSUME NEW h \in 0..(k - 1), ~CanRead(blockAt, h) PROVE FALSE
    OBVIOUS
  <2>1. h \in Stops /\ h < k
    BY <1>1, <1>2
  <2> QED
    BY <1>1, <1>2, <2>1
<1>4. k \in 0..limit /\ (k < limit => ~CanRead(blockAt, k))
  OBVIOUS
<1> HIDE DEF Stops
<1>5. n \in 0..limit /\ (\A h \in 0..(n - 1) : CanRead(blockAt, h))
      /\ (n < limit => ~CanRead(blockAt, n))
  BY <1>3, <1>4
<1>6. First(blockAt, limit) = [i \in 1..n |-> blockAt[i - 1]]
  BY DEF First
<1> HIDE DEF n
<1> QED
  BY <1>5, <1>6

\* What is read are blocks, each at its height.
IsRead(c, blockAt, limit) ==
  /\ c \in Seq(Block) /\ Len(c) \in 0..limit
  /\ \A i \in 1..Len(c) : c[i] \in Block /\ c[i] = blockAt[i - 1] /\ Height[c[i]] = i - 1
  /\ \A h \in 0..(Len(c) - 1) : CanRead(blockAt, h) /\ blockAt[h] = c[h + 1]
  /\ Len(c) < limit => ~CanRead(blockAt, Len(c))

LEMMA FirstIsRead ==
  ASSUME NEW blockAt \in BlockFiles, WellPlaced(blockAt),
         NEW limit \in 0..Cardinality(Heights)
  PROVE  IsRead(First(blockAt, limit), blockAt, limit)
<1>1. Cardinality(Heights) \in Nat /\ Heights = 0..(Cardinality(Heights) - 1)
  BY HeightsShape
<1>2. limit \in Nat /\ limit <= Cardinality(Heights)
  BY <1>1
<1>3. PICK n \in 0..limit :
           /\ First(blockAt, limit) = [i \in 1..n |-> blockAt[i - 1]]
           /\ \A h \in 0..(n - 1) : CanRead(blockAt, h)
           /\ n < limit => ~CanRead(blockAt, n)
  BY <1>2, FirstShape
<1>4. n \in Nat /\ n <= limit
  BY <1>2
<1>5. \A h \in 0..(n - 1) : /\ CanRead(blockAt, h) /\ blockAt[h] \in Block
                           /\ Height[blockAt[h]] = h
  <2> SUFFICES ASSUME NEW h \in 0..(n - 1)
               PROVE  CanRead(blockAt, h) /\ blockAt[h] \in Block /\ Height[blockAt[h]] = h
    OBVIOUS
  <2>1. h \in Heights
    BY <1>1, <1>2, <1>4
  <2>2. CanRead(blockAt, h)
    BY <1>3
  <2> QED
    BY <2>1, <2>2 DEF BlockFiles, CanRead, WellPlaced
<1>6. PICK c : c = [i \in 1..n |-> blockAt[i - 1]]
  OBVIOUS
<1>7. \A i \in 1..n : /\ c[i] = blockAt[i - 1] /\ c[i] \in Block /\ Height[c[i]] = i - 1
  <2> SUFFICES ASSUME NEW i \in 1..n
               PROVE  c[i] = blockAt[i - 1] /\ c[i] \in Block /\ Height[c[i]] = i - 1
    OBVIOUS
  <2>1. i - 1 \in 0..(n - 1)
    BY <1>4
  <2> QED
    BY <1>5, <1>6, <2>1
<1>8. c \in Seq(Block) /\ Len(c) = n
  <2>1. c \in [1..n -> Block]
    BY <1>6, <1>7
  <2>2. c \in Seq(Block)
    BY <1>4, <2>1, SeqDef
  <2> QED
    BY <1>4, <2>1, <2>2, LenProperties
<1>9. \A h \in 0..(n - 1) : blockAt[h] = c[h + 1]
  <2> SUFFICES ASSUME NEW h \in 0..(n - 1) PROVE blockAt[h] = c[h + 1]
    OBVIOUS
  <2>1. h + 1 \in 1..n /\ (h + 1) - 1 = h
    BY <1>4
  <2> QED
    BY <1>7, <2>1
<1> QED
  BY <1>3, <1>4, <1>5, <1>6, <1>7, <1>8, <1>9 DEF IsRead

\* Height files that hold a path and end there are read as that path.
LEMMA PathIsRead ==
  ASSUME NEW blockAt \in BlockFiles, WellPlaced(blockAt), NEW p \in Paths,
         Holds(blockAt, p), EndsAt(blockAt, Len(p))
  PROVE  Linked(First(blockAt, Cardinality(Heights)))
<1>1. /\ Cardinality(Heights) \in Nat /\ Heights = 0..(Cardinality(Heights) - 1)
  BY HeightsShape
<1>2. PICK n : n = Cardinality(Heights)
  OBVIOUS
<1>3. PICK c : c = First(blockAt, n)
  OBVIOUS
<1>4. IsRead(c, blockAt, n)
  BY <1>1, <1>2, <1>3, FirstIsRead
<1>5. /\ p \in Seq(Block) /\ Len(p) \in Nat \ {0} /\ (\A i \in 1..Len(p) : p[i] \in Block)
      /\ \A h \in 0..(Len(p) - 1) : h \in Heights
  BY PathFacts
<1>6. c \in Seq(Block) /\ Len(c) \in Nat /\ Len(c) <= n
      /\ \A i \in 1..Len(c) : c[i] = blockAt[i - 1]
  BY <1>1, <1>2, <1>4 DEF IsRead
<1>7. ~(Len(c) < Len(p))
  <2> SUFFICES ASSUME Len(c) < Len(p) PROVE FALSE
    OBVIOUS
  <2>1. Len(c) \in 0..(Len(p) - 1) /\ Len(c) + 1 \in 1..Len(p)
    BY <1>5, <1>6
  <2>2. Len(c) < n
    BY <1>1, <1>2, <1>5, <2>1
  <2>3. ~CanRead(blockAt, Len(c))
    BY <1>4, <2>2 DEF IsRead
  <2>4. blockAt[Len(c)] = p[Len(c) + 1] /\ p[Len(c) + 1] \in Block
    BY <1>5, <2>1 DEF Holds
  <2> QED
    BY <2>3, <2>4, BlockAssumption, StorageAssumption DEF CanRead
<1>8. ~(Len(p) < Len(c))
  <2> SUFFICES ASSUME Len(p) < Len(c) PROVE FALSE
    OBVIOUS
  <2>1. Len(p) \in 0..(Len(c) - 1) /\ Len(p) \in Heights
    BY <1>1, <1>2, <1>5, <1>6
  <2>2. CanRead(blockAt, Len(p))
    BY <1>4, <2>1 DEF IsRead
  <2> QED
    BY <2>1, <2>2 DEF EndsAt, CanRead
<1>9. Len(c) = Len(p)
  BY <1>5, <1>6, <1>7, <1>8
<1>10. \A i \in 1..Len(p) : p[i] = c[i]
  <2> SUFFICES ASSUME NEW i \in 1..Len(p) PROVE p[i] = c[i]
    OBVIOUS
  <2>1. i - 1 \in 0..(Len(p) - 1) /\ (i - 1) + 1 = i
    BY <1>5
  <2> QED
    BY <1>6, <1>9, <2>1 DEF Holds
<1>11. c = p
  BY <1>5, <1>6, <1>9, <1>10, SeqEqual
<1> QED
  BY <1>2, <1>3, <1>11, PathIsLinked

\* The valid prefix: at most what is read, and nothing only if nothing is.
LEMMA ValidPrefixShape ==
  ASSUME NEW c \in Seq(Block)
  PROVE  LET n == Cardinality({m \in 1..Len(c) : Linked(SubSeq(c, 1, m))})
         IN  n \in 0..Len(c) /\ (n = 0 => c = << >>)
<1> DEFINE S == {m \in 1..Len(c) : Linked(SubSeq(c, 1, m))}
<1>1. PICK n : n = Cardinality(S)
  OBVIOUS
<1>2. Len(c) \in Nat /\ S \in SUBSET (1..Len(c))
  OBVIOUS
<1>3. /\ IsFiniteSet(1..Len(c))
      /\ Cardinality(1..Len(c)) = Len(c)
  <2>1. 1 \in Int /\ Len(c) \in Int
    BY <1>2
  <2>2. IsFiniteSet(1..Len(c))
    BY <2>1, FS_Interval
  <2>3. Cardinality(1..Len(c)) = IF 1 > Len(c) THEN 0 ELSE Len(c) - 1 + 1
    BY <2>1, FS_Interval
  <2> QED
    BY <1>2, <2>2, <2>3
<1>4. IsFiniteSet(S) /\ n <= Len(c)
  BY <1>1, <1>2, <1>3, FS_Subset
<1>5. n \in Nat
  BY <1>1, <1>4, FS_CardinalityType
<1>6. ASSUME n = 0, c # << >> PROVE FALSE
  <2>1. Len(c) \in Nat \ {0}
    BY <1>6, EmptySeq
  <2>2. Len(SubSeq(c, 1, 1)) = 1
    BY <2>1
  <2>3. Linked(SubSeq(c, 1, 1))
    BY <2>2 DEF Linked
  <2>4. 1 \in S
    BY <2>1, <2>3
  <2> HIDE DEF S
  <2> QED
    BY <1>1, <1>4, <1>6, <2>4, FS_EmptySet
<1> HIDE DEF S
<1>7. n \in 0..Len(c) /\ (n = 0 => c = << >>)
  BY <1>2, <1>4, <1>5, <1>6
<1> QED
  BY <1>1, <1>7 DEF S

-----------------------------------------------------------------------------
(* The writes of an activation                                             *)

LEMMA WriteFacts ==
  ASSUME NEW w \in WriteType
  PROVE  /\ w.file \in {"block", "maps", "checkpoint", "index", "headers", "chainstate"}
         /\ w.file = "block" => w.at \in Nat /\ w.to \in Block \cup {NoBlock}
                                /\ w = BlockWrite(w.at, w.to)
         /\ w.file = "maps" => w.path \in Paths /\ w.coins \in Seq(Block)
         /\ Kind(w) = "block" <=> w.file = "block" /\ w.to # NoBlock
         /\ Kind(w) = "removal" <=> w.file = "block" /\ w.to = NoBlock
         /\ w.file # "block" => Kind(w) = w.file
         /\ \A k \in {"maps", "checkpoint", "index", "headers", "chainstate"} :
              Kind(w) = k <=> w.file = k
  BY DEF WriteType, Kind, BlockWrite

LEMMA KindsOf ==
  ASSUME NEW q, NEW k
  PROVE  k \in Kinds(q) <=> \E w \in ToSet(q) : Kind(w) = k
  BY DEF Kinds

\* The files above a tip that are to be removed begin just above it.
LEMMA StaleShape ==
  ASSUME StorageTyped, NEW best \in Nat
  PROVE  /\ Cardinality(Stale(best)) \in Nat
         /\ EndsAt(disk.blocks, best + 1) \/ Cardinality(Stale(best)) # 0
<1>1. PICK S : S = Stale(best)
  OBVIOUS
<1>2. /\ Cardinality(Heights) \in Nat /\ Heights = 0..(Cardinality(Heights) - 1)
  BY HeightsShape
<1>3. IsFiniteSet(Heights)
  <2>1. 0 \in Int /\ Cardinality(Heights) - 1 \in Int
    BY <1>2
  <2>2. IsFiniteSet(0..(Cardinality(Heights) - 1))
    BY <2>1, FS_Interval
  <2> QED
    BY <1>2, <2>2
<1>4. S \in SUBSET Heights
  BY <1>1 DEF Stale
<1>5. IsFiniteSet(S) /\ Cardinality(S) \in Nat
  BY <1>3, <1>4, FS_Subset, FS_CardinalityType
<1>6. ASSUME ~EndsAt(disk.blocks, best + 1) PROVE best + 1 \in S
  <2>1. best + 1 \in Heights /\ disk.blocks[best + 1] # NoBlock
    BY <1>6 DEF EndsAt
  <2>2. \A k \in (best + 1)..(best + 1) : k = best + 1
    OBVIOUS
  <2>3. best + 1 > best
    OBVIOUS
  <2> QED
    BY <1>1, <2>1, <2>2, <2>3 DEF Stale
<1> QED
  BY <1>1, <1>5, <1>6, FS_EmptySet

\* A queue of writes in order that all come before those of another.
LEMMA Joined ==
  ASSUME NEW s \in Seq(WriteType), NEW t \in Seq(WriteType), InOrder(s), InOrder(t),
         \A v \in ToSet(s), w \in ToSet(t) : Kind(w) \in MayFollow(Kind(v))
  PROVE  /\ s \o t \in Seq(WriteType) /\ InOrder(s \o t)
         /\ ToSet(s \o t) = ToSet(s) \cup ToSet(t)
  BY QueueConcat, InOrderConcat

\* The queue of an activation to path, the blocks being content.
Plan(q, path, content) ==
  /\ q \in Seq(WriteType) /\ InOrder(q) /\ q # << >>
  /\ Kinds(q) \subseteq {"block", "maps", "removal", "checkpoint", "index", "headers", "chainstate"}
  /\ {"block", "maps", "index", "headers", "chainstate"} \subseteq Kinds(q)
  /\ \A w \in ToSet(q) : w.file = "maps" => w = [file |-> "maps", path |-> path, coins |-> content]
  /\ \A w \in ToSet(q) : Kind(w) = "removal" => w.at >= Len(path)
  /\ \A w \in ToSet(q) : Kind(w) = "block" => w.at < Len(path) /\ w.to = content[w.at + 1]
  /\ \A h \in 0..(Len(path) - 1) : BlockWrite(h, content[h + 1]) \in ToSet(q)
  /\ EndsAt(disk.blocks, Len(path)) \/ BlockWrite(Len(path), NoBlock) \in ToSet(q)

\* A queue made of one write for each number up to n.
LEMMA QueueOf ==
  ASSUME NEW n \in Nat, NEW q, DOMAIN q = 1..n, q = [i \in 1..n |-> q[i]],
         \A i \in 1..n : q[i] \in WriteType
  PROVE  /\ q \in Seq(WriteType) /\ Len(q) = n
         /\ \A w : w \in ToSet(q) <=> \E i \in 1..n : w = q[i]
<1>1. q \in [1..n -> WriteType]
  OBVIOUS
<1>2. q \in Seq(WriteType)
  BY <1>1, SeqDef
<1>3. Len(q) = n
  BY <1>1, <1>2, LenProperties
<1> QED
  BY <1>2, <1>3 DEF ToSet

LEMMA ActivationPlan ==
  ASSUME StorageTyped, NEW path \in Paths, NEW content \in Seq(Block), Len(content) = Len(path)
  PROVE  Plan(ActivationWrites(path, content), path, content)
<1>1. PICK n : n = Len(path)
  OBVIOUS
<1>2. n \in Nat \ {0} /\ \A i \in 1..n : content[i] \in Block /\ content[i] # NoBlock
  BY <1>1, PathFacts, BlockAssumption
<1>3. PICK s : s = Cardinality(Stale(n - 1))
  OBVIOUS
<1>4. s \in Nat /\ (EndsAt(disk.blocks, n) \/ s # 0)
  <2>1. n - 1 \in Nat /\ (n - 1) + 1 = n
    BY <1>2
  <2> QED
    BY <1>3, <2>1, StaleShape
<1>5. PICK A : A = [i \in 1..n |-> BlockWrite(i - 1, content[i])]
  OBVIOUS
<1>6. PICK M : M = [file |-> "maps", path |-> path, coins |-> content]
  OBVIOUS
<1>7. PICK R : R = [i \in 1..s |-> BlockWrite(n - 1 + i, NoBlock)]
  OBVIOUS
<1>8. PICK C : C = IF TrailingCheckpoint(path) = node.checkpoint THEN << >> ELSE <<Write("checkpoint")>>
  OBVIOUS
<1>9. PICK E : E = <<Write("index"), Write("headers"), Write("chainstate")>>
  OBVIOUS
<1>10. ActivationWrites(path, content) = A \o <<M>> \o R \o C \o E
  BY <1>1, <1>3, <1>5, <1>6, <1>7, <1>8, <1>9 DEF ActivationWrites
<1>11. /\ A \in Seq(WriteType) /\ InOrder(A)
       /\ \A w : w \in ToSet(A) <=> \E i \in 1..n : w = BlockWrite(i - 1, content[i])
       /\ \A w \in ToSet(A) : Kind(w) = "block"
  <2>1. \A i \in 1..n : A[i] = BlockWrite(i - 1, content[i]) /\ A[i] \in WriteType
                        /\ Kind(A[i]) = "block"
    <3> SUFFICES ASSUME NEW i \in 1..n
                 PROVE  A[i] = BlockWrite(i - 1, content[i]) /\ A[i] \in WriteType
                        /\ Kind(A[i]) = "block"
      OBVIOUS
    <3>1. A[i] = BlockWrite(i - 1, content[i]) /\ i - 1 \in Nat
      BY <1>2, <1>5
    <3>2. content[i] \in Block /\ content[i] # NoBlock
      BY <1>2
    <3> QED
      BY <3>1, <3>2 DEF BlockWrite, WriteType, Kind
  <2>2. /\ A \in Seq(WriteType) /\ Len(A) = n
        /\ \A w : w \in ToSet(A) <=> \E i \in 1..n : w = A[i]
    <3>1. n \in Nat /\ \A i \in 1..n : A[i] \in WriteType
      BY <1>2, <2>1
    <3>2. DOMAIN A = 1..n /\ A = [i \in 1..n |-> A[i]]
      BY <1>5
    <3> QED
      BY <3>1, <3>2, QueueOf
  <2>3. InOrder(A)
    BY <1>5, <2>1 DEF InOrder, MayFollow
  <2> QED
    BY <2>1, <2>2, <2>3
<1>12. /\ <<M>> \in Seq(WriteType) /\ InOrder(<<M>>) /\ ToSet(<<M>>) = {M} /\ Kind(M) = "maps"
  <2>1. M \in WriteType /\ Kind(M) = "maps"
    BY <1>6 DEF WriteType, Kind
  <2>2. DOMAIN <<M>> = 1..1 /\ <<M>>[1] = M
    OBVIOUS
  <2>3. \A i, j \in 1..1 : ~(i < j)
    OBVIOUS
  <2> QED
    BY <2>1, <2>2, <2>3 DEF InOrder, ToSet
<1>13. /\ R \in Seq(WriteType) /\ InOrder(R)
       /\ \A w : w \in ToSet(R) <=> \E i \in 1..s : w = BlockWrite(n - 1 + i, NoBlock)
       /\ \A w \in ToSet(R) : Kind(w) = "removal"
  <2>1. \A i \in 1..s : R[i] = BlockWrite(n - 1 + i, NoBlock) /\ R[i] \in WriteType
                        /\ Kind(R[i]) = "removal"
    BY <1>2, <1>4, <1>7 DEF BlockWrite, WriteType, Kind
  <2>2. /\ R \in Seq(WriteType) /\ Len(R) = s
        /\ \A w : w \in ToSet(R) <=> \E i \in 1..s : w = R[i]
    <3>1. s \in Nat /\ \A i \in 1..s : R[i] \in WriteType
      BY <1>4, <2>1
    <3>2. DOMAIN R = 1..s /\ R = [i \in 1..s |-> R[i]]
      BY <1>7
    <3> QED
      BY <3>1, <3>2, QueueOf
  <2>3. InOrder(R)
    BY <1>7, <2>1 DEF InOrder, MayFollow
  <2> QED
    BY <2>1, <2>2, <2>3
<1>14. /\ C \in Seq(WriteType) /\ InOrder(C) /\ \A w \in ToSet(C) : w.file = "checkpoint" /\ Kind(w) = "checkpoint"
  <2>1. CASE C = << >>
    <3>1. DOMAIN << >> = {} /\ << >> \in Seq(WriteType)
      BY EmptySeq
    <3> QED
      BY <2>1, <3>1 DEF InOrder, ToSet
  <2>2. CASE C = <<Write("checkpoint")>>
    <3>1. PICK w : w = Write("checkpoint")
      OBVIOUS
    <3>2. w \in WriteType /\ Kind(w) = "checkpoint" /\ w.file = "checkpoint"
      BY <3>1 DEF WriteType, Kind, Write
    <3>3. C = <<w>> /\ DOMAIN <<w>> = 1..1 /\ <<w>>[1] = w
      BY <2>2, <3>1
    <3>4. \A i, j \in 1..1 : ~(i < j)
      OBVIOUS
    <3> QED
      BY <3>2, <3>3, <3>4 DEF InOrder, ToSet
  <2> QED
    BY <1>8, <2>1, <2>2
<1>15. /\ E \in Seq(WriteType) /\ InOrder(E)
       /\ ToSet(E) = {Write("index"), Write("headers"), Write("chainstate")}
       /\ \A w \in ToSet(E) : w.file \in {"index", "headers", "chainstate"} /\ Kind(w) = w.file
  <2>1. PICK e1, e2, e3 : e1 = Write("index") /\ e2 = Write("headers") /\ e3 = Write("chainstate")
    OBVIOUS
  <2>2. /\ e1 \in WriteType /\ Kind(e1) = "index" /\ e1.file = "index"
        /\ e2 \in WriteType /\ Kind(e2) = "headers" /\ e2.file = "headers"
        /\ e3 \in WriteType /\ Kind(e3) = "chainstate" /\ e3.file = "chainstate"
    BY <2>1 DEF WriteType, Kind, Write
  <2>3. E = <<e1, e2, e3>> /\ DOMAIN E = 1..3 /\ E[1] = e1 /\ E[2] = e2 /\ E[3] = e3
    BY <1>9, <2>1
  <2>4. E \in Seq(WriteType)
    BY <2>2, <2>3
  <2>5. InOrder(E)
    <3> SUFFICES ASSUME NEW i \in 1..3, NEW j \in 1..3, i < j
                 PROVE  Kind(E[j]) \in MayFollow(Kind(E[i]))
      BY <2>3 DEF InOrder
    <3>1. <<i, j>> = <<1, 2>> \/ <<i, j>> = <<1, 3>> \/ <<i, j>> = <<2, 3>>
      OBVIOUS
    <3> QED
      BY <2>2, <2>3, <3>1 DEF MayFollow
  <2>6. ToSet(E) = {e1, e2, e3}
    <3>1. 1..3 = {1, 2, 3}
      OBVIOUS
    <3> QED
      BY <2>3, <3>1 DEF ToSet
  <2> QED
    BY <2>1, <2>2, <2>4, <2>5, <2>6
<1>16. /\ A \o <<M>> \in Seq(WriteType) /\ InOrder(A \o <<M>>)
       /\ ToSet(A \o <<M>>) = ToSet(A) \cup {M}
  <2>1. \A v \in ToSet(A), w \in ToSet(<<M>>) : Kind(w) \in MayFollow(Kind(v))
    BY <1>11, <1>12 DEF MayFollow
  <2> QED
    BY <1>11, <1>12, <2>1, Joined
<1>17. PICK q1 : q1 = A \o <<M>>
  OBVIOUS
<1>18. /\ q1 \o R \in Seq(WriteType) /\ InOrder(q1 \o R)
       /\ ToSet(q1 \o R) = ToSet(A) \cup {M} \cup ToSet(R)
  <2>1. \A v \in ToSet(q1), w \in ToSet(R) : Kind(w) \in MayFollow(Kind(v))
    BY <1>11, <1>12, <1>13, <1>16, <1>17 DEF MayFollow
  <2> QED
    BY <1>13, <1>16, <1>17, <2>1, Joined
<1>19. PICK q2 : q2 = q1 \o R
  OBVIOUS
<1>20. /\ q2 \o C \in Seq(WriteType) /\ InOrder(q2 \o C)
       /\ ToSet(q2 \o C) = ToSet(A) \cup {M} \cup ToSet(R) \cup ToSet(C)
  <2>1. \A v \in ToSet(q2), w \in ToSet(C) : Kind(w) \in MayFollow(Kind(v))
    BY <1>11, <1>12, <1>13, <1>14, <1>18, <1>19 DEF MayFollow
  <2> QED
    BY <1>14, <1>18, <1>19, <2>1, Joined
<1>21. PICK q3 : q3 = q2 \o C
  OBVIOUS
<1>22. /\ q3 \o E \in Seq(WriteType) /\ InOrder(q3 \o E)
       /\ ToSet(q3 \o E) = ToSet(A) \cup {M} \cup ToSet(R) \cup ToSet(C) \cup ToSet(E)
  <2>1. \A v \in ToSet(q3), w \in ToSet(E) : Kind(w) \in MayFollow(Kind(v))
    BY <1>11, <1>12, <1>13, <1>14, <1>15, <1>20, <1>21 DEF MayFollow
  <2> QED
    BY <1>15, <1>20, <1>21, <2>1, Joined
<1>23. PICK q : q = q3 \o E
  OBVIOUS
<1>24. q = ActivationWrites(path, content)
  BY <1>10, <1>17, <1>19, <1>21, <1>23
<1>25. /\ q \in Seq(WriteType) /\ InOrder(q)
       /\ ToSet(q) = ToSet(A) \cup {M} \cup ToSet(R) \cup ToSet(C) \cup ToSet(E)
  BY <1>22, <1>23
<1>26. Kinds(q) \subseteq {"block", "maps", "removal", "checkpoint", "index", "headers", "chainstate"}
  <2> SUFFICES ASSUME NEW w \in ToSet(q)
               PROVE  Kind(w) \in {"block", "maps", "removal", "checkpoint", "index", "headers", "chainstate"}
    BY DEF Kinds
  <2> QED
    BY <1>11, <1>12, <1>13, <1>14, <1>15, <1>25
<1>27. {"block", "maps", "index", "headers", "chainstate"} \subseteq Kinds(q)
  <2>1. PICK w : w = BlockWrite(0, content[1])
    OBVIOUS
  <2>2. w \in ToSet(q) /\ Kind(w) = "block"
    <3>1. 1 \in 1..n /\ 0 = 1 - 1
      BY <1>2
    <3> QED
      BY <1>11, <1>25, <2>1, <3>1
  <2>3. M \in ToSet(q)
    BY <1>25
  <2>4. \A k \in {"index", "headers", "chainstate"} : Write(k) \in ToSet(q) /\ Kind(Write(k)) = k
    BY <1>15, <1>25 DEF Write
  <2> QED
    BY <1>12, <2>2, <2>3, <2>4 DEF Kinds
<1>28. \A w \in ToSet(q) : w.file = "maps" => w = M
  BY <1>11, <1>13, <1>14, <1>15, <1>25 DEF BlockWrite
<1>29. \A w \in ToSet(q) : Kind(w) = "removal" => w.at >= n
  <2> SUFFICES ASSUME NEW w \in ToSet(q), Kind(w) = "removal" PROVE w.at >= n
    OBVIOUS
  <2>1. w \in ToSet(R)
    BY <1>11, <1>12, <1>14, <1>15, <1>25
  <2>2. PICK i \in 1..s : w = BlockWrite(n - 1 + i, NoBlock)
    BY <1>13, <2>1
  <2> QED
    BY <1>2, <1>4, <2>2 DEF BlockWrite
<1>30. \A w \in ToSet(q) : Kind(w) = "block" => w.at < n /\ w.to = content[w.at + 1]
  <2> SUFFICES ASSUME NEW w \in ToSet(q), Kind(w) = "block"
               PROVE  w.at < n /\ w.to = content[w.at + 1]
    OBVIOUS
  <2>1. w \in ToSet(A)
    BY <1>12, <1>13, <1>14, <1>15, <1>25
  <2>2. PICK i \in 1..n : w = BlockWrite(i - 1, content[i])
    BY <1>11, <2>1
  <2>3. w.at = i - 1 /\ w.to = content[i]
    BY <2>2 DEF BlockWrite
  <2> QED
    BY <1>2, <2>3
<1>31. \A h \in 0..(n - 1) : BlockWrite(h, content[h + 1]) \in ToSet(q)
  <2> SUFFICES ASSUME NEW h \in 0..(n - 1) PROVE BlockWrite(h, content[h + 1]) \in ToSet(q)
    OBVIOUS
  <2>1. h + 1 \in 1..n /\ (h + 1) - 1 = h
    BY <1>2
  <2> QED
    BY <1>11, <1>25, <2>1
<1>32. EndsAt(disk.blocks, n) \/ BlockWrite(n, NoBlock) \in ToSet(q)
  <2> SUFFICES ASSUME s # 0 PROVE BlockWrite(n, NoBlock) \in ToSet(q)
    BY <1>4
  <2>1. 1 \in 1..s /\ n - 1 + 1 = n
    BY <1>2, <1>4
  <2> QED
    BY <1>13, <1>25, <2>1
<1>33. q # << >>
  <2>1. DOMAIN << >> = {}
    OBVIOUS
  <2>2. M \in ToSet(q)
    BY <1>25
  <2> QED
    BY <2>1, <2>2 DEF ToSet
<1>34. Plan(q, path, content)
  BY <1>1, <1>6, <1>25, <1>26, <1>27, <1>28, <1>29, <1>30, <1>31, <1>32, <1>33 DEF Plan
<1> QED
  BY <1>24, <1>34

-----------------------------------------------------------------------------
(* What memory will have when a call is done                               *)

LEMMA NoKinds ==
  ASSUME NEW q \in Seq(WriteType)
  PROVE  Kinds(q) = {} <=> q = << >>
<1>1. ASSUME q # << >> PROVE Kinds(q) # {}
  <2>1. Kind(Head(q)) \in Kinds(q)
    BY <1>1, QueueHead
  <2> QED
    BY <2>1
<1>2. ASSUME q = << >> PROVE Kinds(q) = {}
  <2>1. DOMAIN << >> = {}
    OBVIOUS
  <2> QED
    BY <1>2, <2>1 DEF Kinds, ToSet
<1> QED
  BY <1>1, <1>2

LEMMA TargetOfPlan ==
  ASSUME NEW q, NEW memory, NEW m \in ToSet(q), m.file = "maps",
         \A w \in ToSet(q) : w.file = "maps" => w = m
  PROVE  TargetOf(q, memory) = [path |-> m.path, coins |-> m.coins]
<1>1. Ahead(q) = {m}
  BY DEF Ahead
<1> QED
  BY <1>1 DEF TargetOf

LEMMA TargetOfRest ==
  ASSUME NEW q \in Seq(WriteType), NEW memory, "maps" \notin Kinds(q)
  PROVE  TargetOf(q, memory) = [path |-> memory.path, coins |-> memory.coins]
<1>1. Ahead(q) = {}
  <2> SUFFICES ASSUME NEW w \in ToSet(q), w.file = "maps" PROVE FALSE
    BY DEF Ahead
  <2>1. w \in WriteType
    BY DEF ToSet
  <2>2. Kind(w) = "maps"
    BY <2>1, WriteFacts
  <2> QED
    BY <2>2 DEF Kinds
<1> QED
  BY <1>1 DEF TargetOf

LEMMA TargetType ==
  ASSUME NEW q \in Seq(WriteType), NEW memory, memory.path \in Paths, memory.coins \in Seq(Block)
  PROVE  TargetOf(q, memory).path \in Paths /\ TargetOf(q, memory).coins \in Seq(Block)
<1>1. CASE Ahead(q) = {}
  BY <1>1 DEF TargetOf
<1>2. CASE Ahead(q) # {}
  <2>1. PICK m : m = CHOOSE w \in Ahead(q) : TRUE
    OBVIOUS
  <2>2. m \in Ahead(q)
    BY <1>2, <2>1
  <2>3. m \in WriteType /\ m.file = "maps"
    BY <2>2 DEF Ahead, ToSet
  <2>4. m.path \in Paths /\ m.coins \in Seq(Block)
    BY <2>3, WriteFacts
  <2> QED
    BY <1>2, <2>1, <2>4 DEF TargetOf
<1> QED
  BY <1>1, <1>2

\* Carrying out the first write of a queue does not change what it leads to.
LEMMA TargetOfTail ==
  ASSUME NEW q \in Seq(WriteType), q # << >>, InOrder(q), NEW memory, NEW then,
         Head(q).file = "maps" => then.path = Head(q).path /\ then.coins = Head(q).coins,
         Head(q).file # "maps" => then.path = memory.path /\ then.coins = memory.coins
  PROVE  TargetOf(Tail(q), then) = TargetOf(q, memory)
<1>1. /\ Head(q) \in WriteType /\ Tail(q) \in Seq(WriteType)
      /\ ToSet(q) = {Head(q)} \cup ToSet(Tail(q))
  BY QueueHead
<1>2. CASE Head(q).file = "maps"
  <2>1. Kind(Head(q)) = "maps"
    BY <1>1, <1>2, WriteFacts
  <2>2. "maps" \notin Kinds(Tail(q))
    BY <2>1, InOrderTail DEF MayFollow
  <2>3. TargetOf(Tail(q), then) = [path |-> then.path, coins |-> then.coins]
    BY <1>1, <2>2, TargetOfRest
  <2>4. ASSUME NEW w \in ToSet(q), w.file = "maps" PROVE w = Head(q)
    <3>1. SUFFICES ASSUME w \in ToSet(Tail(q)) PROVE FALSE
      BY <1>1
    <3>2. w \in WriteType
      BY <1>1, <3>1 DEF ToSet
    <3>3. Kind(w) = "maps"
      BY <2>4, <3>2, WriteFacts
    <3> QED
      BY <2>2, <3>1, <3>3 DEF Kinds
  <2>5. TargetOf(q, memory) = [path |-> Head(q).path, coins |-> Head(q).coins]
    BY <1>1, <1>2, <2>4, TargetOfPlan
  <2> QED
    BY <1>2, <2>3, <2>5
<1>3. CASE Head(q).file # "maps"
  <2>1. Ahead(Tail(q)) = Ahead(q)
    BY <1>1, <1>3 DEF Ahead
  <2>2. PICK A : A = Ahead(q)
    OBVIOUS
  <2>3. PICK m : m = CHOOSE w \in A : TRUE
    OBVIOUS
  <2>4. CASE A = {}
    <3>1. TargetOf(q, memory) = [path |-> memory.path, coins |-> memory.coins]
      BY <2>2, <2>4 DEF TargetOf
    <3>2. TargetOf(Tail(q), then) = [path |-> then.path, coins |-> then.coins]
      BY <2>1, <2>2, <2>4 DEF TargetOf
    <3> QED
      BY <1>3, <3>1, <3>2
  <2>5. CASE A # {}
    <3>1. TargetOf(q, memory) = [path |-> m.path, coins |-> m.coins]
      BY <2>2, <2>3, <2>5 DEF TargetOf
    <3>2. TargetOf(Tail(q), then) = [path |-> m.path, coins |-> m.coins]
      BY <2>1, <2>2, <2>3, <2>5 DEF TargetOf
    <3> QED
      BY <3>1, <3>2
  <2> QED
    BY <2>4, <2>5
<1> QED
  BY <1>2, <1>3

LEMMA QueueTyped ==
  ASSUME StorageTyped, NEW w \in Queue
  PROVE  w \in WriteType
  BY DEF StorageTyped, Queue, ToSet

LEMMA WriteBasics ==
  ASSUME StorageInv, DoWrite
  PROVE  /\ writes # << >> /\ Head(writes) \in WriteType /\ writes' = Tail(writes)
         /\ writes' \in Seq(WriteType) /\ InOrder(writes')
         /\ Queue = {Head(writes)} \cup Queue'
         /\ Pending = {Kind(Head(writes))} \cup Pending'
         /\ Pending' \subseteq MayFollow(Kind(Head(writes)))
         /\ Target' = Target
         /\ Target.path \in Paths /\ Target.coins \in Seq(Block) /\ node.path \in Paths
         /\ (writes' = << >>) <=> (Pending' = {})
         /\ phase' = phase /\ onto' = onto /\ mishaps' = mishaps
         /\ Alive /\ Alive'
<1>1. /\ writes \in Seq(WriteType) /\ writes # << >> /\ writes' = Tail(writes)
      /\ phase' = phase /\ onto' = onto /\ mishaps' = mishaps /\ InOrder(writes)
  BY DEF StorageInv, StorageTyped, DoWrite, Planned
<1>2. Alive /\ Alive' /\ node.path \in Paths /\ node.coins \in Seq(Block)
  BY <1>1 DEF StorageInv, StorageTyped, Planned, Alive
<1>3. /\ Head(writes) \in WriteType /\ Tail(writes) \in Seq(WriteType)
      /\ ToSet(writes) = {Head(writes)} \cup ToSet(Tail(writes))
      /\ Kinds(writes) = {Kind(Head(writes))} \cup Kinds(Tail(writes))
  BY <1>1, QueueHead
<1>4. InOrder(Tail(writes)) /\ Kinds(Tail(writes)) \subseteq MayFollow(Kind(Head(writes)))
  BY <1>1, InOrderTail
<1>5. Target.path \in Paths /\ Target.coins \in Seq(Block)
  BY <1>1, <1>2, TargetType DEF Target
<1>6. (Tail(writes) = << >>) <=> (Kinds(Tail(writes)) = {})
  BY <1>3, NoKinds
<1>7. Target' = Target
  <2>1. /\ Head(writes).file = "maps" => node'.path = Head(writes).path /\ node'.coins = Head(writes).coins
        /\ Head(writes).file # "maps" => node'.path = node.path /\ node'.coins = node.coins
    BY DEF DoWrite, StorageInv, StorageTyped
  <2>2. TargetOf(Tail(writes), node') = TargetOf(writes, node)
    BY <1>1, <2>1, TargetOfTail
  <2> QED
    BY <1>1, <2>2 DEF Target
<1> QED
  BY <1>1, <1>2, <1>3, <1>4, <1>5, <1>6, <1>7 DEF Queue, Pending

-----------------------------------------------------------------------------
(* One write                                                               *)

\* The types of the node and of its files, field by field.
LEMMA Fields ==
  StorageTyped <=>
    /\ phase \in {"running", "down", "loaded", "replayed", "repaired", "refused"}
    /\ onto \in {"extension", "reorg"}
    /\ node = [path |-> node.path, coins |-> node.coins, pool |-> node.pool,
               known |-> node.known, checkpoint |-> node.checkpoint]
    /\ node.path \in Paths \cup {NoPath} /\ node.coins \in Seq(Block)
    /\ node.pool \subseteq Block /\ node.known \subseteq Block /\ node.checkpoint \in Marks
    /\ disk = [blocks |-> disk.blocks, index |-> disk.index, headers |-> disk.headers,
               chainstate |-> disk.chainstate, checkpoint |-> disk.checkpoint]
    /\ disk.blocks \in BlockFiles /\ disk.index \in Paths \cup {NoPath}
    /\ disk.headers \in [state : {"whole", "empty", "cut"}, of : SUBSET Block]
    /\ disk.chainstate \in [path : Paths \cup {NoPath}, coins : Seq(Block)]
    /\ disk.checkpoint \in Marks
    /\ lapses \subseteq {"block", "checkpoint", "index", "headers", "chainstate", "reorg", "unrepaired"}
    /\ writes \in Seq(WriteType)
    /\ mishaps \in 0..MaxMishaps
  BY DEF StorageTyped

\* Where a height file is to be written, and with what.
LEMMA BlockWriteFacts ==
  ASSUME StorageInv, NEW w \in Queue, w.file = "block"
  PROVE  /\ w \in WriteType /\ w.at \in Nat /\ w.to \in Block \cup {NoBlock}
         /\ w.to \in Block => Height[w.to] = w.at
         /\ Kind(w) = "removal" <=> w.to = NoBlock
         /\ Kind(w) = "block" <=> w.to \in Block
<1>1. w \in WriteType
  BY QueueTyped DEF StorageInv
<1>2. /\ w.at \in Nat /\ w.to \in Block \cup {NoBlock}
      /\ Kind(w) = "removal" <=> w.to = NoBlock
      /\ Kind(w) = "block" <=> w.to \in Block
  BY <1>1, WriteFacts, BlockAssumption
<1>3. ASSUME w.to \in Block PROVE Height[w.to] = w.at
  <2>1. Kind(w) = "block" /\ "block" \in Pending
    BY <1>2, <1>3 DEF Pending, Kinds, Queue
  <2>2. writes # << >>
    <3>1. DOMAIN << >> = {}
      OBVIOUS
    <3> QED
      BY <3>1 DEF Queue, ToSet
  <2>3. Alive
    BY <2>2 DEF StorageInv, Planned
  <2>4. CASE phase = "loaded"
    <3>1. w.at = 0 /\ w.to = Genesis
      <4>1. writes = <<BlockWrite(0, Genesis), Write("index"), Write("headers")>>
        BY <2>1, <2>4 DEF StorageInv, Aimed
      <4>2. PICK i \in 1..3 : w = writes[i]
        BY <4>1 DEF Queue, ToSet
      <4>3. i = 1 \/ w = Write("index") \/ w = Write("headers")
        BY <4>1, <4>2
      <4>4. i = 1
        BY <4>3 DEF Write
      <4> QED
        BY <4>1, <4>2, <4>4 DEF BlockWrite
    <3>2. <<Genesis>> \in Paths /\ <<Genesis>>[1] = Genesis /\ Len(<<Genesis>>) = 1
      BY GenesisPath
    <3>3. \A i \in 1..Len(<<Genesis>>) : Height[<<Genesis>>[i]] = i - 1
      BY <3>2, PathFacts
    <3> QED
      BY <3>1, <3>2, <3>3
  <2>5. CASE phase # "loaded"
    <3>1. phase # "replayed"
      BY <2>1 DEF StorageInv, Planned
    <3>2. phase \in {"repaired", "running"}
      BY <2>3, <2>5, <3>1 DEF StorageInv, StorageTyped, Alive
    <3>3. w.at < Len(Target.path) /\ w.to = Target.coins[w.at + 1]
          /\ Len(Target.coins) = Len(Target.path)
          /\ \A i \in 1..Len(Target.coins) : Height[Target.coins[i]] = i - 1
      BY <2>1, <2>2, <2>5, <3>2 DEF StorageInv, Aimed
    <3>4. Len(Target.coins) \in Nat
      <4>1. node.path \in Paths /\ node.coins \in Seq(Block) /\ writes \in Seq(WriteType)
        BY <2>3 DEF StorageInv, Planned, StorageTyped
      <4>2. Target.coins \in Seq(Block)
        BY <4>1, TargetType DEF Target
      <4> QED
        BY <4>2
    <3>5. w.at + 1 \in 1..Len(Target.coins) /\ (w.at + 1) - 1 = w.at
      BY <1>2, <3>3, <3>4
    <3> QED
      BY <3>3, <3>5
  <2> QED
    BY <2>4, <2>5
<1> QED
  BY <1>1, <1>2, <1>3

\* What a write does to the files, to memory and to the lapses.
LEMMA WriteEffects ==
  ASSUME StorageInv, DoWrite
  PROVE  LET w == Head(writes)
             k == Kind(Head(writes)) IN
         /\ k \in {"block", "removal", "maps", "checkpoint", "index", "headers", "chainstate"}
         /\ k \in {"block", "removal"} =>
              w.file = "block" /\ disk'.blocks = [disk.blocks EXCEPT ![w.at] = w.to]
         /\ k \notin {"block", "removal"} => w.file = k /\ disk'.blocks = disk.blocks
         /\ disk'.index = IF k = "index" THEN node.path ELSE disk.index
         /\ disk'.headers = IF k = "headers" THEN [state |-> "whole", of |-> node.known]
                            ELSE disk.headers
         /\ disk'.chainstate = IF k = "chainstate" THEN [path |-> node.path, coins |-> node.coins]
                               ELSE disk.chainstate
         /\ disk'.checkpoint = IF k = "checkpoint" THEN TrailingCheckpoint(node.path)
                               ELSE disk.checkpoint
         /\ node'.path = IF k = "maps" THEN Target.path ELSE node.path
         /\ node'.coins = IF k = "maps" THEN Target.coins ELSE node.coins
         /\ node'.checkpoint = IF k = "checkpoint" THEN TrailingCheckpoint(node.path)
                               ELSE node.checkpoint
         /\ node'.pool = node.pool /\ node'.known = node.known
<1> DEFINE w == Head(writes)
           k == Kind(w)
<1>1. /\ w \in WriteType /\ w \in ToSet(writes) /\ writes # << >> /\ writes' = Tail(writes)
      /\ Queue = {w} \cup Queue'
  BY WriteBasics DEF Queue
<1>2. /\ k \in {"block", "removal", "maps", "checkpoint", "index", "headers", "chainstate"}
      /\ k \in {"block", "removal"} <=> w.file = "block"
      /\ k \notin {"block", "removal"} => w.file = k
  BY <1>1, WriteFacts
<1>3. /\ disk = [blocks |-> disk.blocks, index |-> disk.index, headers |-> disk.headers,
                 chainstate |-> disk.chainstate, checkpoint |-> disk.checkpoint]
      /\ node = [path |-> node.path, coins |-> node.coins, pool |-> node.pool,
                 known |-> node.known, checkpoint |-> node.checkpoint]
  BY Fields DEF StorageInv
<1>4. /\ disk' = Written(w)
      /\ node' = CASE w.file = "maps" -> [node EXCEPT !.path = w.path, !.coins = w.coins]
                  [] w.file = "checkpoint" ->
                       [node EXCEPT !.checkpoint = TrailingCheckpoint(node.path)]
                  [] OTHER -> node
  BY DEF DoWrite
<1>5. k = "maps" => Target.path = w.path /\ Target.coins = w.coins
  <2> SUFFICES ASSUME k = "maps" PROVE Target.path = w.path /\ Target.coins = w.coins
    OBVIOUS
  <2>1. w.file = "maps"
    BY <1>2
  <2>2. node'.path = w.path /\ node'.coins = w.coins
    BY <1>3, <1>4, <2>1
  <2>3. writes' \in Seq(WriteType) /\ "maps" \notin Kinds(writes')
    BY WriteBasics DEF Pending, MayFollow
  <2>4. TargetOf(writes', node') = [path |-> node'.path, coins |-> node'.coins]
    BY <2>3, TargetOfRest
  <2>5. Target' = Target
    BY WriteBasics
  <2> QED
    BY <2>2, <2>4, <2>5 DEF Target
<1> HIDE DEF w, k
<1>6. CASE k \in {"block", "removal"}
  <2>1. w.file = "block"
    BY <1>2, <1>6
  <2>2. disk' = [disk EXCEPT !.blocks[w.at] = w.to] /\ node' = node
    BY <1>4, <2>1 DEF Written
  <2>3. /\ disk'.blocks = [disk.blocks EXCEPT ![w.at] = w.to] /\ disk'.index = disk.index
        /\ disk'.headers = disk.headers /\ disk'.chainstate = disk.chainstate
        /\ disk'.checkpoint = disk.checkpoint
    BY <1>3, <2>2
  <2> QED
    BY <1>2, <1>6, <2>1, <2>2, <2>3 DEF w, k
<1>7. CASE k = "maps"
  <2>1. w.file = "maps"
    BY <1>2, <1>7
  <2>2. disk' = disk /\ node' = [node EXCEPT !.path = w.path, !.coins = w.coins]
    BY <1>4, <2>1 DEF Written
  <2>3. /\ node'.path = w.path /\ node'.coins = w.coins /\ node'.pool = node.pool
        /\ node'.known = node.known /\ node'.checkpoint = node.checkpoint
    BY <1>3, <2>2
  <2> QED
    BY <1>2, <1>5, <1>7, <2>1, <2>2, <2>3 DEF w, k
<1>8. CASE k = "checkpoint"
  <2>1. w.file = "checkpoint"
    BY <1>2, <1>8
  <2>2. /\ disk' = [disk EXCEPT !.checkpoint = TrailingCheckpoint(node.path)]
        /\ node' = [node EXCEPT !.checkpoint = TrailingCheckpoint(node.path)]
    BY <1>4, <2>1 DEF Written
  <2>3. /\ node'.path = node.path /\ node'.coins = node.coins /\ node'.pool = node.pool
        /\ node'.known = node.known /\ node'.checkpoint = TrailingCheckpoint(node.path)
        /\ disk'.blocks = disk.blocks /\ disk'.index = disk.index
        /\ disk'.headers = disk.headers /\ disk'.chainstate = disk.chainstate
        /\ disk'.checkpoint = TrailingCheckpoint(node.path)
    BY <1>3, <2>2
  <2> QED
    BY <1>2, <1>8, <2>1, <2>3 DEF w, k
<1>9. CASE k = "index"
  <2>1. w.file = "index"
    BY <1>2, <1>9
  <2>2. disk' = [disk EXCEPT !.index = node.path] /\ node' = node
    BY <1>4, <2>1 DEF Written
  <2>3. /\ disk'.blocks = disk.blocks /\ disk'.index = node.path
        /\ disk'.headers = disk.headers /\ disk'.chainstate = disk.chainstate
        /\ disk'.checkpoint = disk.checkpoint
    BY <1>3, <2>2
  <2> QED
    BY <1>2, <1>9, <2>1, <2>2, <2>3 DEF w, k
<1>10. CASE k = "headers"
  <2>1. w.file = "headers"
    BY <1>2, <1>10
  <2>2. disk' = [disk EXCEPT !.headers = [state |-> "whole", of |-> node.known]] /\ node' = node
    BY <1>4, <2>1 DEF Written
  <2>3. /\ disk'.blocks = disk.blocks /\ disk'.index = disk.index
        /\ disk'.headers = [state |-> "whole", of |-> node.known]
        /\ disk'.chainstate = disk.chainstate
        /\ disk'.checkpoint = disk.checkpoint
    BY <1>3, <2>2
  <2> QED
    BY <1>2, <1>10, <2>1, <2>2, <2>3 DEF w, k
<1>11. CASE k = "chainstate"
  <2>1. w.file = "chainstate"
    BY <1>2, <1>11
  <2>2. disk' = [disk EXCEPT !.chainstate = [path |-> node.path, coins |-> node.coins]]
        /\ node' = node
    BY <1>4, <2>1 DEF Written
  <2>3. /\ disk'.blocks = disk.blocks /\ disk'.index = disk.index
        /\ disk'.headers = disk.headers
        /\ disk'.chainstate = [path |-> node.path, coins |-> node.coins]
        /\ disk'.checkpoint = disk.checkpoint
    BY <1>3, <2>2
  <2> QED
    BY <1>2, <1>11, <2>1, <2>2, <2>3 DEF w, k
<1> QED
  BY <1>2, <1>6, <1>7, <1>8, <1>9, <1>10, <1>11

\* The lapses that a new chainstate.dat mends.
SnapshotMends == {"chainstate"} \cup IF node.coins = node.path THEN {"unrepaired"} ELSE {}

\* The lapses after a write.
LEMMA WriteLapses ==
  ASSUME StorageInv, DoWrite
  PROVE  LET k == Kind(Head(writes))
             held == \A h \in 0..(Len(Target.path) - 1) : disk.blocks[h] = Target.coins[h + 1] IN
         /\ k \in {"block", "removal"} => lapses' = lapses
         /\ k = "maps" => lapses' = IF held THEN lapses \ {"block"} ELSE lapses
         /\ k \in {"checkpoint", "index", "headers"} => lapses' = lapses \ {k}
         /\ k = "chainstate" => \/ lapses' = lapses \ SnapshotMends
                                \/ /\ phase = "running" /\ lapses' = {}
                                   /\ lapses \ SnapshotMends = {"reorg"}
<1> DEFINE w == Head(writes)
           k == Kind(w)
           held == \A h \in 0..(Len(Target.path) - 1) : disk.blocks[h] = Target.coins[h + 1]
<1>1. /\ w.file = "block" <=> k \in {"block", "removal"}
      /\ k \notin {"block", "removal"} => w.file = k
      /\ k = "maps" => node'.path = w.path /\ node'.coins = w.coins
                       /\ Target.path = w.path /\ Target.coins = w.coins
  <2>1. w \in WriteType
    BY WriteBasics
  <2>2. /\ w.file = "block" <=> k \in {"block", "removal"}
        /\ k \notin {"block", "removal"} => w.file = k
    BY <2>1, WriteFacts
  <2>3. node \in [path : Paths \cup {NoPath}, coins : Seq(Block), pool : SUBSET Block,
                 known : SUBSET Block, checkpoint : Marks]
    BY DEF StorageInv, StorageTyped
  <2>4. w.file = "maps" => node'.path = w.path /\ node'.coins = w.coins
    BY <2>3 DEF DoWrite
  <2> QED
    BY <2>2, <2>4, WriteEffects
<1>2. lapses' = LET left == lapses \ Mended(w) IN
                IF w.file = "chainstate" /\ phase = "running" /\ left = {"reorg"}
                THEN {} ELSE left
  BY DEF DoWrite
<1>3. Target.path \in Paths
  BY WriteBasics
<1> HIDE DEF w, k
<1>4. CASE k \in {"block", "removal"}
  BY <1>1, <1>2, <1>4 DEF Mended, k, w
<1>5. CASE k = "maps"
  <2>1. w.file = "maps"
    BY <1>1, <1>5
  <2>2. lapses' = lapses \ Mended(w)
    BY <1>2, <2>1
  <2>3. (\A i \in 1..Len(w.path) : disk.blocks[i - 1] = w.coins[i]) <=> held
    <3>1. Len(Target.path) \in Nat /\ w.path = Target.path /\ w.coins = Target.coins
      BY <1>1, <1>3, <1>5, PathFacts
    <3>2. ASSUME held, NEW i \in 1..Len(w.path) PROVE disk.blocks[i - 1] = w.coins[i]
      <4>1. i - 1 \in 0..(Len(Target.path) - 1) /\ (i - 1) + 1 = i
        BY <3>1
      <4> QED
        BY <3>1, <3>2, <4>1
    <3>3. ASSUME \A i \in 1..Len(w.path) : disk.blocks[i - 1] = w.coins[i],
                 NEW h \in 0..(Len(Target.path) - 1)
          PROVE  disk.blocks[h] = Target.coins[h + 1]
      <4>1. h + 1 \in 1..Len(w.path) /\ (h + 1) - 1 = h
        BY <3>1
      <4> QED
        BY <3>1, <3>3, <4>1
    <3> QED
      BY <3>2, <3>3
  <2>4. Mended(w) = IF held THEN {"block"} ELSE {}
    BY <2>1, <2>3 DEF Mended
  <2>5. lapses' = IF held THEN lapses \ {"block"} ELSE lapses
    BY <2>2, <2>4
  <2> QED
    BY <1>5, <2>5 DEF k, w
<1>6. CASE k \in {"checkpoint", "index", "headers"}
  <2>1. w.file = k
    BY <1>1, <1>6
  <2>2. Mended(w) = {k}
    BY <1>6, <2>1 DEF Mended
  <2>3. lapses' = lapses \ {k}
    BY <1>2, <1>6, <2>1, <2>2
  <2> QED
    BY <1>6, <2>3 DEF k, w
<1>7. CASE k = "chainstate"
  <2>1. w.file = k
    BY <1>1, <1>7
  <2>2. Mended(w) = SnapshotMends
    BY <1>7, <2>1 DEF Mended, SnapshotMends
  <2> QED
    BY <1>2, <1>7, <2>1, <2>2 DEF k, w
<1>8. k \in {"block", "removal", "maps", "checkpoint", "index", "headers", "chainstate"}
  BY WriteEffects DEF k, w
<1> QED
  BY <1>4, <1>5, <1>6, <1>7, <1>8 DEF k, w

\* Which phase has which writes.
LEMMA PhaseOfWrite ==
  ASSUME StorageInv, writes # << >>
  PROVE  /\ Alive /\ phase # "down" /\ phase # "refused"
         /\ phase \in {"loaded", "replayed", "repaired", "running"}
         /\ Pending \cap {"maps", "removal", "checkpoint"} # {} => phase \in {"repaired", "running"}
         /\ Pending \cap {"block", "index", "headers"} # {} => phase # "replayed"
         /\ "chainstate" \in Pending => phase # "loaded"
         /\ phase \in {"repaired", "running"} =>
              /\ "chainstate" \in Pending
              /\ Len(Target.coins) = Len(Target.path)
  BY NoKinds DEF StorageInv, StorageTyped, Planned, Aimed, Alive, Pending

LEMMA WriteTyped ==
  ASSUME StorageInv, DoWrite
  PROVE  StorageTyped'
<1> DEFINE w == Head(writes)
           k == Kind(Head(writes))
<1>1. /\ writes' \in Seq(WriteType) /\ Target.path \in Paths /\ Target.coins \in Seq(Block)
      /\ node.path \in Paths /\ phase' = phase /\ onto' = onto /\ mishaps' = mishaps
      /\ w \in Queue
  BY WriteBasics
<1>2. /\ phase \in {"running", "down", "loaded", "replayed", "repaired", "refused"}
      /\ onto \in {"extension", "reorg"} /\ node.coins \in Seq(Block)
      /\ node.pool \subseteq Block /\ node.known \subseteq Block /\ node.checkpoint \in Marks
      /\ disk.blocks \in BlockFiles /\ disk.index \in Paths \cup {NoPath}
      /\ disk.headers \in [state : {"whole", "empty", "cut"}, of : SUBSET Block]
      /\ disk.chainstate \in [path : Paths \cup {NoPath}, coins : Seq(Block)]
      /\ disk.checkpoint \in Marks
      /\ lapses \subseteq {"block", "checkpoint", "index", "headers", "chainstate", "reorg", "unrepaired"}
      /\ mishaps \in 0..MaxMishaps
  BY Fields DEF StorageInv
<1>3. TrailingCheckpoint(node.path) \in Marks
  BY <1>1, PathCheckpoint
<1>4. disk'.blocks \in BlockFiles
  <2>1. CASE k \in {"block", "removal"}
    <3>1. w.file = "block" /\ disk'.blocks = [disk.blocks EXCEPT ![w.at] = w.to]
      BY <2>1, WriteEffects
    <3>2. w.to \in Block \cup {NoBlock}
      BY <1>1, <3>1, BlockWriteFacts
    <3> QED
      BY <1>2, <3>1, <3>2 DEF BlockFiles
  <2>2. CASE k \notin {"block", "removal"}
    BY <1>2, <2>2, WriteEffects
  <2> QED
    BY <2>1, <2>2
<1>5. lapses' \subseteq {"block", "checkpoint", "index", "headers", "chainstate", "reorg", "unrepaired"}
  BY <1>2, WriteEffects, WriteLapses
<1>6. node'.path \in Paths /\ node'.coins \in Seq(Block) /\ node'.checkpoint \in Marks
      /\ node'.pool \subseteq Block /\ node'.known \subseteq Block
  BY <1>1, <1>2, <1>3, WriteEffects
<1>7. /\ disk'.index \in Paths \cup {NoPath} /\ disk'.checkpoint \in Marks
      /\ disk'.chainstate \in [path : Paths \cup {NoPath}, coins : Seq(Block)]
  BY <1>1, <1>2, <1>3, WriteEffects
<1>8. disk'.headers \in [state : {"whole", "empty", "cut"}, of : SUBSET Block]
  BY <1>2, WriteEffects
<1>9. /\ disk' = [blocks |-> disk'.blocks, index |-> disk'.index, headers |-> disk'.headers,
                  chainstate |-> disk'.chainstate, checkpoint |-> disk'.checkpoint]
      /\ node' = [path |-> node'.path, coins |-> node'.coins, pool |-> node'.pool,
                  known |-> node'.known, checkpoint |-> node'.checkpoint]
  <2>1. /\ disk = [blocks |-> disk.blocks, index |-> disk.index, headers |-> disk.headers,
                   chainstate |-> disk.chainstate, checkpoint |-> disk.checkpoint]
        /\ node = [path |-> node.path, coins |-> node.coins, pool |-> node.pool,
                   known |-> node.known, checkpoint |-> node.checkpoint]
    BY Fields DEF StorageInv
  <2>2. w.file \in {"block", "maps", "checkpoint", "index", "headers", "chainstate"}
    BY WriteBasics, WriteFacts
  <2>3. disk' = Written(w)
    BY DEF DoWrite
  <2>4. node' = CASE w.file = "maps" -> [node EXCEPT !.path = w.path, !.coins = w.coins]
                  [] w.file = "checkpoint" ->
                       [node EXCEPT !.checkpoint = TrailingCheckpoint(node.path)]
                  [] OTHER -> node
    BY DEF DoWrite
  <2> HIDE DEF w
  <2>5. disk' = [blocks |-> disk'.blocks, index |-> disk'.index, headers |-> disk'.headers,
                 chainstate |-> disk'.chainstate, checkpoint |-> disk'.checkpoint]
    BY <2>1, <2>2, <2>3 DEF Written
  <2>6. node' = [path |-> node'.path, coins |-> node'.coins, pool |-> node'.pool,
                 known |-> node'.known, checkpoint |-> node'.checkpoint]
    BY <2>1, <2>4
  <2> QED
    BY <2>5, <2>6
<1> QED
  BY <1>1, <1>2, <1>4, <1>5, <1>6, <1>7, <1>8, <1>9 DEF StorageTyped

\* A height file that is written anew.
LEMMA PutShape ==
  ASSUME NEW blockAt \in BlockFiles, NEW at \in Nat, NEW to \in Block \cup {NoBlock, TornBlock}
  PROVE  LET then == [blockAt EXCEPT ![at] = to] IN
         /\ then \in BlockFiles
         /\ \A h \in Heights : then[h] = IF h = at THEN to ELSE blockAt[h]
  BY DEF BlockFiles

LEMMA WritePlaced ==
  ASSUME StorageInv, DoWrite
  PROVE  Placed'
<1> DEFINE w == Head(writes)
           k == Kind(Head(writes))
<1>1. /\ w \in Queue /\ Target.path \in Paths /\ Target.coins \in Seq(Block) /\ writes # << >>
      /\ k \in Pending
  BY WriteBasics
<1>2. /\ disk.blocks \in BlockFiles /\ WellPlaced(disk.blocks) /\ 0 \in Heights
      /\ "block" \notin lapses => CanRead(disk.blocks, 0)
  BY HeightsShape DEF StorageInv, StorageTyped, Placed
<1>3. CASE k \in {"block", "removal"}
  <2>1. /\ w.file = "block" /\ disk'.blocks = [disk.blocks EXCEPT ![w.at] = w.to]
        /\ lapses' = lapses
    BY <1>3, WriteEffects, WriteLapses
  <2>2. /\ w.at \in Nat /\ w.to \in Block \cup {NoBlock} /\ (w.to \in Block => Height[w.to] = w.at)
        /\ k = "removal" <=> w.to = NoBlock
    BY <1>1, <2>1, BlockWriteFacts
  <2>3. \A h \in Heights : disk'.blocks[h] = IF h = w.at THEN w.to ELSE disk.blocks[h]
    BY <1>2, <2>1, <2>2, PutShape
  <2>4. w.to = NoBlock => w.at # 0
    <3>1. Len(Target.path) \in Nat \ {0}
      BY <1>1, PathFacts
    <3>2. k = "removal" => w.at >= Len(Target.path)
      BY <1>1 DEF StorageInv, Aimed
    <3> QED
      BY <2>2, <3>1, <3>2
  <2>5. \A h \in Heights : disk'.blocks[h] \in Block => Height[disk'.blocks[h]] = h
    BY <1>2, <2>2, <2>3 DEF WellPlaced
  <2>6. CanRead(disk.blocks, 0) => CanRead(disk'.blocks, 0)
    BY <1>2, <2>2, <2>3, <2>4, BlockAssumption, StorageAssumption DEF CanRead
  <2> QED
    BY <1>2, <2>1, <2>5, <2>6 DEF Placed, WellPlaced
<1>4. CASE k = "maps"
  <2>1. disk'.blocks = disk.blocks
    BY <1>4, WriteEffects
  <2>2. CASE \A h \in 0..(Len(Target.path) - 1) : disk.blocks[h] = Target.coins[h + 1]
    <3>1. Len(Target.coins) = Len(Target.path)
      BY <1>1, <1>4, PhaseOfWrite
    <3>2. Len(Target.path) \in Nat \ {0}
      BY <1>1, PathFacts
    <3>3. 0 \in 0..(Len(Target.path) - 1) /\ 1 \in 1..Len(Target.coins)
      BY <3>1, <3>2
    <3>4. disk.blocks[0] = Target.coins[1] /\ Target.coins[1] \in Block
      BY <1>1, <2>2, <3>3
    <3>5. CanRead(disk.blocks, 0)
      BY <3>4, BlockAssumption, StorageAssumption DEF CanRead
    <3> QED
      BY <1>2, <2>1, <3>5 DEF Placed
  <2>3. CASE ~(\A h \in 0..(Len(Target.path) - 1) : disk.blocks[h] = Target.coins[h + 1])
    <3>1. lapses' = lapses
      BY <1>4, <2>3, WriteLapses
    <3> QED
      BY <1>2, <2>1, <3>1 DEF Placed
  <2> QED
    BY <2>2, <2>3
<1>5. CASE k \notin {"block", "removal", "maps"}
  <2>1. disk'.blocks = disk.blocks
    BY <1>5, WriteEffects
  <2>2. "block" \in lapses => "block" \in lapses'
    BY <1>5, WriteEffects, WriteLapses DEF SnapshotMends
  <2> QED
    BY <1>2, <2>1, <2>2 DEF Placed
<1> QED
  BY <1>3, <1>4, <1>5

LEMMA WritePlanned ==
  ASSUME StorageInv, DoWrite
  PROVE  Planned'
<1> DEFINE k == Kind(Head(writes))
<1>1. /\ InOrder(writes') /\ Alive' /\ Alive /\ phase' = phase
      /\ Pending = {k} \cup Pending' /\ Pending' \subseteq MayFollow(k)
      /\ Target.path \in Paths /\ node.path \in Paths
  BY WriteBasics
<1>2. node'.path \in Paths
  BY <1>1, WriteEffects
<1>3. k \in {"block", "removal", "maps", "checkpoint", "index", "headers", "chainstate"}
  BY WriteEffects
<1>4. /\ phase = "loaded" => Pending \subseteq {"block", "index", "headers"}
      /\ phase = "replayed" => Pending \subseteq {"chainstate"}
      /\ phase \in {"repaired", "running"} =>
           /\ Pending # {} => "chainstate" \in Pending
           /\ "block" \in Pending => "maps" \in Pending
      /\ "index" \in Pending => "headers" \in Pending
      /\ Pending \cap {"block", "maps", "removal", "checkpoint"} # {} => "index" \in Pending
  BY DEF StorageInv, Planned
<1> HIDE DEF k
<1>5. /\ phase' = "loaded" => Pending' \subseteq {"block", "index", "headers"}
      /\ phase' = "replayed" => Pending' \subseteq {"chainstate"}
  BY <1>1, <1>4
<1>6. phase' \in {"repaired", "running"} =>
        /\ Pending' # {} => "chainstate" \in Pending'
        /\ "block" \in Pending' => "maps" \in Pending'
  BY <1>1, <1>3, <1>4 DEF MayFollow
<1>7. /\ "index" \in Pending' => "headers" \in Pending'
      /\ Pending' \cap {"block", "maps", "removal", "checkpoint"} # {} => "index" \in Pending'
  BY <1>1, <1>3, <1>4 DEF MayFollow
<1> QED
  BY <1>1, <1>2, <1>5, <1>6, <1>7 DEF Planned

\* What a write does at one height.
LEMMA WriteAtHeight ==
  ASSUME StorageInv, DoWrite, NEW h \in Heights
  PROVE  LET w == Head(writes) IN
         disk'.blocks[h] = IF w.file = "block" /\ w.at = h THEN w.to ELSE disk.blocks[h]
<1> DEFINE w == Head(writes)
<1>1. disk.blocks \in BlockFiles /\ w \in Queue
  BY WriteBasics DEF StorageInv, StorageTyped
<1>2. CASE w.file = "block"
  <2>1. Kind(w) \in {"block", "removal"}
    BY WriteBasics, WriteFacts, <1>2
  <2>2. disk'.blocks = [disk.blocks EXCEPT ![w.at] = w.to]
    BY <2>1, WriteEffects
  <2>3. w.at \in Nat /\ w.to \in Block \cup {NoBlock}
    BY <1>1, <1>2, BlockWriteFacts
  <2> HIDE DEF w
  <2>4. disk'.blocks[h] = IF h = w.at THEN w.to ELSE disk.blocks[h]
    BY <1>1, <2>2, <2>3, PutShape
  <2> QED
    BY <1>2, <2>4 DEF w
<1>3. CASE w.file # "block"
  <2>1. disk'.blocks = disk.blocks
    BY <1>3, WriteEffects
  <2> QED
    BY <1>3, <2>1
<1> QED
  BY <1>2, <1>3

LEMMA WriteAimed ==
  ASSUME StorageInv, DoWrite
  PROVE  Aimed'
<1> DEFINE w == Head(writes)
           k == Kind(Head(writes))
<1>1. /\ Queue = {w} \cup Queue' /\ Target' = Target /\ phase' = phase /\ writes # << >>
      /\ Pending = {k} \cup Pending' /\ Pending' \subseteq MayFollow(k) /\ writes' = Tail(writes)
  BY WriteBasics
<1>2. \A v \in Queue' : Kind(v) = "removal" => v.at >= Len(Target.path)
  BY <1>1 DEF StorageInv, Aimed
<1>3. \A v \in Queue' : Kind(v) = "block" /\ phase # "loaded" =>
        v.at < Len(Target.path) /\ v.to = Target.coins[v.at + 1]
  BY <1>1 DEF StorageInv, Aimed
<1>4. ~(phase = "loaded" /\ "block" \in Pending')
  <2> SUFFICES ASSUME phase = "loaded", "block" \in Pending' PROVE FALSE
    OBVIOUS
  <2>1. writes = <<BlockWrite(0, Genesis), Write("index"), Write("headers")>>
    BY <1>1 DEF StorageInv, Aimed
  <2>2. writes' = <<Write("index"), Write("headers")>>
    BY <1>1, <2>1
  <2>3. PICK v \in ToSet(writes') : Kind(v) = "block"
    BY DEF Pending, Kinds
  <2>4. v = Write("index") \/ v = Write("headers")
    <3>1. DOMAIN <<Write("index"), Write("headers")>> = 1..2
      OBVIOUS
    <3>2. PICK i \in 1..2 : v = <<Write("index"), Write("headers")>>[i]
      BY <2>2, <2>3, <3>1 DEF ToSet
    <3>3. i = 1 \/ i = 2
      OBVIOUS
    <3> QED
      BY <3>2, <3>3
  <2> QED
    BY <2>3, <2>4 DEF Write, Kind
<1>5. phase \in {"repaired", "running"} =>
        /\ Len(Target.coins) = Len(Target.path)
        /\ \A i \in 1..Len(Target.coins) : Height[Target.coins[i]] = i - 1
  BY <1>1 DEF StorageInv, Aimed
<1>6. phase = "running" => Target.coins = Target.path
  BY <1>1 DEF StorageInv, Aimed
<1>7. phase = "loaded" => CanRead(disk'.blocks, 0)
  <2> SUFFICES ASSUME phase = "loaded" PROVE CanRead(disk'.blocks, 0)
    OBVIOUS
  <2>1. CASE k = "block"
    <3>1. writes = <<BlockWrite(0, Genesis), Write("index"), Write("headers")>>
      BY <1>1, <2>1 DEF StorageInv, Aimed
    <3>2. w = BlockWrite(0, Genesis)
      BY <3>1
    <3>3. w.file = "block" /\ w.at = 0 /\ w.to = Genesis
      BY <3>2 DEF BlockWrite
    <3>4. disk'.blocks[0] = Genesis
      BY <3>3, HeightsShape, WriteAtHeight
    <3> QED
      BY <3>4, BlockAssumption, StorageAssumption DEF CanRead
  <2>2. CASE k # "block"
    <3>1. k \in {"index", "headers"}
      BY <1>1, <2>2 DEF StorageInv, Planned
    <3>2. disk'.blocks = disk.blocks
      BY <3>1, WriteEffects
    <3>3. "block" \notin Pending
      BY <1>1, <3>1 DEF MayFollow
    <3>4. CanRead(disk.blocks, 0)
      BY <1>1, <3>3 DEF StorageInv, Aimed
    <3> QED
      BY <3>2, <3>4
  <2> QED
    BY <2>1, <2>2
<1> QED
  BY <1>1, <1>2, <1>3, <1>4, <1>5, <1>6, <1>7 DEF Aimed

\* A write mends no lapse but its own, unless nothing else is amiss.
LEMMA FailedKept ==
  ASSUME StorageInv, DoWrite, NEW f \in {"index", "headers", "chainstate", "block"},
         Kind(Head(writes)) # f,
         f = "block" => Kind(Head(writes)) # "maps"
  PROVE  /\ Failed(f) => Failed(f)'
         /\ Lapsed(f) => Lapsed(f)'
<1> DEFINE k == Kind(Head(writes))
<1>1. /\ phase' = phase /\ onto' = onto /\ writes # << >>
      /\ k \in {"block", "removal", "maps", "checkpoint", "index", "headers", "chainstate"}
  BY WriteBasics, WriteEffects
<1>2. Reorganizing' => Reorganizing
  BY <1>1 DEF Reorganizing
<1>3. f \in lapses => f \in lapses'
  BY <1>1, WriteLapses DEF SnapshotMends
<1>4. f \in lapses /\ "reorg" \in lapses => "reorg" \in lapses'
  BY <1>1, WriteLapses DEF SnapshotMends
<1> QED
  BY <1>1, <1>2, <1>3, <1>4 DEF Failed, Lapsed

LEMMA WriteRecorded ==
  ASSUME StorageInv, DoWrite
  PROVE  Recorded'
<1> DEFINE k == Kind(Head(writes))
<1>1. /\ Target' = Target /\ phase' = phase /\ writes # << >> /\ Alive /\ Alive'
      /\ Pending = {k} \cup Pending' /\ Pending' \subseteq MayFollow(k)
      /\ k \in {"block", "removal", "maps", "checkpoint", "index", "headers", "chainstate"}
      /\ node.path \in Paths /\ Target.path \in Paths /\ writes \in Seq(WriteType)
  BY WriteBasics, WriteEffects DEF StorageInv, StorageTyped
<1>2. /\ phase \in {"repaired", "running"} => "chainstate" \in Pending
      /\ "index" \in Pending => "headers" \in Pending
      /\ Pending \cap {"block", "maps", "removal", "checkpoint"} # {} => "index" \in Pending
      /\ "maps" \in Pending => phase \in {"repaired", "running"}
  <2>1. phase \in {"repaired", "running"} => "chainstate" \in Pending
    BY <1>1, PhaseOfWrite
  <2>2. "maps" \in Pending => phase \in {"repaired", "running"}
    BY <1>1, PhaseOfWrite
  <2> QED
    BY <2>1, <2>2 DEF StorageInv, Planned
<1>3. "maps" \in Pending' => k = "block"
  BY <1>1 DEF MayFollow
<1>4. "maps" \in Pending' => "maps" \in Pending
  BY <1>1
<1>5. "index" \notin Pending' => IndexAsMemory' \/ Failed("index")'
  <2>1. CASE k = "index"
    BY <2>1, WriteEffects DEF IndexAsMemory
  <2>2. CASE k = "maps"
    BY <1>1, <1>2, <2>2
  <2>3. CASE k \notin {"index", "maps"}
    <3>1. disk'.index = disk.index /\ node'.path = node.path
      BY <2>3, WriteEffects
    <3>2. Failed("index") => Failed("index")'
      BY <2>3, FailedKept
    <3>3. "index" \notin Pending' => IndexAsMemory \/ Failed("index")
      BY <1>1, <2>3 DEF StorageInv, Recorded
    <3> QED
      BY <3>1, <3>2, <3>3 DEF IndexAsMemory
  <2> QED
    BY <2>1, <2>2, <2>3
<1>6. "headers" \notin Pending' => HeadersAsMemory' \/ Failed("headers")'
  <2>1. CASE k = "headers"
    <3>1. "maps" \notin Pending
      BY <1>1, <2>1 DEF MayFollow
    <3>2. BlocksOf(node.path) \subseteq node.known
      <4>1. Target.path = node.path
        BY <1>1, <3>1, TargetOfRest DEF Target, Pending
      <4> QED
        BY <1>1, <4>1 DEF StorageInv, Recorded
    <3>3. disk'.headers = [state |-> "whole", of |-> node.known] /\ node'.path = node.path
      BY <2>1, WriteEffects
    <3> QED
      BY <3>2, <3>3 DEF HeadersAsMemory
  <2>2. CASE k = "maps"
    BY <1>1, <1>2, <2>2
  <2>3. CASE k \notin {"headers", "maps"}
    <3>1. disk'.headers = disk.headers /\ node'.path = node.path
      BY <2>3, WriteEffects
    <3>2. Failed("headers") => Failed("headers")'
      BY <2>3, FailedKept
    <3>3. "headers" \notin Pending' => HeadersAsMemory \/ Failed("headers")
      BY <1>1, <2>3 DEF StorageInv, Recorded
    <3> QED
      BY <3>1, <3>2, <3>3 DEF HeadersAsMemory
  <2> QED
    BY <2>1, <2>2, <2>3
<1>7. phase \in {"replayed", "repaired", "running"} /\ "chainstate" \notin Pending' =>
        SnapshotAsMemory' \/ Failed("chainstate")'
  <2>1. CASE k = "chainstate"
    BY <2>1, WriteEffects DEF SnapshotAsMemory
  <2>2. CASE k = "maps"
    BY <1>1, <1>2, <2>2
  <2>3. CASE k \notin {"chainstate", "maps"}
    <3>1. disk'.chainstate = disk.chainstate /\ node'.path = node.path /\ node'.coins = node.coins
      BY <2>3, WriteEffects
    <3>2. Failed("chainstate") => Failed("chainstate")'
      BY <2>3, FailedKept
    <3>3. phase \in {"replayed", "repaired", "running"} /\ "chainstate" \notin Pending' =>
            SnapshotAsMemory \/ Failed("chainstate")
      BY <1>1, <2>3 DEF StorageInv, Recorded
    <3> QED
      BY <3>1, <3>2, <3>3 DEF SnapshotAsMemory
  <2> QED
    BY <2>1, <2>2, <2>3
<1>8. "maps" \in Pending' =>
        /\ IndexAsMemory' \/ Lapsed("index")'
        /\ HeadersAsMemory' \/ Lapsed("headers")'
        /\ phase \in {"replayed", "repaired", "running"} => SnapshotAsMemory' \/ Lapsed("chainstate")'
  <2> SUFFICES ASSUME "maps" \in Pending'
               PROVE  /\ IndexAsMemory' \/ Lapsed("index")'
                      /\ HeadersAsMemory' \/ Lapsed("headers")'
                      /\ phase \in {"replayed", "repaired", "running"} =>
                           SnapshotAsMemory' \/ Lapsed("chainstate")'
    OBVIOUS
  <2>1. k = "block"
    BY <1>3
  <2>2. /\ disk'.index = disk.index /\ disk'.headers = disk.headers
        /\ disk'.chainstate = disk.chainstate
        /\ node'.path = node.path /\ node'.coins = node.coins
    BY <2>1, WriteEffects
  <2>3. /\ Lapsed("index") => Lapsed("index")'
        /\ Lapsed("headers") => Lapsed("headers")'
        /\ Lapsed("chainstate") => Lapsed("chainstate")'
    BY <2>1, FailedKept
  <2>4. /\ IndexAsMemory \/ Lapsed("index")
        /\ HeadersAsMemory \/ Lapsed("headers")
        /\ phase \in {"replayed", "repaired", "running"} => SnapshotAsMemory \/ Lapsed("chainstate")
    BY <1>1, <1>4 DEF StorageInv, Recorded
  <2> QED
    BY <2>2, <2>3, <2>4 DEF IndexAsMemory, HeadersAsMemory, SnapshotAsMemory
<1>9. disk'.index = NoPath => "index" \in lapses'
  <2>1. CASE k = "index"
    <3>1. node.path # NoPath
      BY <1>1, PathFacts
    <3> QED
      BY <2>1, <3>1, WriteEffects
  <2>2. CASE k # "index"
    <3>1. disk'.index = disk.index
      BY <2>2, WriteEffects
    <3>2. "index" \in lapses => "index" \in lapses'
      BY <1>1, <2>2, WriteLapses DEF SnapshotMends
    <3> QED
      BY <3>1, <3>2 DEF StorageInv, Recorded
  <2> QED
    BY <2>1, <2>2
<1>10. /\ BlocksOf(Target'.path) \subseteq node'.known
       /\ disk'.checkpoint \in {NoCheckpoint, node'.checkpoint}
  <2>1. /\ BlocksOf(Target.path) \subseteq node.known
        /\ disk.checkpoint \in {NoCheckpoint, node.checkpoint}
    BY <1>1 DEF StorageInv, Recorded
  <2> QED
    BY <1>1, <2>1, WriteEffects
<1>11. phase = "running" => /\ BlocksOf(node'.path) \subseteq node'.known
                            /\ MatchesCheckpoint(node'.path, node'.checkpoint)
                            /\ MatchesCheckpoint(Target'.path, node'.checkpoint)
  <2> SUFFICES ASSUME phase = "running"
               PROVE  /\ BlocksOf(node'.path) \subseteq node'.known
                      /\ MatchesCheckpoint(node'.path, node'.checkpoint)
                      /\ MatchesCheckpoint(Target'.path, node'.checkpoint)
    OBVIOUS
  <2>1. /\ BlocksOf(node.path) \subseteq node.known
        /\ BlocksOf(Target.path) \subseteq node.known
        /\ MatchesCheckpoint(node.path, node.checkpoint)
        /\ MatchesCheckpoint(Target.path, node.checkpoint)
    BY <1>1 DEF StorageInv, Recorded
  <2>2. CASE k = "checkpoint"
    <3>1. "maps" \notin Pending
      BY <1>1, <2>2 DEF MayFollow
    <3>2. Target.path = node.path
      BY <1>1, <3>1, TargetOfRest DEF Target, Pending
    <3>3. MatchesCheckpoint(node.path, TrailingCheckpoint(node.path))
      BY <1>1, PathCheckpoint
    <3>4. /\ node'.path = node.path /\ node'.known = node.known
          /\ node'.checkpoint = TrailingCheckpoint(node.path)
      BY <2>2, WriteEffects
    <3> QED
      BY <1>1, <2>1, <3>2, <3>3, <3>4
  <2>3. CASE k # "checkpoint"
    <3>1. /\ node'.path \in {node.path, Target.path} /\ node'.known = node.known
          /\ node'.checkpoint = node.checkpoint
      BY <2>3, WriteEffects
    <3> QED
      BY <1>1, <2>1, <3>1
  <2> QED
    BY <2>2, <2>3
<1> HIDE DEF k
<1> QED
  BY <1>1, <1>5, <1>6, <1>7, <1>8, <1>9, <1>10, <1>11 DEF Recorded

LEMMA WriteStored ==
  ASSUME StorageInv, DoWrite
  PROVE  Stored'
<1> DEFINE w == Head(writes)
           k == Kind(Head(writes))
           n == Len(Target.path)
<1>1. /\ Target' = Target /\ phase' = phase /\ writes # << >> /\ Queue = {w} \cup Queue' /\ w \in Queue
      /\ k \in {"block", "removal", "maps", "checkpoint", "index", "headers", "chainstate"}
      /\ Target.path \in Paths
  BY WriteBasics, WriteEffects
<1> SUFFICES ASSUME phase \in {"repaired", "running"}
             PROVE  /\ EndsAt(disk'.blocks, n) \/ BlockWrite(n, NoBlock) \in Queue'
                    /\ ~Failed("block")' =>
                         \A h \in 0..(n - 1) : \/ disk'.blocks[h] = Target.coins[h + 1]
                                               \/ phase = "running" /\ BlockWrite(h, Target.coins[h + 1]) \in Queue'
  BY <1>1 DEF Stored
<1>2. /\ EndsAt(disk.blocks, n) \/ BlockWrite(n, NoBlock) \in Queue
      /\ ~Failed("block") =>
           \A h \in 0..(n - 1) : \/ disk.blocks[h] = Target.coins[h + 1]
                                 \/ phase = "running" /\ BlockWrite(h, Target.coins[h + 1]) \in Queue
  BY <1>1 DEF StorageInv, Stored
<1>3. /\ w.file = "block" => /\ w.at \in Nat
                             /\ k = "block" => w.at < n /\ w.to = Target.coins[w.at + 1]
                             /\ k = "removal" => w.at >= n /\ w.to = NoBlock
                             /\ k \in {"block", "removal"}
      /\ w.file # "block" => k \notin {"block", "removal"}
  <2>1. w.file = "block" => w.at \in Nat /\ (k = "removal" => w.to = NoBlock)
    BY <1>1, BlockWriteFacts
  <2>2. (w.file = "block") <=> k \in {"block", "removal"}
    BY WriteBasics, WriteFacts
  <2>3. /\ k = "block" => w.at < n /\ w.to = Target.coins[w.at + 1]
        /\ k = "removal" => w.at >= n
    BY <1>1 DEF StorageInv, Aimed
  <2> QED
    BY <2>1, <2>2, <2>3
<1>4. n \in Nat \ {0} /\ \A h \in 0..(n - 1) : h \in Heights
  BY <1>1, PathFacts
<1> HIDE DEF w, k, n
<1>5. \A h \in Heights : disk'.blocks[h] = IF w.file = "block" /\ w.at = h THEN w.to ELSE disk.blocks[h]
  BY WriteAtHeight DEF w
<1>6. EndsAt(disk'.blocks, n) \/ BlockWrite(n, NoBlock) \in Queue'
  <2>1. CASE EndsAt(disk.blocks, n)
    <3>1. w.file = "block" /\ w.at = n => w.to = NoBlock
      BY <1>3, <1>4
    <3> QED
      BY <1>5, <2>1, <3>1 DEF EndsAt
  <2>2. CASE BlockWrite(n, NoBlock) \in Queue /\ BlockWrite(n, NoBlock) # w
    BY <1>1, <2>2
  <2>3. CASE BlockWrite(n, NoBlock) = w
    <3>1. w.file = "block" /\ w.at = n /\ w.to = NoBlock
      BY <2>3 DEF BlockWrite
    <3> QED
      BY <1>5, <3>1 DEF EndsAt
  <2> QED
    BY <1>2, <2>1, <2>2, <2>3
<1>7. ASSUME ~Failed("block")', NEW h \in 0..(n - 1)
      PROVE  \/ disk'.blocks[h] = Target.coins[h + 1]
             \/ phase = "running" /\ BlockWrite(h, Target.coins[h + 1]) \in Queue'
  <2>1. h \in Heights /\ h \in Nat /\ h < n
    BY <1>4
  <2>2. CASE k = "maps"
    <3>1. disk'.blocks = disk.blocks /\ w.file # "block"
      BY <1>3, <2>2, WriteEffects DEF k, w
    <3>2. CASE \A j \in 0..(Len(Target.path) - 1) : disk.blocks[j] = Target.coins[j + 1]
      BY <3>1, <3>2 DEF n
    <3>3. CASE ~(\A j \in 0..(Len(Target.path) - 1) : disk.blocks[j] = Target.coins[j + 1])
      <4>1. lapses' = lapses
        BY <2>2, <3>3, WriteLapses DEF k
      <4>2. Failed("block") => Failed("block")'
        BY <1>1, <4>1, WriteBasics DEF Failed, Lapsed, Reorganizing
      <4>3. \/ disk.blocks[h] = Target.coins[h + 1]
            \/ phase = "running" /\ BlockWrite(h, Target.coins[h + 1]) \in Queue
        BY <1>2, <1>7, <4>2
      <4>4. BlockWrite(h, Target.coins[h + 1]) # w
        BY <3>1 DEF BlockWrite
      <4> QED
        BY <1>1, <3>1, <4>3, <4>4
    <3> QED
      BY <3>2, <3>3
  <2>3. CASE k # "maps"
    <3>1. Failed("block") => Failed("block")'
      <4>1. CASE k = "block"
        <5>1. lapses' = lapses
          BY <4>1, WriteLapses DEF k
        <5> QED
          BY <1>1, <5>1, WriteBasics DEF Failed, Lapsed, Reorganizing
      <4>2. CASE k # "block"
        BY <2>3, <4>2, FailedKept DEF k
      <4> QED
        BY <4>1, <4>2
    <3>2. \/ disk.blocks[h] = Target.coins[h + 1]
          \/ phase = "running" /\ BlockWrite(h, Target.coins[h + 1]) \in Queue
      BY <1>2, <1>7, <3>1
    <3>3. CASE BlockWrite(h, Target.coins[h + 1]) = w
      <4>1. w.file = "block" /\ w.at = h /\ w.to = Target.coins[h + 1]
        BY <3>3 DEF BlockWrite
      <4> QED
        BY <1>5, <2>1, <4>1
    <3>4. CASE disk.blocks[h] = Target.coins[h + 1]
      <4>1. w.file = "block" /\ w.at = h => w.to = Target.coins[h + 1]
        BY <1>3, <1>4, <2>1
      <4> QED
        BY <1>5, <2>1, <3>4, <4>1
    <3> QED
      BY <1>1, <3>2, <3>3, <3>4
  <2> QED
    BY <2>2, <2>3
<1> QED
  BY <1>6, <1>7

-----------------------------------------------------------------------------
(* One write, while no reorg has been cut short                            *)

LEMMA PrefixOrder ==
  /\ \A p \in Seq(Block) : IsPrefix(p, p)
  /\ \A p, q, r \in Seq(Block) : IsPrefix(p, q) /\ IsPrefix(q, r) => IsPrefix(p, r)
<1>1. ASSUME NEW p \in Seq(Block) PROVE IsPrefix(p, p)
  BY PrefixIs
<1>2. ASSUME NEW p \in Seq(Block), NEW q \in Seq(Block), NEW r \in Seq(Block),
             IsPrefix(p, q), IsPrefix(q, r)
      PROVE  IsPrefix(p, r)
  <2>1. Len(p) \in Nat /\ Len(q) \in Nat /\ Len(r) \in Nat
    OBVIOUS
  <2>2. Len(p) <= Len(q) /\ \A i \in 1..Len(p) : p[i] = q[i]
    BY <1>2, PrefixIs
  <2>3. Len(q) <= Len(r) /\ \A i \in 1..Len(q) : q[i] = r[i]
    BY <1>2, PrefixIs
  <2>4. Len(p) <= Len(r) /\ \A i \in 1..Len(p) : p[i] = r[i]
    BY <2>1, <2>2, <2>3
  <2> QED
    BY <2>4, PrefixIs
<1> QED
  BY <1>1, <1>2

LEMMA PrefixBlocks ==
  ASSUME NEW p \in Seq(Block), NEW q \in Seq(Block), IsPrefix(p, q)
  PROVE  BlocksOf(p) \subseteq BlocksOf(q)
<1>1. Len(p) <= Len(q) /\ \A i \in 1..Len(p) : p[i] = q[i]
  BY PrefixIs
<1>2. Len(p) \in Nat /\ Len(q) \in Nat /\ DOMAIN p = 1..Len(p) /\ DOMAIN q = 1..Len(q)
  BY LenProperties
<1>3. \A i \in 1..Len(p) : i \in 1..Len(q)
  BY <1>1, <1>2
<1> QED
  BY <1>1, <1>2, <1>3 DEF BlocksOf

\* Types that the rest relies on.
LEMMA Typed ==
  ASSUME StorageInv
  PROVE  /\ node.coins \in Seq(Block) /\ node.path \in Seq(Block) /\ disk.index \in Seq(Block)
         /\ disk.index \in Paths \cup {NoPath} /\ disk.blocks \in BlockFiles
         /\ disk.chainstate.path \in Seq(Block) /\ disk.chainstate.coins \in Seq(Block)
         /\ disk.chainstate.path \in Paths \cup {NoPath}
         /\ disk.checkpoint \in Marks /\ node.checkpoint \in Marks
         /\ writes \in Seq(WriteType)
         /\ Len(NoPath) = 0
<1>1. NoPath \in Seq(Block) /\ Len(NoPath) = 0
  BY EmptySeq DEF NoPath
<1>2. \A p \in Paths : p \in Seq(Block)
  BY PathFacts
<1>3. /\ node.coins \in Seq(Block) /\ node.path \in Paths \cup {NoPath}
      /\ disk.index \in Paths \cup {NoPath} /\ disk.blocks \in BlockFiles
      /\ disk.chainstate.path \in Paths \cup {NoPath} /\ disk.chainstate.coins \in Seq(Block)
      /\ disk.checkpoint \in Marks /\ node.checkpoint \in Marks
      /\ writes \in Seq(WriteType)
  BY DEF StorageInv, StorageTyped
<1> QED
  BY <1>1, <1>2, <1>3

\* A pending write of a block is of the kind that waits for the maps.
LEMMA PendingBlock ==
  ASSUME StorageInv, NEW h, NEW b, BlockWrite(h, b) \in Queue
  PROVE  /\ b = NoBlock => "removal" \in Pending
         /\ b # NoBlock => "block" \in Pending
  BY DEF BlockWrite, Pending, Kinds, Kind, Queue

\* In memory the contents are the path's own blocks, once an activation runs.
LEMMA CoinsOfTarget ==
  ASSUME StorageInv, Calm, writes # << >>, phase \in {"repaired", "running"}
  PROVE  Target.coins = Target.path
<1>1. CASE phase = "running"
  BY <1>1 DEF StorageInv, Aimed
<1>2. CASE phase = "repaired"
  BY <1>2 DEF StorageInv, Straight, StraightMemory
<1> QED
  BY <1>1, <1>2

\* So are those of the chain, once the path is in memory.
LEMMA CoinsOfActivated ==
  ASSUME StorageInv, Calm, writes # << >>, phase \in {"repaired", "running"},
         "maps" \notin Pending
  PROVE  node.coins = node.path
<1>1. Target = [path |-> node.path, coins |-> node.coins]
  BY Typed, TargetOfRest DEF Target, Pending
<1> QED
  BY <1>1, CoinsOfTarget

\* A write other than that of the maps leaves the coins those of the path, or amiss.
LEMMA CoinsKept ==
  ASSUME StorageInv, DoWrite, Kind(Head(writes)) # "maps"
  PROVE  /\ node.coins # node.path /\ "unrepaired" \in lapses => "unrepaired" \in lapses'
         /\ CoinsOfPath => CoinsOfPath'
<1>1. node'.path = node.path /\ node'.coins = node.coins
      /\ Kind(Head(writes)) \in {"block", "removal", "maps", "checkpoint", "index", "headers", "chainstate"}
  BY WriteEffects
<1>2. node.coins # node.path /\ "unrepaired" \in lapses => "unrepaired" \in lapses'
  BY <1>1, WriteLapses DEF SnapshotMends
<1> QED
  BY <1>1, <1>2 DEF CoinsOfPath

\* The last write of an activation that went well leaves everything in place.
LEMMA WellDone ==
  ASSUME StorageInv, DoWrite, ~Calm, Calm'
  PROVE  Straight'
<1> DEFINE k == Kind(Head(writes))
<1>1. /\ phase' = phase /\ onto' = onto /\ writes # << >> /\ Target' = Target
      /\ Pending = {k} \cup Pending' /\ Pending' \subseteq MayFollow(k)
      /\ (writes' = << >>) <=> (Pending' = {})
      /\ k \in {"block", "removal", "maps", "checkpoint", "index", "headers", "chainstate"}
      /\ node.path \in Paths
  BY WriteBasics, WriteEffects
<1>2. /\ k = "chainstate" /\ Pending' = {} /\ phase = "running"
      /\ ~Failed("index") /\ ~Failed("headers") /\ ~Failed("block")
  <2>1. CASE "reorg" \in lapses
    <3>1. "reorg" \notin lapses'
      BY DEF Calm
    <3>2. k = "chainstate" /\ phase = "running" /\ lapses \ SnapshotMends = {"reorg"}
      BY <1>1, <2>1, <3>1, WriteLapses DEF SnapshotMends
    <3>3. Pending' = {}
      BY <1>1, <3>2 DEF MayFollow
    <3> QED
      BY <3>2, <3>3 DEF Failed, Lapsed, SnapshotMends
  <2>2. CASE "reorg" \notin lapses
    <3>1. Reorganizing /\ ~Reorganizing'
      BY <2>2 DEF Calm
    <3>2. phase = "running" /\ writes' = << >>
      BY <1>1, <3>1 DEF Reorganizing
    <3>3. "chainstate" \in Pending
      BY <1>1, <3>2, PhaseOfWrite
    <3> QED
      BY <1>1, <2>2, <3>1, <3>2, <3>3 DEF Failed
  <2> QED
    BY <2>1, <2>2
<1>3. Pending = {"chainstate"}
  BY <1>1, <1>2
<1>4. Target = [path |-> node.path, coins |-> node.coins] /\ node.coins = node.path
  <2>1. "maps" \notin Pending
    BY <1>3
  <2>2. Target = [path |-> node.path, coins |-> node.coins]
    BY <2>1, Typed, TargetOfRest DEF Target, Pending
  <2> QED
    BY <1>1, <1>2, <2>2 DEF StorageInv, Aimed
<1>5. /\ disk.index = node.path /\ disk.headers.state = "whole"
      /\ BlocksOf(node.path) \subseteq disk.headers.of
      /\ disk.checkpoint \in {NoCheckpoint, node.checkpoint}
      /\ MatchesCheckpoint(node.path, node.checkpoint)
  BY <1>2, <1>3 DEF StorageInv, Recorded, Alive, IndexAsMemory, HeadersAsMemory
<1>6. Holds(disk.blocks, node.path)
  <2> SUFFICES ASSUME NEW h \in 0..(Len(node.path) - 1) PROVE disk.blocks[h] = node.path[h + 1]
    BY DEF Holds
  <2>1. \/ disk.blocks[h] = node.path[h + 1]
        \/ BlockWrite(h, node.path[h + 1]) \in Queue
    BY <1>1, <1>2, <1>4 DEF StorageInv, Stored
  <2> QED
    BY <1>3, <2>1, PendingBlock
<1>7. /\ disk'.blocks = disk.blocks /\ disk'.index = disk.index /\ disk'.headers = disk.headers
      /\ disk'.chainstate = [path |-> node.path, coins |-> node.coins]
      /\ disk'.checkpoint = disk.checkpoint
      /\ node'.path = node.path /\ node'.coins = node.coins /\ node'.checkpoint = node.checkpoint
  BY <1>2, WriteEffects
<1>8. node.path \in Seq(Block) /\ Len(node.path) \in Nat /\ node.path # NoPath
  BY <1>1, PathFacts
<1>9. Fits(disk.blocks, node.path)
  BY <1>6 DEF Holds, Fits
<1>10. Respects(node.path, node.checkpoint)
  BY <1>5 DEF MatchesCheckpoint, Respects
<1>11. IsPrefix(node.path, node.path)
  BY <1>8, PrefixOrder
<1>12. StraightIndex'
  BY <1>1, <1>2, <1>5, <1>7, <1>9, <1>11 DEF StraightIndex
<1>13. StraightHeaders'
  BY <1>5, <1>7 DEF StraightHeaders
<1>14. StraightFiles'
  BY <1>1, <1>2, <1>5, <1>7, <1>8 DEF StraightFiles
<1>15. StraightCheckpoint'
  <2>1. Respects(disk.index, disk.checkpoint)
    BY <1>5, <1>10 DEF Respects
  <2>2. ASSUME disk.checkpoint # NoCheckpoint
        PROVE  disk.blocks[disk.checkpoint.height] = disk.checkpoint.hash
    <3>1. disk.checkpoint = node.checkpoint /\ disk.checkpoint.height \in Nat
      BY <1>5, <2>2, Typed, MarkFacts
    <3>2. disk.checkpoint.height \in 0..(Len(node.path) - 1)
          /\ node.path[disk.checkpoint.height + 1] = disk.checkpoint.hash
      BY <1>5, <1>8, <3>1 DEF MatchesCheckpoint
    <3> QED
      BY <1>6, <3>2 DEF Holds
  <2> QED
    BY <1>1, <1>4, <1>7, <1>10, <2>1, <2>2 DEF StraightCheckpoint
<1>16. StraightMemory'
  <2>1. \A h \in 0..(Len(node.path) - 1) : disk.blocks[h] \in {node.path[h + 1], TornBlock, NoBlock}
    BY <1>9 DEF Fits
  <2> QED
    BY <1>1, <1>2, <1>4, <1>6, <1>7, <1>9, <1>11, <2>1 DEF StraightMemory, CoinsOfPath
<1>17. StraightSnapshot'
  BY <1>4, <1>7 DEF StraightSnapshot, Mismatched
<1> QED
  BY <1>12, <1>13, <1>14, <1>15, <1>16, <1>17 DEF Straight

\* A block that is written is the one that every path at hand has there.
LEMMA BlockAgrees ==
  ASSUME StorageInv, DoWrite, Calm, Kind(Head(writes)) = "block"
  PROVE  LET w == Head(writes) IN
         /\ w.file = "block" /\ w.at \in Nat /\ w.to \in Block
         /\ w.at < Len(disk.index) => disk.index[w.at + 1] = w.to
         /\ w.at < Len(node.path) => node.path[w.at + 1] = w.to
         /\ w.at < Len(Target.path) => Target.path[w.at + 1] = w.to
         /\ disk.checkpoint # NoCheckpoint /\ disk.checkpoint.height = w.at =>
              disk.checkpoint.hash = w.to
<1> DEFINE w == Head(writes)
<1>1. /\ w \in Queue /\ w \in WriteType /\ Kind(w) = "block" /\ "block" \in Pending /\ writes # << >>
      /\ node.path \in Paths /\ Target.path \in Paths /\ Alive
  BY WriteBasics
<1>2. w.file = "block" /\ w.at \in Nat /\ w.to \in Block
  <2>1. w.file = "block"
    BY <1>1, WriteFacts
  <2> QED
    BY <1>1, <2>1, BlockWriteFacts
<1>3. /\ node.path \in Seq(Block) /\ Len(node.path) \in Nat
      /\ Target.path \in Seq(Block) /\ Len(Target.path) \in Nat
      /\ disk.index \in Seq(Block) /\ Len(disk.index) \in Nat
  BY <1>1, Typed, PathFacts
<1>4. CASE phase = "loaded"
  <2>1. /\ writes = <<BlockWrite(0, Genesis), Write("index"), Write("headers")>>
        /\ node.path = <<Genesis>>
    BY <1>1, <1>4 DEF StorageInv, Aimed
  <2>2. w = BlockWrite(0, Genesis)
    BY <2>1
  <2>3. w.at = 0 /\ w.to = Genesis
    BY <2>2 DEF BlockWrite
  <2>4. "maps" \notin Pending
    BY <1>4 DEF StorageInv, Planned
  <2>5. Target.path = node.path
    BY <2>4, Typed, TargetOfRest DEF Target, Pending
  <2>6. 0 < Len(disk.index) => disk.index[1] = Genesis
    <3>1. disk.index \in Paths \cup {NoPath} /\ Len(NoPath) = 0
      BY Typed
    <3>2. disk.index \in Paths => disk.index[1] = Genesis
      BY PathFacts
    <3> QED
      BY <3>1, <3>2
  <2>7. disk.checkpoint # NoCheckpoint /\ disk.checkpoint.height = 0 => disk.checkpoint.hash = Genesis
    BY Typed, MarkFacts
  <2> QED
    BY <1>2, <2>1, <2>3, <2>5, <2>6, <2>7
<1>5. CASE phase # "loaded"
  <2>1. phase \in {"repaired", "running"} /\ "maps" \in Pending /\ "index" \in Pending
    <3>1. phase \in {"repaired", "running"}
      BY <1>1, <1>5, PhaseOfWrite
    <3> QED
      BY <1>1, <3>1 DEF StorageInv, Planned
  <2>2. w.at < Len(Target.path) /\ w.to = Target.coins[w.at + 1] /\ Target.coins = Target.path
    <3>1. Target.coins = Target.path
      BY <1>1, <2>1, CoinsOfTarget
    <3> QED
      BY <1>1, <1>5, <3>1 DEF StorageInv, Aimed
  <2>3. w.at + 1 \in 1..Len(Target.path)
    BY <1>2, <1>3, <2>2
  <2>4. CASE phase = "running"
    <3>1. IsPrefix(disk.index, node.path) /\ IsPrefix(node.path, Target.path)
      BY <2>4 DEF StorageInv, Straight, StraightIndex, StraightMemory
    <3>2. IsPrefix(disk.index, Target.path)
      BY <1>3, <3>1, PrefixOrder
    <3>3. w.at < Len(disk.index) => disk.index[w.at + 1] = w.to
      <4>1. \A i \in 1..Len(disk.index) : disk.index[i] = Target.path[i]
        BY <1>3, <3>2, PrefixIs
      <4> QED
        BY <1>2, <1>3, <2>2, <4>1
    <3>4. w.at < Len(node.path) => node.path[w.at + 1] = w.to
      <4>1. \A i \in 1..Len(node.path) : node.path[i] = Target.path[i]
        BY <1>3, <3>1, PrefixIs
      <4> QED
        BY <1>2, <1>3, <2>2, <4>1
    <3>5. disk.checkpoint # NoCheckpoint /\ disk.checkpoint.height = w.at => disk.checkpoint.hash = w.to
      <4>1. disk.checkpoint \in {NoCheckpoint, node.checkpoint} /\ MatchesCheckpoint(Target.path, node.checkpoint)
        BY <1>1, <2>4 DEF StorageInv, Recorded
      <4> QED
        BY <2>2, <4>1 DEF MatchesCheckpoint
    <3> QED
      BY <1>2, <2>2, <3>3, <3>4, <3>5
  <2>5. CASE phase = "repaired"
    <3>1. IsPrefix(Target.path, node.path) /\ IsPrefix(node.path, disk.index)
      BY <2>1, <2>5 DEF StorageInv, Straight, StraightIndex, StraightMemory
    <3>2. IsPrefix(Target.path, disk.index)
      BY <1>3, <3>1, PrefixOrder
    <3>3. disk.index[w.at + 1] = w.to
      BY <1>3, <2>2, <2>3, <3>2, PrefixIs
    <3>4. node.path[w.at + 1] = w.to
      BY <1>3, <2>2, <2>3, <3>1, PrefixIs
    <3>5. disk.checkpoint # NoCheckpoint /\ disk.checkpoint.height = w.at => disk.checkpoint.hash = w.to
      <4>1. disk.checkpoint \in {NoCheckpoint, node.checkpoint} /\ Respects(Target.path, node.checkpoint)
        BY <1>1 DEF StorageInv, Recorded, Straight, StraightCheckpoint
      <4> QED
        BY <2>2, <4>1 DEF Respects
    <3> QED
      BY <1>2, <2>2, <3>3, <3>4, <3>5
  <2> QED
    BY <2>1, <2>4, <2>5
<1> QED
  BY <1>4, <1>5

\* A path that the height files agree with before a write, they agree with after.
LEMMA StillFits ==
  ASSUME StorageInv, DoWrite, NEW p \in Paths \cup {NoPath}, Fits(disk.blocks, p),
         Kind(Head(writes)) = "block" =>
           (Head(writes).at < Len(p) => p[Head(writes).at + 1] = Head(writes).to)
  PROVE  Fits(disk'.blocks, p)
<1> DEFINE w == Head(writes)
<1> SUFFICES ASSUME NEW h \in 0..(Len(p) - 1)
             PROVE  disk'.blocks[h] \in {p[h + 1], TornBlock, NoBlock}
  BY DEF Fits
<1>1. p \in Paths
  BY Typed
<1>2. h \in Heights /\ h < Len(p)
  BY <1>1, PathFacts
<1>3. disk'.blocks[h] = IF w.file = "block" /\ w.at = h THEN w.to ELSE disk.blocks[h]
  BY <1>2, WriteAtHeight
<1>4. disk.blocks[h] \in {p[h + 1], TornBlock, NoBlock}
  BY DEF Fits
<1>5. w.file = "block" => w.to = NoBlock \/ Kind(w) = "block"
  BY WriteBasics, WriteFacts
<1> QED
  BY <1>2, <1>3, <1>4, <1>5

LEMMA WriteKeepsIndex ==
  ASSUME StorageInv, DoWrite, Calm
  PROVE  StraightIndex'
<1> DEFINE w == Head(writes)
           k == Kind(Head(writes))
<1>1. /\ phase' = phase /\ Pending = {k} \cup Pending' /\ Pending' \subseteq MayFollow(k)
      /\ k \in {"block", "removal", "maps", "checkpoint", "index", "headers", "chainstate"}
      /\ Target.path \in Seq(Block) /\ Alive
  BY WriteBasics, WriteEffects, PathFacts
<1>2. /\ node.path \in Seq(Block) /\ disk.index \in Seq(Block) /\ disk.index \in Paths \cup {NoPath}
  BY Typed
<1>3. StraightIndex /\ StraightMemory
  BY DEF StorageInv, Straight
<1>4. Fits(disk'.blocks, disk'.index)
  <2>1. CASE k = "index"
    <3>1. disk'.blocks = disk.blocks /\ disk'.index = node.path
      BY <2>1, WriteEffects
    <3> QED
      BY <1>1, <1>3, <3>1 DEF StraightMemory
  <2>2. CASE k # "index"
    <3>1. disk'.index = disk.index
      BY <2>2, WriteEffects
    <3>2. Fits(disk.blocks, disk.index)
      BY <1>3 DEF StraightIndex
    <3>3. k = "block" => (w.at < Len(disk.index) => disk.index[w.at + 1] = w.to)
      BY BlockAgrees
    <3> QED
      BY <1>2, <3>1, <3>2, <3>3, StillFits
  <2> QED
    BY <2>1, <2>2
<1>5. phase = "running" => IsPrefix(disk'.index, node'.path)
  <2> SUFFICES ASSUME phase = "running" PROVE IsPrefix(disk'.index, node'.path)
    OBVIOUS
  <2>1. IsPrefix(disk.index, node.path) /\ IsPrefix(node.path, Target.path)
    BY <1>3 DEF StraightIndex, StraightMemory
  <2>2. CASE k = "index"
    <3>1. disk'.index = node.path /\ node'.path = node.path
      BY <2>2, WriteEffects
    <3> QED
      BY <1>2, <3>1, PrefixOrder
  <2>3. CASE k = "maps"
    <3>1. disk'.index = disk.index /\ node'.path = Target.path
      BY <2>3, WriteEffects
    <3> QED
      BY <1>1, <1>2, <2>1, <3>1, PrefixOrder
  <2>4. CASE k \notin {"index", "maps"}
    <3>1. disk'.index = disk.index /\ node'.path = node.path
      BY <2>4, WriteEffects
    <3> QED
      BY <2>1, <3>1
  <2> QED
    BY <2>2, <2>3, <2>4
<1>6. phase = "repaired" /\ "index" \in Pending' => IsPrefix(node'.path, disk'.index) /\ ~Unread'
  <2> SUFFICES ASSUME phase = "repaired", "index" \in Pending'
               PROVE  IsPrefix(node'.path, disk'.index) /\ ~Unread'
    OBVIOUS
  <2>1. k \notin {"index", "headers", "chainstate"}
    BY <1>1 DEF MayFollow
  <2>2. IsPrefix(node.path, disk.index) /\ ~Unread /\ IsPrefix(Target.path, node.path)
    BY <1>1, <1>3 DEF StraightIndex, StraightMemory
  <2>3. disk'.index = disk.index /\ disk'.headers = disk.headers
        /\ node'.path \in {node.path, Target.path}
    BY <2>1, WriteEffects
  <2>4. IsPrefix(node'.path, disk.index)
    BY <1>1, <1>2, <2>2, <2>3, PrefixOrder
  <2> QED
    BY <2>2, <2>3, <2>4 DEF Unread
<1> HIDE DEF k, w
<1> QED
  BY <1>1, <1>4, <1>5, <1>6 DEF StraightIndex

LEMMA WriteKeepsHeaders ==
  ASSUME StorageInv, DoWrite, Calm
  PROVE  StraightHeaders'
<1> DEFINE k == Kind(Head(writes))
<1>1. /\ phase' = phase /\ Pending = {k} \cup Pending' /\ Pending' \subseteq MayFollow(k)
      /\ k \in {"block", "removal", "maps", "checkpoint", "index", "headers", "chainstate"}
      /\ Alive /\ node.path \in Paths
  BY WriteBasics, WriteEffects
<1>2. /\ node.path \in Seq(Block) /\ disk.index \in Seq(Block) /\ Target.path \in Seq(Block)
  BY Typed, WriteBasics, PathFacts
<1>3. StraightIndex /\ StraightHeaders
  BY DEF StorageInv, Straight
<1>4. CASE k = "headers"
  <2>1. "maps" \notin Pending /\ "index" \notin Pending
    BY <1>1, <1>4 DEF MayFollow
  <2>2. BlocksOf(node.path) \subseteq node.known
    <3>1. Target.path = node.path
      BY <1>1, <2>1, Typed, TargetOfRest DEF Target, Pending
    <3> QED
      BY <1>1, <3>1 DEF StorageInv, Recorded
  <2>3. disk'.headers = [state |-> "whole", of |-> node.known] /\ disk'.index = disk.index
    BY <1>4, WriteEffects
  <2>4. IndexAsMemory \/ Failed("index")
    BY <1>1, <2>1 DEF StorageInv, Recorded
  <2>5. BlocksOf(disk.index) \subseteq BlocksOf(node.path)
    <3>1. CASE IndexAsMemory
      BY <3>1 DEF IndexAsMemory
    <3>2. CASE Failed("index")
      <4>1. IsPrefix(disk.index, node.path)
        BY <1>3, <3>2 DEF Failed, Lapsed, StraightIndex
      <4> QED
        BY <1>2, <4>1, PrefixBlocks
    <3> QED
      BY <2>4, <3>1, <3>2
  <2> QED
    BY <2>2, <2>3, <2>5 DEF StraightHeaders
<1>5. CASE k = "index"
  <2>1. "headers" \in Pending /\ "index" \notin Pending'
    <3>1. "index" \in Pending
      BY <1>1, <1>5
    <3>2. "headers" \in Pending
      BY <3>1 DEF StorageInv, Planned
    <3> QED
      BY <1>1, <1>5, <3>2 DEF MayFollow
  <2> QED
    BY <1>1, <1>5, <2>1 DEF StraightHeaders
<1>6. CASE k \notin {"headers", "index"}
  <2>1. disk'.headers = disk.headers /\ disk'.index = disk.index
    BY <1>6, WriteEffects
  <2>2. "headers" \in lapses => "headers" \in lapses'
    <3>1. CASE k = "chainstate"
      <4>1. \/ lapses' = lapses \ SnapshotMends
            \/ lapses \ SnapshotMends = {"reorg"}
        BY <3>1, WriteLapses
      <4> QED
        BY <4>1 DEF SnapshotMends
    <3>2. CASE k # "chainstate"
      BY <1>1, <1>6, <3>2, WriteLapses
    <3> QED
      BY <3>1, <3>2
  <2> QED
    BY <1>1, <1>3, <1>6, <2>1, <2>2 DEF StraightHeaders
<1> QED
  BY <1>4, <1>5, <1>6

\* A lapse that no write mended was there before the write.
LEMMA BlockLapseKept ==
  ASSUME StorageInv, DoWrite, "block" \notin lapses', Kind(Head(writes)) # "maps"
  PROVE  "block" \notin lapses
<1> DEFINE k == Kind(Head(writes))
<1>1. k \in {"block", "removal", "checkpoint", "index", "headers", "chainstate"}
  BY WriteEffects
<1>2. CASE k = "chainstate"
  <2>1. lapses' = lapses \ SnapshotMends \/ lapses \ SnapshotMends = {"reorg"}
    BY <1>2, WriteLapses
  <2> QED
    BY <2>1 DEF SnapshotMends
<1>3. CASE k # "chainstate"
  BY <1>1, <1>3, WriteLapses
<1> QED
  BY <1>2, <1>3

LEMMA WriteKeepsFiles ==
  ASSUME StorageInv, DoWrite, Calm
  PROVE  StraightFiles'
<1> DEFINE k == Kind(Head(writes))
           n == Cardinality(Heights)
<1>1. /\ phase' = phase /\ Pending = {k} \cup Pending' /\ Pending' \subseteq MayFollow(k)
      /\ k \in {"block", "removal", "maps", "checkpoint", "index", "headers", "chainstate"}
      /\ node.path \in Paths /\ Target.path \in Paths /\ Target' = Target /\ writes # << >>
      /\ (writes' = << >>) <=> (Pending' = {})
  BY WriteBasics, WriteEffects
<1> SUFFICES ASSUME "block" \notin lapses', Pending' \cap {"block", "maps", "removal"} = {},
                    disk'.index = NoPath \/ (phase' = "loaded" /\ "index" \in Pending')
             PROVE  Linked(First(disk'.blocks, n))
  <2>1. FirstBlocks(n)' = First(disk'.blocks, n)
    BY DEF FirstBlocks, First, Readable, CanRead
  <2> QED
    BY <2>1 DEF StraightFiles, Linked
<1>2. CASE k = "index"
  <2>1. disk'.index = node.path /\ node.path # NoPath
    BY <1>1, <1>2, WriteEffects, PathFacts
  <2>2. "index" \notin Pending'
    BY <1>1, <1>2 DEF MayFollow
  <2> QED
    BY <2>1, <2>2
<1>3. CASE k \in {"checkpoint", "headers", "chainstate"}
  <2>1. disk'.blocks = disk.blocks /\ disk'.index = disk.index
    BY <1>3, WriteEffects
  <2>2. "block" \notin lapses
    BY <1>3, BlockLapseKept
  <2>3. Linked(FirstBlocks(n))
    BY <1>1, <1>3, <2>1, <2>2 DEF StorageInv, Straight, StraightFiles
  <2> QED
    BY <2>1, <2>3, ReadsFiles
<1>4. CASE k \in {"block", "removal", "maps"} /\ phase = "loaded"
  <2>1. k = "block"
    BY <1>1, <1>4 DEF StorageInv, Planned
  <2>2. ~CanRead(disk.blocks, 0)
    BY <1>1, <1>4, <2>1 DEF StorageInv, Aimed
  <2>3. "block" \notin lapses
    BY <2>1, BlockLapseKept
  <2> QED
    BY <2>2, <2>3 DEF StorageInv, Placed
<1>5. CASE k \in {"block", "removal", "maps"} /\ phase # "loaded"
  <2>1. phase \in {"repaired", "running"}
    BY <1>1, <1>5, PhaseOfWrite
  <2>2. "index" \in Pending' /\ writes' # << >>
    <3>1. "index" \in Pending
      BY <1>1, <1>5 DEF StorageInv, Planned
    <3> QED
      BY <1>1, <1>5, <3>1
  <2>3. Stored' /\ disk'.blocks \in BlockFiles /\ WellPlaced(disk'.blocks)
    BY WriteStored, WriteTyped, WritePlaced DEF StorageTyped, Placed
  <2>4. Target.coins = Target.path
    BY <1>1, <2>1, CoinsOfTarget
  <2>5. \A h, b : BlockWrite(h, b) \notin Queue'
    <3> SUFFICES ASSUME NEW h, NEW b, BlockWrite(h, b) \in Queue' PROVE FALSE
      OBVIOUS
    <3>1. Kind(BlockWrite(h, b)) \in Pending'
      BY DEF Pending, Kinds, Queue
    <3>2. Kind(BlockWrite(h, b)) \in {"block", "removal"}
      BY DEF Kind, BlockWrite
    <3> QED
      BY <3>1, <3>2
  <2>6. EndsAt(disk'.blocks, Len(Target.path))
    BY <1>1, <2>1, <2>2, <2>3, <2>5 DEF Stored
  <2>7. Holds(disk'.blocks, Target.path)
    <3>1. ~Failed("block")'
      BY DEF Failed, Lapsed
    <3> QED
      BY <1>1, <2>1, <2>2, <2>3, <2>4, <2>5, <3>1 DEF Stored, Holds
  <2> QED
    BY <1>1, <2>3, <2>6, <2>7, PathIsRead
<1> QED
  BY <1>1, <1>2, <1>3, <1>4, <1>5

LEMMA WriteKeepsCheckpoint ==
  ASSUME StorageInv, DoWrite, Calm
  PROVE  StraightCheckpoint'
<1> DEFINE w == Head(writes)
           k == Kind(Head(writes))
           cp == TrailingCheckpoint(node.path)
<1>1. /\ phase' = phase /\ Pending = {k} \cup Pending' /\ Pending' \subseteq MayFollow(k)
      /\ k \in {"block", "removal", "maps", "checkpoint", "index", "headers", "chainstate"}
      /\ node.path \in Paths /\ Target.path \in Paths /\ Target' = Target /\ Alive /\ writes # << >>
  BY WriteBasics, WriteEffects
<1>2. StraightIndex /\ StraightCheckpoint /\ StraightMemory
  BY DEF StorageInv, Straight
<1>3. /\ cp # NoCheckpoint /\ cp.height \in Nat /\ cp.height < Len(node.path)
      /\ node.path[cp.height + 1] = cp.hash /\ Respects(node.path, cp)
  BY <1>1, PathCheckpoint, MarkFacts DEF MatchesCheckpoint
<1>4. disk.checkpoint \in {NoCheckpoint, node.checkpoint}
  BY <1>1 DEF StorageInv, Recorded
<1>5. /\ node.path \in Seq(Block) /\ Len(node.path) \in Nat /\ disk.index \in Seq(Block)
      /\ Len(disk.index) \in Nat /\ disk.checkpoint \in Marks
  BY Typed, LenProperties
<1>6. Respects(disk'.index, disk'.checkpoint)
  <2>1. CASE k = "index"
    <3>1. disk'.index = node.path /\ disk'.checkpoint = disk.checkpoint
      BY <2>1, WriteEffects
    <3> QED
      BY <1>1, <1>2, <1>4, <3>1 DEF StraightCheckpoint, Respects
  <2>2. CASE k = "checkpoint"
    <3>1. disk'.index = disk.index /\ disk'.checkpoint = cp
      BY <2>2, WriteEffects
    <3>2. IsPrefix(disk.index, node.path) \/ IsPrefix(node.path, disk.index)
      <4>1. phase \in {"repaired", "running"}
        BY <1>1, <2>2, PhaseOfWrite
      <4>2. "index" \in Pending
        BY <1>1, <2>2 DEF StorageInv, Planned
      <4> QED
        BY <1>2, <4>1, <4>2 DEF StraightIndex
    <3>3. cp.height < Len(disk.index) => disk.index[cp.height + 1] = node.path[cp.height + 1]
      <4> HIDE DEF cp
      <4>1. CASE IsPrefix(disk.index, node.path)
        <5>1. \A i \in 1..Len(disk.index) : disk.index[i] = node.path[i]
          BY <1>5, <4>1, PrefixIs
        <5> QED
          BY <1>3, <1>5, <5>1
      <4>2. CASE IsPrefix(node.path, disk.index)
        <5>1. \A i \in 1..Len(node.path) : node.path[i] = disk.index[i]
          BY <1>5, <4>2, PrefixIs
        <5> QED
          BY <1>3, <1>5, <5>1
      <4> QED
        BY <3>2, <4>1, <4>2
    <3> QED
      BY <1>3, <3>1, <3>3 DEF Respects
  <2>3. CASE k \notin {"index", "checkpoint"}
    <3>1. disk'.index = disk.index /\ disk'.checkpoint = disk.checkpoint
      BY <2>3, WriteEffects
    <3> QED
      BY <1>2, <3>1 DEF StraightCheckpoint
  <2> QED
    BY <2>1, <2>2, <2>3
<1>7. disk'.checkpoint # NoCheckpoint =>
        disk'.blocks[disk'.checkpoint.height] \in {disk'.checkpoint.hash, TornBlock, NoBlock}
  <2>1. CASE k = "checkpoint"
    <3>1. disk'.blocks = disk.blocks /\ disk'.checkpoint = cp
      BY <2>1, WriteEffects
    <3>2. Fits(disk.blocks, node.path)
      BY <1>1, <1>2 DEF StraightMemory
    <3>3. cp.height \in 0..(Len(node.path) - 1)
      <4> HIDE DEF cp
      <4> QED
        BY <1>3, <1>5
    <3> QED
      BY <1>3, <3>1, <3>2, <3>3 DEF Fits
  <2>2. CASE k # "checkpoint"
    <3>1. disk'.checkpoint = disk.checkpoint
      BY <2>2, WriteEffects
    <3> SUFFICES ASSUME disk.checkpoint # NoCheckpoint
                 PROVE  disk'.blocks[disk.checkpoint.height] \in {disk.checkpoint.hash, TornBlock, NoBlock}
      BY <3>1
    <3>2. disk.checkpoint.height \in Heights
      BY <1>5, MarkFacts
    <3>3. disk'.blocks[disk.checkpoint.height] = IF w.file = "block" /\ w.at = disk.checkpoint.height
                                                 THEN w.to ELSE disk.blocks[disk.checkpoint.height]
      BY <3>2, WriteAtHeight
    <3>4. disk.blocks[disk.checkpoint.height] \in {disk.checkpoint.hash, TornBlock, NoBlock}
      BY <1>2 DEF StraightCheckpoint
    <3>5. k = "block" /\ disk.checkpoint.height = w.at => disk.checkpoint.hash = w.to
      BY BlockAgrees
    <3>6. w.file = "block" => w.to = NoBlock \/ k = "block"
      BY WriteBasics, WriteFacts
    <3> QED
      BY <3>3, <3>4, <3>5, <3>6
  <2> QED
    BY <2>1, <2>2
<1>8. Respects(node'.path, node'.checkpoint) /\ Respects(Target.path, node'.checkpoint)
  <2>1. CASE k = "checkpoint"
    <3>1. "maps" \notin Pending
      BY <1>1, <2>1 DEF MayFollow
    <3>2. Target.path = node.path
      BY <1>1, <3>1, Typed, TargetOfRest DEF Target, Pending
    <3>3. node'.path = node.path /\ node'.checkpoint = cp
      BY <2>1, WriteEffects
    <3> QED
      BY <1>3, <3>2, <3>3
  <2>2. CASE k # "checkpoint"
    <3>1. node'.path \in {node.path, Target.path} /\ node'.checkpoint = node.checkpoint
      BY <2>2, WriteEffects
    <3> QED
      BY <1>1, <1>2, <3>1 DEF StraightCheckpoint
  <2> QED
    BY <2>1, <2>2
<1> HIDE DEF k, w, cp
<1> QED
  BY <1>1, <1>6, <1>7, <1>8 DEF StraightCheckpoint

\* The repair writes what is there already, and removes what is above.
LEMMA RepairRewrites ==
  ASSUME StorageInv, DoWrite, phase = "repaired", NEW h \in Heights
  PROVE  /\ CanRead(disk'.blocks, h) => CanRead(disk.blocks, h)
         /\ h < Len(Target.path) => disk'.blocks[h] = disk.blocks[h]
<1> DEFINE w == Head(writes)
<1>1. /\ w \in Queue /\ w \in WriteType /\ writes # << >> /\ Target.path \in Paths
      /\ h \in Nat /\ Len(Target.path) \in Nat
  BY WriteBasics, HeightsShape, PathFacts
<1>2. disk'.blocks[h] = IF w.file = "block" /\ w.at = h THEN w.to ELSE disk.blocks[h]
  BY WriteAtHeight
<1>3. CASE w.file = "block" /\ w.at = h /\ Kind(w) = "removal"
  <2>1. w.to = NoBlock
    BY <1>1, <1>3, WriteFacts
  <2>2. ~CanRead(disk'.blocks, h)
    BY <1>2, <1>3, <2>1 DEF CanRead
  <2>3. h >= Len(Target.path)
    BY <1>1, <1>3 DEF StorageInv, Aimed
  <2> QED
    BY <1>1, <2>2, <2>3
<1>4. CASE w.file = "block" /\ w.at = h /\ Kind(w) # "removal"
  <2>1. Kind(w) = "block"
    BY <1>1, <1>4, WriteFacts
  <2>2. h < Len(Target.path) /\ w.to = Target.coins[h + 1]
    BY <1>1, <1>4, <2>1 DEF StorageInv, Aimed
  <2>3. ~Failed("block")
    BY DEF Failed, Lapsed
  <2>4. disk.blocks[h] = Target.coins[h + 1]
    <3>1. h \in 0..(Len(Target.path) - 1)
      BY <1>1, <2>2
    <3> QED
      BY <1>1, <2>3, <3>1 DEF StorageInv, Stored
  <2> QED
    BY <1>2, <1>4, <2>2, <2>4 DEF CanRead
<1>5. CASE ~(w.file = "block" /\ w.at = h)
  BY <1>2, <1>5 DEF CanRead
<1> QED
  BY <1>3, <1>4, <1>5

\* The very first block stays where it is.
LEMMA FirstBlockStays ==
  ASSUME StorageInv, DoWrite, phase = "repaired", CanRead(disk.blocks, 0)
  PROVE  CanRead(disk'.blocks, 0)
<1>1. 0 \in Heights
  BY HeightsShape
<1>2. 0 < Len(Target.path)
  BY WriteBasics, PathFacts
<1>3. disk'.blocks[0] = disk.blocks[0]
  BY <1>1, <1>2, RepairRewrites
<1> QED
  BY <1>3 DEF CanRead

LEMMA CompleteBefore ==
  ASSUME StorageInv, DoWrite, phase = "repaired", NEW p \in Paths \cup {NoPath},
         Complete(disk'.blocks, p)
  PROVE  Complete(disk.blocks, p)
<1> SUFFICES ASSUME NEW h \in 0..(Len(p) - 1) PROVE CanRead(disk.blocks, h)
  BY DEF Complete
<1>1. p \in Paths
  BY Typed
<1>2. h \in Heights
  BY <1>1, PathFacts
<1>3. CanRead(disk'.blocks, h)
  BY DEF Complete
<1> QED
  BY <1>2, <1>3, RepairRewrites

\* The running node and its height files, while an activation extends the chain.
LEMMA WriteKeepsRunning ==
  ASSUME StorageInv, DoWrite, Calm, phase = "running"
  PROVE  /\ IsPrefix(node'.path, Target.path) /\ CoinsOfPath'
         /\ "block" \notin lapses' => Holds(disk'.blocks, node'.path)
<1> DEFINE w == Head(writes)
           k == Kind(Head(writes))
<1>1. /\ Pending = {k} \cup Pending' /\ Pending' \subseteq MayFollow(k) /\ w \in Queue
      /\ k \in {"block", "removal", "maps", "checkpoint", "index", "headers", "chainstate"}
      /\ node.path \in Paths /\ Target.path \in Paths /\ writes # << >>
  BY WriteBasics, WriteEffects
<1>2. /\ node.path \in Seq(Block) /\ Target.path \in Seq(Block)
      /\ Len(node.path) \in Nat /\ Len(Target.path) \in Nat
  BY <1>1, PathFacts
<1>3. /\ IsPrefix(node.path, Target.path)
      /\ "block" \notin lapses => Holds(disk.blocks, node.path)
  BY DEF StorageInv, Straight, StraightMemory
<1>4. Target.coins = Target.path /\ CoinsOfPath
  BY <1>1 DEF StorageInv, Aimed, Straight, StraightMemory
<1>5. CASE k = "maps"
  <2>1. node'.path = Target.path /\ node'.coins = Target.path /\ disk'.blocks = disk.blocks
    BY <1>4, <1>5, WriteEffects
  <2>2. "block" \notin Pending
    BY <1>1, <1>5 DEF MayFollow
  <2>3. ASSUME "block" \notin lapses' PROVE Holds(disk.blocks, Target.path)
    <3>1. CASE \A h \in 0..(Len(Target.path) - 1) : disk.blocks[h] = Target.coins[h + 1]
      BY <1>4, <3>1 DEF Holds
    <3>2. CASE ~(\A h \in 0..(Len(Target.path) - 1) : disk.blocks[h] = Target.coins[h + 1])
      <4>1. "block" \notin lapses
        BY <1>5, <2>3, <3>2, WriteLapses
      <4>2. ~Failed("block")
        BY <4>1 DEF Failed, Lapsed
      <4> SUFFICES ASSUME NEW h \in 0..(Len(Target.path) - 1)
                   PROVE  disk.blocks[h] = Target.path[h + 1]
        BY DEF Holds
      <4>3. \/ disk.blocks[h] = Target.path[h + 1]
            \/ BlockWrite(h, Target.path[h + 1]) \in Queue
        BY <1>1, <1>4, <4>2 DEF StorageInv, Stored
      <4>4. Target.path[h + 1] \in Block
        <5>1. h + 1 \in 1..Len(Target.path)
          BY <1>2
        <5> QED
          BY <1>1, <5>1, PathFacts
      <4>5. Target.path[h + 1] # NoBlock
        BY <4>4, BlockAssumption
      <4> QED
        BY <2>2, <4>3, <4>5, PendingBlock
    <3> QED
      BY <3>1, <3>2
  <2> QED
    BY <1>2, <2>1, <2>3, PrefixOrder DEF CoinsOfPath
<1>6. CASE k # "maps"
  <2>1. node'.path = node.path /\ CoinsOfPath'
    BY <1>4, <1>6, WriteEffects, CoinsKept
  <2>2. ASSUME "block" \notin lapses' PROVE Holds(disk'.blocks, node.path)
    <3>1. Holds(disk.blocks, node.path)
      BY <1>3, <1>6, <2>2, BlockLapseKept
    <3> SUFFICES ASSUME NEW h \in 0..(Len(node.path) - 1) PROVE disk'.blocks[h] = node.path[h + 1]
      BY DEF Holds
    <3>2. h \in Heights /\ h \in Nat /\ h < Len(node.path)
      BY <1>1, <1>2, PathFacts
    <3>3. disk'.blocks[h] = IF w.file = "block" /\ w.at = h THEN w.to ELSE disk.blocks[h]
      BY <3>2, WriteAtHeight
    <3>4. k = "block" /\ w.at = h => w.to = node.path[h + 1]
      BY <3>2, BlockAgrees
    <3>5. ~(k = "removal" /\ w.at = h)
      <4>1. k = "removal" => w.at >= Len(Target.path)
        BY <1>1 DEF StorageInv, Aimed
      <4>2. Len(node.path) <= Len(Target.path)
        BY <1>2, <1>3, PrefixIs
      <4> QED
        BY <1>2, <3>2, <4>1, <4>2
    <3>6. w.file = "block" => k \in {"block", "removal"}
      BY WriteBasics, WriteFacts
    <3> QED
      BY <3>1, <3>3, <3>4, <3>5, <3>6 DEF Holds
  <2> QED
    BY <1>3, <1>4, <2>1, <2>2
<1> QED
  BY <1>5, <1>6

\* The constructor at the writes of its repair.
LEMMA WriteKeepsRepair ==
  ASSUME StorageInv, DoWrite, Calm, phase = "repaired"
  PROVE  /\ IsPrefix(Target.path, node'.path)
         /\ Target.coins = Target.path
         /\ CanRead(disk'.blocks, 0)
         /\ "maps" \notin Pending' => Complete(disk'.blocks, node'.path)
         /\ writes' = << >> => CoinsOfPath'
         /\ CoinsOfPath' \/ ~Complete(disk'.blocks, node'.path)
<1> DEFINE k == Kind(Head(writes))
<1>1. /\ Pending = {k} \cup Pending' /\ Pending' \subseteq MayFollow(k)
      /\ k \in {"block", "removal", "maps", "checkpoint", "index", "headers", "chainstate"}
      /\ node.path \in Paths /\ Target.path \in Paths /\ writes # << >>
  BY WriteBasics, WriteEffects
<1>2. /\ node.path \in Seq(Block) /\ Target.path \in Seq(Block)
      /\ Len(node.path) \in Nat /\ Len(Target.path) \in Nat
  BY <1>1, PathFacts
<1>3. /\ IsPrefix(Target.path, node.path) /\ CanRead(disk.blocks, 0)
      /\ "maps" \notin Pending => Complete(disk.blocks, node.path)
      /\ CoinsOfPath \/ ~Complete(disk.blocks, node.path)
  BY <1>1 DEF StorageInv, Straight, StraightMemory
<1>4. Target.coins = Target.path
  BY <1>1, CoinsOfTarget
<1>5. CanRead(disk'.blocks, 0)
  BY <1>3, FirstBlockStays
<1>6. CASE k = "maps"
  <2>1. node'.path = Target.path /\ node'.coins = Target.path /\ disk'.blocks = disk.blocks
    BY <1>4, <1>6, WriteEffects
  <2>2. Complete(disk.blocks, Target.path)
    <3> SUFFICES ASSUME NEW h \in 0..(Len(Target.path) - 1) PROVE CanRead(disk.blocks, h)
      BY DEF Complete
    <3>1. ~Failed("block")
      BY DEF Failed, Lapsed
    <3>2. disk.blocks[h] = Target.path[h + 1]
      BY <1>1, <1>4, <3>1 DEF StorageInv, Stored
    <3>3. h + 1 \in 1..Len(Target.path)
      BY <1>2
    <3>4. disk.blocks[h] \in Block
      BY <1>1, <3>2, <3>3, PathFacts
    <3> QED
      BY <3>4, BlockAssumption, StorageAssumption DEF CanRead
  <2>3. IsPrefix(Target.path, Target.path)
    BY <1>2, PrefixOrder
  <2> QED
    BY <1>4, <1>5, <2>1, <2>2, <2>3 DEF CoinsOfPath
<1>7. CASE k # "maps"
  <2>1. node'.path = node.path /\ (CoinsOfPath => CoinsOfPath')
    BY <1>7, WriteEffects, CoinsKept
  <2>2. ASSUME "maps" \notin Pending' PROVE Complete(disk'.blocks, node.path)
    <3>1. "maps" \notin Pending
      BY <1>1, <1>7, <2>2
    <3>2. Target.path = node.path
      BY <3>1, Typed, TargetOfRest DEF Target, Pending
    <3> SUFFICES ASSUME NEW h \in 0..(Len(node.path) - 1) PROVE CanRead(disk'.blocks, h)
      BY DEF Complete
    <3>3. h \in Heights /\ h < Len(node.path)
      BY <1>1, <1>2, PathFacts
    <3>4. disk'.blocks[h] = disk.blocks[h]
      BY <3>2, <3>3, RepairRewrites
    <3>5. CanRead(disk.blocks, h)
      BY <1>3, <3>1 DEF Complete
    <3> QED
      BY <3>4, <3>5 DEF CanRead
  <2>3. Complete(disk'.blocks, node.path) => Complete(disk.blocks, node.path)
    BY <1>1, CompleteBefore
  <2>4. writes' = << >> => CoinsOfPath
    <3>1. writes' = << >> => "maps" \notin Pending
      BY <1>1, <1>7, WriteBasics
    <3> QED
      BY <1>1, <3>1, CoinsOfActivated DEF CoinsOfPath
  <2> QED
    BY <1>3, <1>4, <1>5, <2>1, <2>2, <2>3, <2>4
<1> QED
  BY <1>6, <1>7

LEMMA WriteKeepsMemory ==
  ASSUME StorageInv, DoWrite, Calm
  PROVE  StraightMemory'
<1> DEFINE w == Head(writes)
           k == Kind(Head(writes))
<1>1. /\ phase' = phase /\ Pending = {k} \cup Pending' /\ Pending' \subseteq MayFollow(k)
      /\ Queue = {w} \cup Queue' /\ w \in WriteType
      /\ k \in {"block", "removal", "maps", "checkpoint", "index", "headers", "chainstate"}
      /\ node.path \in Paths /\ Target.path \in Paths /\ Target' = Target /\ Alive /\ writes # << >>
  BY WriteBasics, WriteEffects
<1>2. StraightMemory
  BY DEF StorageInv, Straight
<1>3. Fits(disk'.blocks, node'.path)
  <2>1. CASE k = "maps"
    <3>1. node'.path = Target.path /\ disk'.blocks = disk.blocks
      BY <2>1, WriteEffects
    <3> SUFFICES ASSUME NEW h \in 0..(Len(Target.path) - 1)
                 PROVE  disk.blocks[h] \in {Target.path[h + 1], TornBlock, NoBlock}
      BY <3>1 DEF Fits
    <3>2. \/ disk.blocks[h] \in {Target.path[h + 1], TornBlock, NoBlock}
          \/ BlockWrite(h, Target.path[h + 1]) \in Queue
      BY <1>1, <1>2 DEF StraightMemory
    <3>3. Target.path[h + 1] # NoBlock
      <4>1. h + 1 \in 1..Len(Target.path)
        BY <1>1, PathFacts
      <4>2. Target.path[h + 1] \in Block
        BY <1>1, <4>1, PathFacts
      <4> QED
        BY <4>2, BlockAssumption
    <3>4. "block" \notin Pending
      BY <1>1, <2>1 DEF MayFollow
    <3> QED
      BY <3>2, <3>3, <3>4, PendingBlock
  <2>2. CASE k # "maps"
    <3>1. node'.path = node.path
      BY <2>2, WriteEffects
    <3>2. Fits(disk.blocks, node.path)
      BY <1>1, <1>2 DEF StraightMemory
    <3>3. k = "block" => (w.at < Len(node.path) => node.path[w.at + 1] = w.to)
      BY BlockAgrees
    <3> QED
      BY <1>1, <3>1, <3>2, <3>3, StillFits
  <2> QED
    BY <2>1, <2>2
<1>4. ASSUME NEW h \in 0..(Len(Target.path) - 1)
      PROVE  \/ disk'.blocks[h] \in {Target.path[h + 1], TornBlock, NoBlock}
             \/ BlockWrite(h, Target.path[h + 1]) \in Queue'
  <2>1. h \in Heights /\ h < Len(Target.path)
    BY <1>1, PathFacts
  <2>2. disk'.blocks[h] = IF w.file = "block" /\ w.at = h THEN w.to ELSE disk.blocks[h]
    BY <2>1, WriteAtHeight
  <2>3. CASE disk.blocks[h] \in {Target.path[h + 1], TornBlock, NoBlock}
    <3>1. k = "block" /\ w.at = h => w.to = Target.path[h + 1]
      BY <2>1, BlockAgrees
    <3>2. w.file = "block" => w.to = NoBlock \/ k = "block"
      BY <1>1, WriteFacts
    <3> QED
      BY <2>2, <2>3, <3>1, <3>2
  <2>4. CASE w = BlockWrite(h, Target.path[h + 1])
    <3>1. w.file = "block" /\ w.at = h /\ w.to = Target.path[h + 1]
      BY <2>4 DEF BlockWrite
    <3> QED
      BY <2>2, <3>1
  <2>5. CASE BlockWrite(h, Target.path[h + 1]) \in Queue /\ w # BlockWrite(h, Target.path[h + 1])
    BY <1>1, <2>5
  <2> QED
    BY <1>1, <1>2, <2>3, <2>4, <2>5 DEF StraightMemory
<1>5. phase = "running" =>
        /\ IsPrefix(node'.path, Target.path) /\ CoinsOfPath'
        /\ "block" \notin lapses' => Holds(disk'.blocks, node'.path)
  BY WriteKeepsRunning
<1>6. phase = "repaired" =>
         /\ IsPrefix(Target.path, node'.path)
         /\ Target.coins = Target.path
         /\ CanRead(disk'.blocks, 0)
         /\ "maps" \notin Pending' => Complete(disk'.blocks, node'.path)
         /\ writes' = << >> => CoinsOfPath'
         /\ CoinsOfPath' \/ ~Complete(disk'.blocks, node'.path)
  BY WriteKeepsRepair
<1>7. phase = "replayed" => CoinsOfPath' \/ ~Complete(disk'.blocks, node'.path)
  <2> SUFFICES ASSUME phase = "replayed"
               PROVE  CoinsOfPath' \/ ~Complete(disk'.blocks, node'.path)
    OBVIOUS
  <2>1. k = "chainstate"
    BY <1>1 DEF StorageInv, Planned
  <2>2. node'.path = node.path /\ (CoinsOfPath => CoinsOfPath') /\ disk'.blocks = disk.blocks
    BY <2>1, WriteEffects, CoinsKept
  <2> QED
    BY <1>2, <2>2 DEF StraightMemory
<1> HIDE DEF k, w
<1> QED
  BY <1>1, <1>3, <1>4, <1>5, <1>6, <1>7 DEF StraightMemory

LEMMA WriteKeepsSnapshot ==
  ASSUME StorageInv, DoWrite, Calm
  PROVE  StraightSnapshot'
<1> DEFINE w == Head(writes)
           k == Kind(Head(writes))
<1>1. /\ phase' = phase /\ Pending = {k} \cup Pending' /\ Pending' \subseteq MayFollow(k)
      /\ k \in {"block", "removal", "maps", "checkpoint", "index", "headers", "chainstate"}
      /\ node.path \in Paths /\ Target.path \in Paths /\ Alive /\ writes # << >>
      /\ phase \in {"loaded", "replayed", "repaired", "running"}
  BY WriteBasics, WriteEffects, PhaseOfWrite
<1>2. StraightMemory /\ StraightSnapshot
  BY DEF StorageInv, Straight
<1>3. k # "maps" /\ node.coins # node.path /\ "unrepaired" \in lapses => "unrepaired" \in lapses'
  BY CoinsKept
<1>4. ~Unread => ~Unread'
  <2>1. /\ disk'.index \in {disk.index, node.path}
        /\ disk'.headers.state \in {disk.headers.state, "whole"}
    BY WriteEffects
  <2>2. node.path # NoPath
    BY <1>1, PathFacts
  <2> QED
    BY <2>1, <2>2 DEF Unread
<1>5. CASE k = "chainstate"
  <2> SUFFICES ASSUME node.path # node.coins, "unrepaired" \notin lapses
               PROVE  ~Complete(disk.blocks, node.path) /\ ~Unread /\ phase # "running"
    <3>1. disk'.chainstate = [path |-> node.path, coins |-> node.coins] /\ disk'.blocks = disk.blocks
      BY <1>5, WriteEffects
    <3> QED
      BY <1>1, <1>3, <1>4, <1>5, <3>1 DEF StraightSnapshot, Mismatched
  <2>1. phase = "replayed"
    <3>1. "maps" \notin Pending
      BY <1>1, <1>5 DEF MayFollow
    <3> QED
      BY <1>1, <1>5, <3>1, PhaseOfWrite, CoinsOfActivated
  <2>2. ~Complete(disk.blocks, node.path)
    BY <1>2, <2>1 DEF StraightMemory, CoinsOfPath
  <2>3. "index" \notin Pending /\ "headers" \notin Pending
    BY <2>1 DEF StorageInv, Planned
  <2>4. IndexAsMemory /\ HeadersAsMemory
    BY <1>1, <2>1, <2>3 DEF StorageInv, Recorded, Failed, Lapsed
  <2>5. node.path # NoPath
    BY <1>1, PathFacts
  <2> QED
    BY <2>1, <2>2, <2>4, <2>5 DEF IndexAsMemory, HeadersAsMemory, Unread
<1>6. CASE k # "chainstate"
  <2>1. disk'.chainstate = disk.chainstate
    BY <1>6, WriteEffects
  <2> SUFFICES ASSUME Mismatched, "unrepaired" \notin lapses
               PROVE  /\ ~Complete(disk'.blocks, disk.chainstate.path)
                      /\ CanRead(disk'.blocks, 0) \/ ~Unread'
    <3>1. "unrepaired" \in lapses => "unrepaired" \in lapses'
      BY <1>1, <1>6, WriteLapses
    <3> QED
      BY <1>1, <1>2, <2>1, <3>1 DEF StraightSnapshot, Mismatched
  <2>2. /\ ~Complete(disk.blocks, disk.chainstate.path)
        /\ CanRead(disk.blocks, 0) \/ ~Unread
        /\ phase # "running"
    BY <1>2 DEF StraightSnapshot
  <2>3. CASE phase = "loaded"
    <3>1. k # "block"
      <4>1. ~(Unread /\ ~CanRead(disk.blocks, 0))
        BY <2>2
      <4>2. "block" \in Pending => Unread /\ ~CanRead(disk.blocks, 0)
        BY <2>3 DEF StorageInv, Aimed
      <4> QED
        BY <1>1, <4>1, <4>2
    <3>2. k \in {"index", "headers"}
      BY <1>1, <2>3, <3>1 DEF StorageInv, Planned
    <3>3. disk'.blocks = disk.blocks
      BY <3>2, WriteEffects
    <3> QED
      BY <1>4, <2>2, <2>3, <3>3
  <2>4. CASE phase = "replayed"
    BY <1>1, <1>6, <2>4 DEF StorageInv, Planned
  <2>5. CASE phase = "repaired"
    <3>1. CanRead(disk'.blocks, 0)
      BY <2>5, WriteKeepsRepair
    <3>2. disk.chainstate.path \in Paths \cup {NoPath}
      BY Typed
    <3> QED
      BY <2>2, <2>5, <3>1, <3>2, CompleteBefore
  <2> QED
    BY <1>1, <2>2, <2>3, <2>4, <2>5
<1> QED
  BY <1>5, <1>6

\* A write that succeeds keeps the invariant.
LEMMA WriteKeepsInv ==
  ASSUME StorageInv, DoWrite
  PROVE  StorageInv'
<1>1. StorageTyped' /\ Placed' /\ Planned' /\ Aimed' /\ Recorded' /\ Stored'
  BY WriteTyped, WritePlaced, WritePlanned, WriteAimed, WriteRecorded, WriteStored
<1>2. Calm' => Straight'
  <2>1. CASE Calm
    BY <2>1, WriteKeepsIndex, WriteKeepsHeaders, WriteKeepsFiles, WriteKeepsCheckpoint,
       WriteKeepsMemory, WriteKeepsSnapshot DEF Straight
  <2>2. CASE ~Calm
    BY <2>2, WellDone
  <2> QED
    BY <2>1, <2>2
<1>3. RefusesOnlyLaggingHeaders'
  <2>1. phase' # "refused"
    BY WriteBasics, PhaseOfWrite
  <2> QED
    BY <2>1 DEF RefusesOnlyLaggingHeaders
<1> QED
  BY <1>1, <1>2, <1>3 DEF StorageInv

-----------------------------------------------------------------------------
(* A write that does not succeed                                           *)

\* The write at the head of the queue leaves its file as it was, or torn.
Tears ==
  /\ writes # << >>
  /\ disk' \in {disk} \cup TornBy(Head(writes))
  /\ lapses' = lapses \cup Lapse(Head(writes))

LEMMA TearBasics ==
  ASSUME StorageInv, Tears
  PROVE  LET w == Head(writes)
             k == Kind(Head(writes)) IN
         /\ w \in WriteType /\ w \in Queue
         /\ Tail(writes) \in Seq(WriteType) /\ InOrder(Tail(writes))
         /\ Queue = {w} \cup ToSet(Tail(writes))
         /\ Pending = {k} \cup Kinds(Tail(writes)) /\ Kinds(Tail(writes)) \subseteq MayFollow(k)
         /\ k \in {"block", "removal", "maps", "checkpoint", "index", "headers", "chainstate"}
         /\ (w.file = "block") <=> k \in {"block", "removal"}
         /\ k \notin {"block", "removal"} => w.file = k
         /\ k = "removal" => w.to = NoBlock
         /\ k = "block" => w.to \in Block /\ w.at \in Nat
         /\ node.path \in Paths /\ Target.path \in Paths
<1>1. /\ writes \in Seq(WriteType) /\ writes # << >> /\ InOrder(writes) /\ Alive
      /\ node.path \in Paths /\ node.coins \in Seq(Block)
  BY DEF StorageInv, StorageTyped, Tears, Planned, Alive
<1>2. /\ Head(writes) \in WriteType /\ Tail(writes) \in Seq(WriteType)
      /\ ToSet(writes) = {Head(writes)} \cup ToSet(Tail(writes))
      /\ Kinds(writes) = {Kind(Head(writes))} \cup Kinds(Tail(writes))
  BY <1>1, QueueHead
<1>3. InOrder(Tail(writes)) /\ Kinds(Tail(writes)) \subseteq MayFollow(Kind(Head(writes)))
  BY <1>1, InOrderTail
<1>4. PICK w : w = Head(writes)
  OBVIOUS
<1>5. /\ Kind(w) \in {"block", "removal", "maps", "checkpoint", "index", "headers", "chainstate"}
      /\ (w.file = "block") <=> Kind(w) \in {"block", "removal"}
      /\ Kind(w) \notin {"block", "removal"} => w.file = Kind(w)
      /\ Kind(w) = "removal" => w.to = NoBlock
      /\ Kind(w) = "block" => w.to \in Block /\ w.at \in Nat
  BY <1>2, <1>4, WriteFacts
<1>6. Target.path \in Paths
  BY <1>1, TargetType DEF Target
<1> QED
  BY <1>1, <1>2, <1>3, <1>4, <1>5, <1>6 DEF Queue, Pending

LEMMA TearEffects ==
  ASSUME StorageInv, Tears
  PROVE  LET w == Head(writes)
             k == Kind(Head(writes)) IN
         /\ disk' = [blocks |-> disk'.blocks, index |-> disk'.index, headers |-> disk'.headers,
                     chainstate |-> disk'.chainstate, checkpoint |-> disk'.checkpoint]
         /\ disk'.blocks = disk.blocks \/ (k = "block" /\ disk'.blocks = [disk.blocks EXCEPT ![w.at] = TornBlock])
         /\ disk'.index = disk.index \/ (k = "index" /\ disk'.index = NoPath)
         /\ \/ disk'.headers = disk.headers
            \/ k = "headers" /\ \E s \in {"empty", "cut"} : disk'.headers = [state |-> s, of |-> {}]
         /\ \/ disk'.chainstate = disk.chainstate
            \/ k = "chainstate" /\ disk'.chainstate = [path |-> NoPath, coins |-> NoPath]
         /\ disk'.checkpoint = disk.checkpoint \/ (k = "checkpoint" /\ disk'.checkpoint = NoCheckpoint)
         /\ k = "block" /\ disk' # disk => disk'.blocks = [disk.blocks EXCEPT ![w.at] = TornBlock]
<1> DEFINE w == Head(writes)
           k == Kind(Head(writes))
<1>1. /\ k \in {"block", "removal", "maps", "checkpoint", "index", "headers", "chainstate"}
      /\ (w.file = "block") <=> k \in {"block", "removal"}
      /\ k \notin {"block", "removal"} => w.file = k
      /\ k = "removal" => w.to = NoBlock
  BY TearBasics
<1>2. disk = [blocks |-> disk.blocks, index |-> disk.index, headers |-> disk.headers,
              chainstate |-> disk.chainstate, checkpoint |-> disk.checkpoint]
  BY Fields DEF StorageInv
<1>3. disk' = disk \/ disk' \in TornBy(w)
  BY DEF Tears
<1> HIDE DEF w, k
<1>4. CASE disk' = disk
  BY <1>2, <1>4
<1>5. CASE disk' \in TornBy(w)
  <2>1. CASE k = "block"
    <3>1. disk' = [disk EXCEPT !.blocks[w.at] = TornBlock]
      BY <1>1, <1>5, <2>1 DEF TornBy
    <3>2. disk'.blocks = [disk.blocks EXCEPT ![w.at] = TornBlock]
      BY <1>2, <3>1
    <3> QED
      BY <1>2, <2>1, <3>1, <3>2 DEF w, k
  <2>2. CASE k = "index"
    <3>1. disk' = [disk EXCEPT !.index = NoPath]
      BY <1>1, <1>5, <2>2 DEF TornBy
    <3> QED
      BY <1>2, <2>2, <3>1 DEF k
  <2>3. CASE k = "headers"
    <3>1. PICK s \in {"empty", "cut"} : disk' = [disk EXCEPT !.headers = [state |-> s, of |-> {}]]
      BY <1>1, <1>5, <2>3 DEF TornBy
    <3> QED
      BY <1>2, <2>3, <3>1 DEF k
  <2>4. CASE k = "chainstate"
    <3>1. disk' = [disk EXCEPT !.chainstate = [path |-> NoPath, coins |-> NoPath]]
      BY <1>1, <1>5, <2>4 DEF TornBy
    <3> QED
      BY <1>2, <2>4, <3>1 DEF k
  <2>5. CASE k = "checkpoint"
    <3>1. disk' = [disk EXCEPT !.checkpoint = NoCheckpoint]
      BY <1>1, <1>5, <2>5 DEF TornBy
    <3> QED
      BY <1>2, <2>5, <3>1 DEF k
  <2>6. CASE k \in {"removal", "maps"}
    BY <1>1, <1>5, <2>6 DEF TornBy
  <2> QED
    BY <1>1, <2>1, <2>2, <2>3, <2>4, <2>5, <2>6
<1> QED
  BY <1>3, <1>4, <1>5

\* What a write that does not succeed leaves amiss.
LEMMA TearLapses ==
  ASSUME StorageInv, Tears
  PROVE  LET k == Kind(Head(writes)) IN
         /\ lapses \subseteq lapses'
         /\ lapses' \subseteq {"block", "checkpoint", "index", "headers", "chainstate", "reorg", "unrepaired"}
         /\ k \in {"block", "removal", "maps"} => "block" \in lapses'
         /\ k \notin {"block", "removal", "maps"} => k \in lapses'
         /\ onto = "reorg" => "reorg" \in lapses'
         /\ "reorg" \notin lapses' => Calm
<1> DEFINE w == Head(writes)
           k == Kind(Head(writes))
<1>1. /\ k \in {"block", "removal", "maps", "checkpoint", "index", "headers", "chainstate"}
      /\ (w.file = "block") <=> k \in {"block", "removal"}
      /\ k \notin {"block", "removal"} => w.file = k
  BY TearBasics
<1>2. /\ lapses \subseteq {"block", "checkpoint", "index", "headers", "chainstate", "reorg", "unrepaired"}
      /\ lapses' = lapses \cup Lapse(w)
  BY Fields DEF StorageInv, Tears
<1> HIDE DEF w, k
<1>3. Lapse(w) = {IF k \in {"block", "removal", "maps"} THEN "block" ELSE k}
                 \cup (IF onto = "reorg" THEN {"reorg"} ELSE {})
  BY <1>1 DEF Lapse
<1>4. /\ lapses \subseteq lapses'
      /\ lapses' \subseteq {"block", "checkpoint", "index", "headers", "chainstate", "reorg", "unrepaired"}
  BY <1>1, <1>2, <1>3
<1>5. /\ k \in {"block", "removal", "maps"} => "block" \in lapses'
      /\ k \notin {"block", "removal", "maps"} => k \in lapses'
      /\ onto = "reorg" => "reorg" \in lapses'
  BY <1>2, <1>3
<1>6. "reorg" \notin lapses' => Calm
  BY <1>4, <1>5 DEF Calm, Reorganizing
<1> QED
  BY <1>4, <1>5, <1>6 DEF k

\* The files are of their types, and each height file is as before or torn.
LEMMA TearShape ==
  ASSUME StorageInv, Tears
  PROVE  /\ disk'.blocks \in BlockFiles /\ disk'.index \in Paths \cup {NoPath}
         /\ disk'.headers \in [state : {"whole", "empty", "cut"}, of : SUBSET Block]
         /\ disk'.chainstate \in [path : Paths \cup {NoPath}, coins : Seq(Block)]
         /\ disk'.checkpoint \in Marks
         /\ \A h \in Heights : \/ disk'.blocks[h] = disk.blocks[h]
                               \/ disk'.blocks[h] = TornBlock /\ Kind(Head(writes)) = "block"
         /\ Placed'
<1> DEFINE w == Head(writes)
           k == Kind(Head(writes))
<1>1. /\ disk.blocks \in BlockFiles /\ disk.index \in Paths \cup {NoPath}
      /\ disk.headers \in [state : {"whole", "empty", "cut"}, of : SUBSET Block]
      /\ disk.chainstate \in [path : Paths \cup {NoPath}, coins : Seq(Block)]
      /\ disk.checkpoint \in Marks
  BY Fields DEF StorageInv
<1>2. NoPath \in Seq(Block) /\ NoCheckpoint \in Marks
  BY EmptySeq DEF NoPath, Marks
<1>3. disk'.blocks = disk.blocks \/ (k = "block" /\ disk'.blocks = [disk.blocks EXCEPT ![w.at] = TornBlock])
  BY TearEffects
<1>4. k = "block" => w.at \in Nat
  BY TearBasics
<1>5. disk'.index \in Paths \cup {NoPath} /\ disk'.checkpoint \in Marks
  BY <1>1, <1>2, TearEffects
<1>6. disk'.headers \in [state : {"whole", "empty", "cut"}, of : SUBSET Block]
  <2>1. \/ disk'.headers = disk.headers
        \/ \E s \in {"empty", "cut"} : disk'.headers = [state |-> s, of |-> {}]
    BY TearEffects
  <2> QED
    BY <1>1, <2>1
<1>7. disk'.chainstate \in [path : Paths \cup {NoPath}, coins : Seq(Block)]
  <2>1. disk'.chainstate = disk.chainstate \/ disk'.chainstate = [path |-> NoPath, coins |-> NoPath]
    BY TearEffects
  <2> QED
    BY <1>1, <1>2, <2>1
<1>8. WellPlaced(disk.blocks) /\ ("block" \notin lapses => CanRead(disk.blocks, 0))
  BY DEF StorageInv, Placed
<1>9. k = "block" => "block" \in lapses'
  BY TearLapses
<1>10. "block" \notin lapses' => "block" \notin lapses
  BY TearLapses
<1> HIDE DEF w, k
<1>11. /\ disk'.blocks \in BlockFiles
       /\ \A h \in Heights : \/ disk'.blocks[h] = disk.blocks[h]
                             \/ disk'.blocks[h] = TornBlock /\ k = "block"
  <2>1. CASE disk'.blocks = disk.blocks
    BY <1>1, <2>1
  <2>2. CASE k = "block" /\ disk'.blocks = [disk.blocks EXCEPT ![w.at] = TornBlock]
    <3>1. /\ [disk.blocks EXCEPT ![w.at] = TornBlock] \in BlockFiles
          /\ \A h \in Heights : [disk.blocks EXCEPT ![w.at] = TornBlock][h] =
                                  IF h = w.at THEN TornBlock ELSE disk.blocks[h]
      BY <1>1, <1>4, <2>2 DEF BlockFiles
    <3> QED
      BY <2>2, <3>1
  <2> QED
    BY <1>3, <2>1, <2>2
<1>12. WellPlaced(disk'.blocks)
  BY <1>8, <1>11, StorageAssumption DEF WellPlaced
<1>13. "block" \notin lapses' => CanRead(disk'.blocks, 0)
  BY <1>3, <1>8, <1>9, <1>10
<1> QED
  BY <1>5, <1>6, <1>7, <1>11, <1>12, <1>13 DEF Placed, k

\* What the files of a node that is down agree in, none of its reorgs being cut short.
FilesAtRest ==
  /\ Fits(disk.blocks, disk.index)
  /\ \/ "headers" \in lapses
     \/ disk.headers.state = "whole" /\ BlocksOf(disk.index) \subseteq disk.headers.of
  /\ "block" \notin lapses /\ disk.index = NoPath => Linked(FirstBlocks(Cardinality(Heights)))
  /\ Respects(disk.index, disk.checkpoint)
  /\ disk.checkpoint # NoCheckpoint =>
       disk.blocks[disk.checkpoint.height] \in {disk.checkpoint.hash, TornBlock, NoBlock}
  /\ Mismatched => \/ "unrepaired" \in lapses
                   \/ /\ ~Complete(disk.blocks, disk.chainstate.path)
                      /\ CanRead(disk.blocks, 0) \/ ~Unread

LEMMA StillAtRest ==
  ASSUME StorageInv, Calm, writes = << >>
  PROVE  FilesAtRest
<1>1. Pending = {}
  BY NoKinds DEF StorageInv, StorageTyped, Pending
<1> QED
  BY <1>1 DEF StorageInv, Straight, StraightIndex, StraightHeaders, StraightFiles,
              StraightCheckpoint, StraightSnapshot, FilesAtRest

\* No block in the files is read as such that was not there before.
LEMMA TornReadsLess ==
  ASSUME StorageInv, Tears, NEW p \in Paths \cup {NoPath}
  PROVE  /\ Complete(disk'.blocks, p) => Complete(disk.blocks, p)
         /\ Fits(disk.blocks, p) => Fits(disk'.blocks, p)
<1>1. ASSUME NEW h \in 0..(Len(p) - 1) PROVE h \in Heights
  <2>1. p \in Paths
    BY Typed
  <2> QED
    BY <2>1, PathFacts
<1>2. ASSUME NEW h \in 0..(Len(p) - 1)
      PROVE  disk'.blocks[h] = disk.blocks[h] \/ disk'.blocks[h] = TornBlock
  BY <1>1, TearShape
<1>3. Complete(disk'.blocks, p) => Complete(disk.blocks, p)
  BY <1>2 DEF Complete, CanRead
<1>4. Fits(disk.blocks, p) => Fits(disk'.blocks, p)
  BY <1>2 DEF Fits
<1> QED
  BY <1>3, <1>4

\* Where an index that the running write would replace can be made anew.
LEMMA TornIndexFound ==
  ASSUME StorageInv, Calm, Tears, "block" \notin lapses', disk'.index = NoPath
  PROVE  disk'.blocks = disk.blocks /\ Linked(First(disk.blocks, Cardinality(Heights)))
<1> DEFINE k == Kind(Head(writes))
           n == Cardinality(Heights)
<1>1. /\ Pending = {k} \cup Kinds(Tail(writes)) /\ Kinds(Tail(writes)) \subseteq MayFollow(k)
      /\ k \in {"block", "removal", "maps", "checkpoint", "index", "headers", "chainstate"}
      /\ node.path \in Paths /\ Target.path \in Paths /\ writes # << >>
  BY TearBasics DEF Tears
<1>2. k \notin {"block", "removal", "maps"} /\ "block" \notin lapses
  BY TearLapses
<1>3. disk'.blocks = disk.blocks
  BY <1>2, TearEffects
<1>4. Pending \cap {"block", "maps", "removal"} = {}
  BY <1>1, <1>2 DEF MayFollow
<1>5. CASE disk.index = NoPath \/ (phase = "loaded" /\ k = "index")
  <2>1. StraightFiles
    BY DEF StorageInv, Straight
  <2>2. phase = "loaded" /\ k = "index" => "index" \in Pending
    BY <1>1
  <2>3. Linked(FirstBlocks(n))
    BY <1>2, <1>4, <1>5, <2>1, <2>2 DEF StraightFiles
  <2> QED
    BY <1>3, <2>3, ReadsFiles
<1>6. CASE disk.index # NoPath /\ ~(phase = "loaded" /\ k = "index")
  <2>1. k = "index"
    BY <1>6, TearEffects
  <2>2. phase \in {"repaired", "running"}
    <3>1. "index" \in Pending
      BY <1>1, <2>1
    <3> QED
      BY <1>1, <1>6, <2>1, <3>1, PhaseOfWrite
  <2>3. Target.coins = Target.path
    BY <1>1, <2>2, CoinsOfTarget
  <2>4. Stored /\ disk.blocks \in BlockFiles /\ WellPlaced(disk.blocks)
    BY DEF StorageInv, StorageTyped, Placed
  <2>5. \A h, b : BlockWrite(h, b) \notin Queue
    <3> SUFFICES ASSUME NEW h, NEW b, BlockWrite(h, b) \in Queue PROVE FALSE
      OBVIOUS
    <3>1. "removal" \in Pending \/ "block" \in Pending
      BY PendingBlock
    <3> QED
      BY <1>4, <3>1
  <2>6. EndsAt(disk.blocks, Len(Target.path))
    BY <1>1, <2>2, <2>4, <2>5 DEF Stored
  <2>7. Holds(disk.blocks, Target.path)
    <3>1. ~Failed("block")
      BY <1>2 DEF Failed, Lapsed
    <3> QED
      BY <1>1, <2>2, <2>3, <2>4, <2>5, <3>1 DEF Stored, Holds
  <2> QED
    BY <1>1, <1>3, <2>4, <2>6, <2>7, PathIsRead
<1> QED
  BY <1>5, <1>6

LEMMA TornHeaders ==
  ASSUME StorageInv, Calm, Tears
  PROVE  \/ "headers" \in lapses'
         \/ disk'.headers.state = "whole" /\ BlocksOf(disk'.index) \subseteq disk'.headers.of
<1> DEFINE k == Kind(Head(writes))
<1>1. /\ Pending = {k} \cup Kinds(Tail(writes)) /\ Kinds(Tail(writes)) \subseteq MayFollow(k)
      /\ k \in {"block", "removal", "maps", "checkpoint", "index", "headers", "chainstate"}
  BY TearBasics
<1>2. /\ lapses \subseteq lapses' /\ (k = "headers" => "headers" \in lapses')
  BY TearLapses
<1>3. /\ disk'.headers = disk.headers \/ k = "headers"
      /\ disk'.index = disk.index \/ (k = "index" /\ disk'.index = NoPath)
  BY TearEffects
<1>4. Pending \cap {"block", "maps", "removal", "checkpoint"} # {} => "index" \in Pending
  BY DEF StorageInv, Planned
<1>5. StraightHeaders
  BY DEF StorageInv, Straight
<1>6. BlocksOf(NoPath) = {}
  BY DEF BlocksOf, NoPath
<1> HIDE DEF k
<1>7. "headers" \in Pending /\ "index" \notin Pending => k = "headers"
  BY <1>1, <1>4 DEF MayFollow
<1> QED
  BY <1>2, <1>3, <1>5, <1>6, <1>7 DEF StraightHeaders

\* A snapshot whose blocks are not its path's is never taken for the chain.
LEMMA TornSnapshot ==
  ASSUME StorageInv, Calm, Tears, Mismatched', "unrepaired" \notin lapses'
  PROVE  /\ disk'.chainstate = disk.chainstate /\ Mismatched /\ phase # "running"
         /\ ~Complete(disk'.blocks, disk'.chainstate.path)
         /\ CanRead(disk'.blocks, 0) \/ ~Unread'
<1> DEFINE k == Kind(Head(writes))
<1>1. /\ Pending = {k} \cup Kinds(Tail(writes)) /\ Kinds(Tail(writes)) \subseteq MayFollow(k)
      /\ k \in {"block", "removal", "maps", "checkpoint", "index", "headers", "chainstate"}
      /\ writes # << >>
  BY TearBasics DEF Tears
<1>2. disk'.chainstate = disk.chainstate
  <2>1. \/ disk'.chainstate = disk.chainstate
        \/ disk'.chainstate = [path |-> NoPath, coins |-> NoPath]
    BY TearEffects
  <2> QED
    BY <2>1 DEF Mismatched
<1>3. Mismatched
  BY <1>2 DEF Mismatched
<1>4. StraightSnapshot /\ StraightMemory /\ StraightIndex /\ "unrepaired" \notin lapses
  BY TearLapses DEF StorageInv, Straight
<1>5. phase # "running"
  BY <1>3, <1>4 DEF StraightSnapshot
<1>6. ~Complete(disk'.blocks, disk'.chainstate.path)
  <2>1. disk.chainstate.path \in Paths \cup {NoPath}
    BY Typed
  <2> QED
    BY <1>2, <1>3, <1>4, <2>1, TornReadsLess DEF StraightSnapshot
<1>7. CanRead(disk.blocks, 0) \/ ~Unread
  BY <1>3, <1>4 DEF StraightSnapshot
<1>8. CanRead(disk'.blocks, 0) \/ ~Unread'
  <2>1. CASE k = "block"
    <3>1. disk'.index = disk.index /\ disk'.headers = disk.headers
      BY <2>1, TearEffects
    <3>2. "block" \in Pending /\ "index" \in Pending
      <4>1. "block" \in Pending
        BY <1>1, <2>1
      <4> QED
        BY <4>1 DEF StorageInv, Planned
    <3>3. phase # "loaded"
      BY <1>7, <3>2 DEF StorageInv, Aimed
    <3>4. phase = "repaired"
      BY <1>1, <1>5, <3>2, <3>3, PhaseOfWrite
    <3>5. ~Unread
      BY <1>4, <3>2, <3>4 DEF StraightIndex
    <3> QED
      BY <3>1, <3>5 DEF Unread
  <2>2. CASE k \in {"index", "headers"}
    <3>1. disk'.blocks = disk.blocks
      BY <2>2, TearEffects
    <3>2. CanRead(disk.blocks, 0)
      <4>1. "block" \notin Pending
        BY <1>1, <2>2 DEF MayFollow
      <4>2. phase = "loaded" => CanRead(disk.blocks, 0)
        BY <1>1, <4>1 DEF StorageInv, Aimed
      <4>3. phase = "repaired" => CanRead(disk.blocks, 0)
        BY <1>1, <1>4 DEF StraightMemory
      <4>4. phase \in {"loaded", "repaired"}
        <5>1. Pending \cap {"block", "index", "headers"} # {}
          BY <1>1, <2>2
        <5> QED
          BY <1>1, <1>5, <5>1, PhaseOfWrite
      <4> QED
        BY <4>2, <4>3, <4>4
    <3> QED
      BY <3>1, <3>2
  <2>3. CASE k \notin {"block", "index", "headers"}
    <3>1. disk'.blocks = disk.blocks /\ disk'.index = disk.index /\ disk'.headers = disk.headers
      BY <2>3, TearEffects
    <3> QED
      BY <1>7, <3>1 DEF Unread
  <2> QED
    BY <2>1, <2>2, <2>3
<1> QED
  BY <1>2, <1>3, <1>5, <1>6, <1>8

LEMMA TornAtRest ==
  ASSUME StorageInv, Calm, Tears
  PROVE  FilesAtRest'
<1>1. /\ disk'.index = disk.index \/ disk'.index = NoPath
      /\ disk'.checkpoint = disk.checkpoint \/ disk'.checkpoint = NoCheckpoint
  BY TearEffects
<1>2. Respects(disk.index, disk.checkpoint) /\ Fits(disk.blocks, disk.index)
      /\ (disk.checkpoint # NoCheckpoint =>
            disk.blocks[disk.checkpoint.height] \in {disk.checkpoint.hash, TornBlock, NoBlock})
  BY DEF StorageInv, Straight, StraightIndex, StraightCheckpoint
<1>3. Len(NoPath) = 0 /\ disk.index \in Paths \cup {NoPath} /\ disk.checkpoint \in Marks
  BY Typed
<1>4. Fits(disk'.blocks, disk'.index)
  <2>1. Fits(disk'.blocks, NoPath)
    BY <1>3 DEF Fits
  <2>2. Fits(disk'.blocks, disk.index)
    BY <1>2, <1>3, TornReadsLess
  <2> QED
    BY <1>1, <2>1, <2>2
<1>5. Respects(disk'.index, disk'.checkpoint)
  <2>1. disk.checkpoint # NoCheckpoint => disk.checkpoint.height \in Nat
    BY <1>3, MarkFacts
  <2>2. Respects(NoPath, disk.checkpoint)
    BY <1>3, <2>1 DEF Respects
  <2> QED
    BY <1>1, <1>2, <2>2 DEF Respects
<1>6. disk'.checkpoint # NoCheckpoint =>
        disk'.blocks[disk'.checkpoint.height] \in {disk'.checkpoint.hash, TornBlock, NoBlock}
  <2> SUFFICES ASSUME disk'.checkpoint # NoCheckpoint
               PROVE  disk'.blocks[disk.checkpoint.height] \in {disk.checkpoint.hash, TornBlock, NoBlock}
    BY <1>1
  <2>1. disk.checkpoint # NoCheckpoint /\ disk.checkpoint.height \in Heights
    BY <1>1, <1>3, MarkFacts
  <2>2. \/ disk'.blocks[disk.checkpoint.height] = disk.blocks[disk.checkpoint.height]
        \/ disk'.blocks[disk.checkpoint.height] = TornBlock
    BY <2>1, TearShape
  <2> QED
    BY <1>2, <2>1, <2>2
<1>7. "block" \notin lapses' /\ disk'.index = NoPath => Linked(FirstBlocks(Cardinality(Heights))')
  <2> SUFFICES ASSUME "block" \notin lapses', disk'.index = NoPath
               PROVE  Linked(FirstBlocks(Cardinality(Heights))')
    OBVIOUS
  <2>1. disk'.blocks = disk.blocks /\ Linked(First(disk.blocks, Cardinality(Heights)))
    BY TornIndexFound
  <2>2. FirstBlocks(Cardinality(Heights))' = First(disk'.blocks, Cardinality(Heights))
    BY DEF FirstBlocks, First, Readable, CanRead
  <2> QED
    BY <2>1, <2>2
<1>8. Mismatched' => \/ "unrepaired" \in lapses'
                     \/ /\ ~Complete(disk'.blocks, disk'.chainstate.path)
                        /\ CanRead(disk'.blocks, 0) \/ ~Unread'
  BY TornSnapshot
<1> QED
  BY <1>4, <1>5, <1>6, <1>7, <1>8, TornHeaders DEF FilesAtRest, Linked

-----------------------------------------------------------------------------
(* A process that ends                                                     *)

LEMMA NothingTyped ==
  /\ Nothing = [path |-> NoPath, coins |-> NoPath, pool |-> {}, known |-> {},
                checkpoint |-> NoCheckpoint]
  /\ Nothing \in [path : Paths \cup {NoPath}, coins : Seq(Block), pool : SUBSET Block,
                  known : SUBSET Block, checkpoint : Marks]
<1>1. NoPath \in Seq(Block) /\ NoCheckpoint \in Marks
  BY EmptySeq DEF NoPath, Marks
<1> QED
  BY <1>1 DEF Nothing

\* With no process, only the files matter.
LEMMA DownInv ==
  ASSUME phase' \in {"down", "refused"}, node' = Nothing, writes' = << >>,
         StorageTyped', Placed', disk'.index = NoPath => "index" \in lapses',
         "reorg" \notin lapses' => FilesAtRest',
         RefusesOnlyLaggingHeaders'
  PROVE  StorageInv'
<1>1. DOMAIN << >> = {} /\ ToSet(<< >>) = {}
  BY DEF ToSet
<1>2. Queue' = {} /\ Pending' = {} /\ ~Alive' /\ InOrder(writes')
  BY <1>1 DEF Queue, Pending, Kinds, Alive, InOrder
<1>3. Planned'
  BY <1>2 DEF Planned
<1>4. Aimed'
  BY <1>2 DEF Aimed
<1>5. Recorded'
  BY <1>2 DEF Recorded
<1>6. Stored'
  BY DEF Stored
<1>7. Calm' => Straight'
  <2> SUFFICES ASSUME Calm' PROVE Straight'
    OBVIOUS
  <2>1. FilesAtRest'
    BY DEF Calm
  <2>2. StraightIndex' /\ StraightHeaders' /\ StraightFiles'
    BY <1>2, <2>1 DEF FilesAtRest, StraightIndex, StraightHeaders, StraightFiles, Linked
  <2>3. StraightCheckpoint' /\ StraightMemory' /\ StraightSnapshot'
    BY <1>2, <2>1 DEF FilesAtRest, StraightCheckpoint, StraightMemory, StraightSnapshot
  <2> QED
    BY <2>2, <2>3 DEF Straight
<1> QED
  BY <1>3, <1>4, <1>5, <1>6, <1>7 DEF StorageInv

LEMMA CrashKeepsInv ==
  ASSUME StorageInv, StorageCrash
  PROVE  StorageInv'
<1>1. /\ Tears /\ node' = Nothing /\ phase' = "down" /\ writes' = << >> /\ onto' = onto
      /\ mishaps < MaxMishaps /\ mishaps' = mishaps + 1
  BY DEF StorageCrash, Tears
<1>2. StorageTyped'
  <2>1. onto \in {"extension", "reorg"} /\ mishaps \in 0..MaxMishaps /\ MaxMishaps \in Nat
    BY StorageAssumption DEF StorageInv, StorageTyped
  <2>2. mishaps' \in 0..MaxMishaps
    BY <1>1, <2>1
  <2>3. lapses' \subseteq {"block", "checkpoint", "index", "headers", "chainstate", "reorg", "unrepaired"}
    BY <1>1, TearLapses
  <2>4. disk' = [blocks |-> disk'.blocks, index |-> disk'.index, headers |-> disk'.headers,
                 chainstate |-> disk'.chainstate, checkpoint |-> disk'.checkpoint]
    BY <1>1, TearEffects
  <2>5. disk' \in [blocks : BlockFiles, index : Paths \cup {NoPath},
                   headers : [state : {"whole", "empty", "cut"}, of : SUBSET Block],
                   chainstate : [path : Paths \cup {NoPath}, coins : Seq(Block)],
                   checkpoint : Marks]
    BY <1>1, <2>4, TearShape
  <2>6. writes' \in Seq(WriteType)
    BY <1>1, EmptySeq
  <2> QED
    BY <1>1, <2>1, <2>2, <2>3, <2>5, <2>6, NothingTyped DEF StorageTyped
<1>3. disk'.index = NoPath => "index" \in lapses'
  <2>1. disk'.index = disk.index \/ Kind(Head(writes)) = "index"
    BY <1>1, TearEffects
  <2>2. lapses \subseteq lapses' /\ (Kind(Head(writes)) = "index" => "index" \in lapses')
    BY <1>1, TearLapses
  <2> QED
    BY <2>1, <2>2 DEF StorageInv, Recorded
<1>4. "reorg" \notin lapses' => FilesAtRest'
  BY <1>1, TearLapses, TornAtRest
<1>5. RefusesOnlyLaggingHeaders'
  BY <1>1 DEF RefusesOnlyLaggingHeaders
<1> QED
  BY <1>1, <1>2, <1>3, <1>4, <1>5, TearShape, DownInv

\* With the files as they are, nothing being written, the process goes.
LEMMA LeaveKeepsInv ==
  ASSUME StorageInv, phase' \in {"down", "refused"}, node' = Nothing, writes = << >>, writes' = << >>,
         onto' \in {"extension", "reorg"},
         UNCHANGED <<disk, lapses, mishaps>>, RefusesOnlyLaggingHeaders'
  PROVE  StorageInv'
<1>1. StorageTyped'
  BY NothingTyped, EmptySeq DEF StorageInv, StorageTyped
<1>2. Placed' /\ (disk'.index = NoPath => "index" \in lapses')
  BY DEF StorageInv, Placed, Recorded
<1>3. "reorg" \notin lapses' => FilesAtRest'
  <2> SUFFICES ASSUME "reorg" \notin lapses' PROVE FilesAtRest'
    OBVIOUS
  <2>1. Calm
    BY DEF Calm, Reorganizing
  <2>2. FilesAtRest
    BY <2>1, StillAtRest
  <2>3. FirstBlocks(Cardinality(Heights))' = FirstBlocks(Cardinality(Heights))
    BY DEF FirstBlocks, Readable
  <2> QED
    BY <2>2, <2>3 DEF FilesAtRest, Mismatched, Unread, Linked
<1> QED
  BY <1>1, <1>2, <1>3, DownInv

LEMMA StopKeepsInv ==
  ASSUME StorageInv, Stop
  PROVE  StorageInv'
<1>1. /\ phase' = "down" /\ node' = Nothing /\ writes = << >> /\ writes' = << >>
      /\ UNCHANGED <<disk, lapses, mishaps, onto>> /\ onto \in {"extension", "reorg"}
  BY DEF StorageInv, StorageTyped, Stop
<1>2. RefusesOnlyLaggingHeaders'
  BY <1>1 DEF RefusesOnlyLaggingHeaders
<1> QED
  BY <1>1, <1>2, LeaveKeepsInv

LEMMA ReadTornKeepsInv ==
  ASSUME StorageInv, ReadTorn
  PROVE  StorageInv'
<1>1. /\ phase' = "refused" /\ node' = Nothing /\ writes = << >> /\ writes' = << >>
      /\ UNCHANGED <<disk, lapses, mishaps, onto>> /\ onto \in {"extension", "reorg"}
  BY DEF StorageInv, StorageTyped, ReadTorn, Refuse
<1>2. RefusesOnlyLaggingHeaders'
  BY <1>1 DEF ReadTorn, RefusesOnlyLaggingHeaders
<1> QED
  BY <1>1, <1>2, LeaveKeepsInv

-----------------------------------------------------------------------------
(* A write of the running node that fails                                  *)

\* activate_path gives up, or goes on as if nothing had happened.
LEMMA FailBasics ==
  ASSUME StorageInv, FailWrite
  PROVE  LET k == Kind(Head(writes)) IN
         /\ Tears /\ phase = "running" /\ phase' = "running" /\ node' = node /\ onto' = onto
         /\ mishaps' \in 0..MaxMishaps /\ writes # << >> /\ writes' \in Seq(WriteType)
         /\ k \in {"block", "checkpoint", "index", "headers", "chainstate"}
         /\ Target.coins = Target.path
         /\ \A f : Failed(f)' <=> f \in lapses'
         /\ \A f : Failed(f) => Failed(f)'
         /\ \A f : Lapsed(f) => Failed(f)'
         /\ \/ k = "block" /\ writes' = << >> /\ Target' = [path |-> node.path, coins |-> node.coins]
            \/ /\ writes' = Tail(writes) /\ Target' = Target
               /\ k = "block" => disk'.blocks = [disk.blocks EXCEPT ![Head(writes).at] = TornBlock]
<1> DEFINE w == Head(writes)
           k == Kind(Head(writes))
<1>1. /\ Tears /\ phase = "running" /\ phase' = "running" /\ node' = node /\ onto' = onto
      /\ mishaps < MaxMishaps /\ mishaps' = mishaps + 1 /\ writes # << >> /\ w.file # "maps"
      /\ disk' \in {disk} \cup TornBy(w)
      /\ \/ w.file = "block" /\ w.to # NoBlock /\ writes' = << >>
         \/ (w.file = "block" => disk' # disk) /\ writes' = Tail(writes)
  BY DEF FailWrite, Tears
<1>2. mishaps' \in 0..MaxMishaps
  <2>1. mishaps \in 0..MaxMishaps /\ MaxMishaps \in Nat
    BY StorageAssumption DEF StorageInv, StorageTyped
  <2> QED
    BY <1>1, <2>1
<1>3. /\ k \in {"block", "removal", "maps", "checkpoint", "index", "headers", "chainstate"}
      /\ (w.file = "block") <=> k \in {"block", "removal"}
      /\ k \notin {"block", "removal"} => w.file = k
      /\ k = "removal" => w.to = NoBlock
      /\ Tail(writes) \in Seq(WriteType) /\ w \in WriteType
  BY <1>1, TearBasics
<1>4. k # "removal"
  <2> SUFFICES ASSUME k = "removal" PROVE FALSE
    OBVIOUS
  <2>1. w.file = "block" /\ w.to = NoBlock
    BY <1>3
  <2>2. TornBy(w) = {}
    BY <2>1 DEF TornBy
  <2> QED
    BY <1>1, <2>1, <2>2
<1>5. k \in {"block", "checkpoint", "index", "headers", "chainstate"}
  BY <1>1, <1>3, <1>4
<1>6. Target.coins = Target.path
  BY <1>1 DEF StorageInv, Aimed
<1>7. /\ \A f : Failed(f)' <=> f \in lapses'
      /\ \A f : Failed(f) => Failed(f)'
      /\ \A f : Lapsed(f) => Failed(f)'
  <2>1. lapses \subseteq lapses' /\ (onto = "reorg" => "reorg" \in lapses')
    BY <1>1, TearLapses
  <2> QED
    BY <1>1, <2>1 DEF Failed, Lapsed, Reorganizing
<1>8. CASE w.file = "block" /\ w.to # NoBlock /\ writes' = << >>
  <2>1. k = "block"
    BY <1>3, <1>4, <1>8
  <2>2. << >> \in Seq(WriteType) /\ Kinds(<< >>) = {}
    BY EmptySeq DEF Kinds, ToSet
  <2>3. Target' = [path |-> node.path, coins |-> node.coins]
    BY <1>1, <1>6, <1>8, <2>2, TargetOfRest DEF Target
  <2> QED
    BY <1>1, <1>2, <1>5, <1>6, <1>7, <1>8, <2>1, <2>2, <2>3
<1>9. CASE (w.file = "block" => disk' # disk) /\ writes' = Tail(writes)
  <2>1. k = "block" => disk'.blocks = [disk.blocks EXCEPT ![w.at] = TornBlock]
    BY <1>1, <1>3, <1>9, TearEffects
  <2>2. writes \in Seq(WriteType) /\ InOrder(writes)
    BY DEF StorageInv, StorageTyped, Planned
  <2>3. TargetOf(Tail(writes), node) = TargetOf(writes, node)
    BY <1>1, <2>2, TargetOfTail
  <2>4. Target' = Target
    BY <1>1, <1>9, <2>3 DEF Target
  <2> QED
    BY <1>1, <1>2, <1>3, <1>5, <1>6, <1>7, <1>9, <2>1, <2>4
<1> QED
  BY <1>1, <1>8, <1>9

LEMMA FailTyped ==
  ASSUME StorageInv, FailWrite
  PROVE  StorageTyped'
<1>1. /\ Tears /\ phase' = "running" /\ node' = node /\ onto' = onto
      /\ mishaps' \in 0..MaxMishaps /\ writes' \in Seq(WriteType)
  BY FailBasics
<1>2. lapses' \subseteq {"block", "checkpoint", "index", "headers", "chainstate", "reorg", "unrepaired"}
  BY <1>1, TearLapses
<1>3. disk' = [blocks |-> disk'.blocks, index |-> disk'.index, headers |-> disk'.headers,
               chainstate |-> disk'.chainstate, checkpoint |-> disk'.checkpoint]
  BY <1>1, TearEffects
<1>4. disk' \in [blocks : BlockFiles, index : Paths \cup {NoPath},
                 headers : [state : {"whole", "empty", "cut"}, of : SUBSET Block],
                 chainstate : [path : Paths \cup {NoPath}, coins : Seq(Block)],
                 checkpoint : Marks]
  BY <1>1, <1>3, TearShape
<1> QED
  BY <1>1, <1>2, <1>4 DEF StorageInv, StorageTyped

LEMMA FailPlanned ==
  ASSUME StorageInv, FailWrite
  PROVE  Planned'
<1> DEFINE k == Kind(Head(writes))
<1>1. /\ Tears /\ phase = "running" /\ phase' = "running" /\ node' = node
      /\ (k = "block" /\ writes' = << >>) \/ writes' = Tail(writes)
      /\ k \in {"block", "checkpoint", "index", "headers", "chainstate"}
  BY FailBasics
<1>2. /\ InOrder(Tail(writes)) /\ node.path \in Paths
      /\ Pending = {k} \cup Kinds(Tail(writes)) /\ Kinds(Tail(writes)) \subseteq MayFollow(k)
  BY <1>1, TearBasics
<1>3. /\ Pending # {} => "chainstate" \in Pending
      /\ "block" \in Pending => "maps" \in Pending
      /\ "index" \in Pending => "headers" \in Pending
      /\ Pending \cap {"block", "maps", "removal", "checkpoint"} # {} => "index" \in Pending
  BY <1>1 DEF StorageInv, Planned
<1>4. Alive'
  BY <1>1 DEF Alive
<1>5. CASE writes' = << >>
  <2>1. InOrder(writes') /\ Pending' = {}
    BY <1>5 DEF InOrder, Pending, Kinds, ToSet
  <2> QED
    BY <1>1, <1>2, <1>4, <2>1 DEF Planned
<1>6. CASE writes' = Tail(writes)
  <2>1. Pending' = Kinds(Tail(writes)) /\ InOrder(writes')
    BY <1>2, <1>6 DEF Pending
  <2> HIDE DEF k
  <2>2. /\ Pending' # {} => "chainstate" \in Pending'
        /\ "block" \in Pending' => "maps" \in Pending'
        /\ "index" \in Pending' => "headers" \in Pending'
        /\ Pending' \cap {"block", "maps", "removal", "checkpoint"} # {} => "index" \in Pending'
    BY <1>1, <1>2, <1>3, <2>1 DEF MayFollow
  <2> QED
    BY <1>1, <1>2, <1>4, <2>1, <2>2 DEF Planned
<1> QED
  BY <1>1, <1>5, <1>6

LEMMA FailAimed ==
  ASSUME StorageInv, FailWrite
  PROVE  Aimed'
<1>1. /\ Tears /\ phase = "running" /\ phase' = "running" /\ node' = node /\ writes # << >>
      /\ Target.coins = Target.path
      /\ writes' = << >> \/ (writes' = Tail(writes) /\ Target' = Target)
  BY FailBasics
<1>2. CASE writes' = << >>
  <2>1. Queue' = {}
    BY <1>2 DEF Queue, ToSet
  <2> QED
    BY <1>1, <1>2, <2>1 DEF Aimed
<1>3. CASE writes' = Tail(writes) /\ Target' = Target
  <2>1. Queue' \subseteq Queue
    BY <1>1, <1>3, TearBasics DEF Queue
  <2>2. /\ \A w \in Queue : Kind(w) = "removal" => w.at >= Len(Target.path)
        /\ \A w \in Queue : Kind(w) = "block" =>
             w.at < Len(Target.path) /\ w.to = Target.coins[w.at + 1]
        /\ Len(Target.coins) = Len(Target.path)
        /\ \A i \in 1..Len(Target.coins) : Height[Target.coins[i]] = i - 1
    BY <1>1 DEF StorageInv, Aimed
  <2> QED
    BY <1>1, <1>3, <2>1, <2>2 DEF Aimed
<1> QED
  BY <1>1, <1>2, <1>3

LEMMA FailRecorded ==
  ASSUME StorageInv, FailWrite
  PROVE  Recorded'
<1> DEFINE k == Kind(Head(writes))
<1>1. /\ Tears /\ phase = "running" /\ phase' = "running" /\ node' = node /\ onto' = onto
      /\ k \in {"block", "checkpoint", "index", "headers", "chainstate"}
      /\ \A f : Failed(f)' <=> f \in lapses'
      /\ \A f : Failed(f) => Failed(f)'
      /\ \A f : Lapsed(f) => Failed(f)'
      /\ \/ k = "block" /\ writes' = << >> /\ Target' = [path |-> node.path, coins |-> node.coins]
         \/ writes' = Tail(writes) /\ Target' = Target
  BY FailBasics
<1>2. /\ Pending = {k} \cup Kinds(Tail(writes)) /\ Kinds(Tail(writes)) \subseteq MayFollow(k)
      /\ node.path \in Paths
  BY <1>1, TearBasics
<1>3. Pending' \subseteq Pending /\ (k = "block" \/ Pending' = Kinds(Tail(writes)))
  <2>1. CASE writes' = << >>
    <3>1. Pending' = {}
      BY <2>1 DEF Pending, Kinds, ToSet
    <3> QED
      BY <1>1, <2>1, <3>1 DEF Pending
  <2>2. CASE writes' = Tail(writes)
    BY <1>2, <2>2 DEF Pending
  <2> QED
    BY <1>1, <2>1, <2>2
<1>4. /\ "index" \notin Pending => (IndexAsMemory \/ Failed("index"))
      /\ "headers" \notin Pending => (HeadersAsMemory \/ Failed("headers"))
      /\ "chainstate" \notin Pending => (SnapshotAsMemory \/ Failed("chainstate"))
      /\ "maps" \in Pending => /\ IndexAsMemory \/ Lapsed("index")
                               /\ HeadersAsMemory \/ Lapsed("headers")
                               /\ SnapshotAsMemory \/ Lapsed("chainstate")
      /\ disk.index = NoPath => "index" \in lapses
      /\ BlocksOf(Target.path) \subseteq node.known
      /\ disk.checkpoint \in {NoCheckpoint, node.checkpoint}
      /\ BlocksOf(node.path) \subseteq node.known
      /\ MatchesCheckpoint(node.path, node.checkpoint)
      /\ MatchesCheckpoint(Target.path, node.checkpoint)
  BY <1>1 DEF StorageInv, Recorded, Alive
<1>5. k = "block" => "maps" \in Pending
  BY <1>1, <1>2 DEF StorageInv, Planned
<1>6. /\ k # "index" => disk'.index = disk.index
      /\ k # "headers" => disk'.headers = disk.headers
      /\ k # "chainstate" => disk'.chainstate = disk.chainstate
      /\ disk'.checkpoint \in {disk.checkpoint, NoCheckpoint}
      /\ disk'.index \in {disk.index, NoPath}
  BY <1>1, TearEffects
<1>7. k \in {"index", "headers", "chainstate"} => k \in lapses'
  BY <1>1, TearLapses
<1>8. lapses \subseteq lapses'
  BY <1>1, TearLapses
<1> HIDE DEF k
<1>9. /\ IndexAsMemory /\ k # "index" => IndexAsMemory'
      /\ HeadersAsMemory /\ k # "headers" => HeadersAsMemory'
      /\ SnapshotAsMemory /\ k # "chainstate" => SnapshotAsMemory'
  BY <1>1, <1>6 DEF IndexAsMemory, HeadersAsMemory, SnapshotAsMemory
<1>10. "index" \notin Pending' => (IndexAsMemory' \/ Failed("index")')
  BY <1>1, <1>2, <1>3, <1>4, <1>5, <1>7, <1>9
<1>11. "headers" \notin Pending' => (HeadersAsMemory' \/ Failed("headers")')
  BY <1>1, <1>2, <1>3, <1>4, <1>5, <1>7, <1>9
<1>12. "chainstate" \notin Pending' => (SnapshotAsMemory' \/ Failed("chainstate")')
  BY <1>1, <1>2, <1>3, <1>4, <1>5, <1>7, <1>9
<1>13. "maps" \in Pending' => /\ IndexAsMemory' \/ Lapsed("index")'
                              /\ HeadersAsMemory' \/ Lapsed("headers")'
                              /\ SnapshotAsMemory' \/ Lapsed("chainstate")'
  <2> SUFFICES ASSUME "maps" \in Pending'
               PROVE  /\ IndexAsMemory' \/ Lapsed("index")'
                      /\ HeadersAsMemory' \/ Lapsed("headers")'
                      /\ SnapshotAsMemory' \/ Lapsed("chainstate")'
    OBVIOUS
  <2>1. k = "block" /\ "maps" \in Pending
    BY <1>1, <1>2, <1>3 DEF MayFollow
  <2>2. \A f : Lapsed(f) => Lapsed(f)'
    BY <1>1, <1>8 DEF Lapsed
  <2> QED
    BY <1>4, <1>9, <2>1, <2>2
<1>14. disk'.index = NoPath => "index" \in lapses'
  BY <1>1, <1>4, <1>6, <1>7, <1>8
<1>15. Target'.path \in {node.path, Target.path}
  BY <1>1
<1>16. /\ BlocksOf(Target'.path) \subseteq node'.known
       /\ disk'.checkpoint \in {NoCheckpoint, node'.checkpoint}
       /\ BlocksOf(node'.path) \subseteq node'.known
       /\ MatchesCheckpoint(node'.path, node'.checkpoint)
       /\ MatchesCheckpoint(Target'.path, node'.checkpoint)
  BY <1>1, <1>4, <1>6, <1>15
<1> QED
  BY <1>1, <1>10, <1>11, <1>12, <1>13, <1>14, <1>16 DEF Recorded

LEMMA FailStored ==
  ASSUME StorageInv, FailWrite
  PROVE  Stored'
<1> DEFINE w == Head(writes)
           k == Kind(Head(writes))
           n == Len(Target.path)
<1> SUFFICES ASSUME writes' # << >> PROVE Stored'
  BY DEF Stored
<1>1. /\ Tears /\ phase = "running" /\ phase' = "running" /\ writes # << >>
      /\ writes' = Tail(writes) /\ Target' = Target /\ Target.coins = Target.path
      /\ k \in {"block", "checkpoint", "index", "headers", "chainstate"}
      /\ \A f : Failed(f)' <=> f \in lapses'
      /\ \A f : Failed(f) => Failed(f)'
      /\ k = "block" => disk'.blocks = [disk.blocks EXCEPT ![w.at] = TornBlock]
  BY FailBasics
<1>2. /\ Queue = {w} \cup Queue' /\ Target.path \in Paths
      /\ k = "block" => w.at \in Nat /\ w.to \in Block
      /\ w \in Queue
  BY <1>1, TearBasics DEF Queue
<1>3. k = "block" => w.at < n
  BY <1>1, <1>2 DEF StorageInv, Aimed
<1>4. k # "block" => disk'.blocks = disk.blocks
  BY <1>1, TearEffects
<1>5. k = "block" => "block" \in lapses'
  BY <1>1, TearLapses
<1>6. disk.blocks \in BlockFiles /\ n \in Nat /\ (\A i \in 1..n : Target.path[i] \in Block)
  BY <1>2, Typed, PathFacts
<1>7. EndsAt(disk'.blocks, n) \/ BlockWrite(n, NoBlock) \in Queue'
  <2>1. CASE EndsAt(disk.blocks, n)
    <3>1. n \in Heights => disk'.blocks[n] = disk.blocks[n]
      BY <1>1, <1>2, <1>3, <1>4, <1>6 DEF BlockFiles
    <3> QED
      BY <2>1, <3>1 DEF EndsAt
  <2>2. CASE BlockWrite(n, NoBlock) \in Queue
    <3>1. Kind(BlockWrite(n, NoBlock)) = "removal"
      BY DEF Kind, BlockWrite
    <3>2. BlockWrite(n, NoBlock) # w
      BY <1>1, <3>1
    <3> QED
      BY <1>2, <2>2, <3>2
  <2> QED
    BY <1>1, <2>1, <2>2 DEF StorageInv, Stored
<1>8. ASSUME ~Failed("block")', NEW h \in 0..(n - 1)
      PROVE  disk'.blocks[h] = Target.coins[h + 1] \/ BlockWrite(h, Target.coins[h + 1]) \in Queue'
  <2>1. k # "block" /\ ~Failed("block")
    BY <1>1, <1>5, <1>8
  <2>2. disk.blocks[h] = Target.coins[h + 1] \/ BlockWrite(h, Target.coins[h + 1]) \in Queue
    BY <1>1, <1>8, <2>1 DEF StorageInv, Stored
  <2>3. h + 1 \in 1..n
    BY <1>6, <1>8
  <2>4. Target.coins[h + 1] \in Block
    BY <1>1, <1>6, <2>3
  <2>5. Kind(BlockWrite(h, Target.coins[h + 1])) = "block"
    BY <2>4, BlockAssumption DEF Kind, BlockWrite
  <2> QED
    BY <1>2, <1>4, <2>1, <2>2, <2>5
<1> HIDE DEF n, w, k
<1> QED
  BY <1>1, <1>7, <1>8 DEF Stored, n

LEMMA FailKeepsMemory ==
  ASSUME StorageInv, FailWrite, Calm
  PROVE  StraightMemory'
<1> DEFINE w == Head(writes)
           k == Kind(Head(writes))
<1>1. /\ Tears /\ phase = "running" /\ phase' = "running" /\ writes # << >> /\ node' = node
      /\ k \in {"block", "checkpoint", "index", "headers", "chainstate"}
      /\ Target.coins = Target.path
      /\ \/ k = "block" /\ writes' = << >> /\ Target' = [path |-> node.path, coins |-> node.coins]
         \/ /\ writes' = Tail(writes) /\ Target' = Target
            /\ k = "block" => disk'.blocks = [disk.blocks EXCEPT ![w.at] = TornBlock]
  BY FailBasics
<1>2. StraightMemory /\ Alive /\ node.path \in Seq(Block) /\ disk.blocks \in BlockFiles
  BY <1>1, Typed DEF StorageInv, Straight, Alive
<1>3. node.path \in Paths /\ Target.path \in Paths /\ Queue = {w} \cup ToSet(Tail(writes))
  BY <1>1, TearBasics
<1>4. Fits(disk.blocks, node.path) /\ Fits(disk'.blocks, node.path)
  BY <1>1, <1>2, <1>3, TornReadsLess DEF StraightMemory
<1>5. \A h \in 0..(Len(Target'.path) - 1) :
        \/ disk'.blocks[h] \in {Target'.path[h + 1], TornBlock, NoBlock}
        \/ BlockWrite(h, Target'.path[h + 1]) \in Queue'
  <2>1. CASE Target' = [path |-> node.path, coins |-> node.coins]
    BY <1>4, <2>1 DEF Fits
  <2>2. CASE /\ writes' = Tail(writes) /\ Target' = Target
             /\ k = "block" => disk'.blocks = [disk.blocks EXCEPT ![w.at] = TornBlock]
    <3> SUFFICES ASSUME NEW h \in 0..(Len(Target.path) - 1)
                 PROVE  \/ disk'.blocks[h] \in {Target.path[h + 1], TornBlock, NoBlock}
                        \/ BlockWrite(h, Target.path[h + 1]) \in ToSet(Tail(writes))
      BY <2>2 DEF Queue
    <3>1. h \in Heights /\ h + 1 \in 1..Len(Target.path) /\ Target.path[h + 1] \in Block
      BY <1>3, PathFacts
    <3>2. \/ disk.blocks[h] \in {Target.path[h + 1], TornBlock, NoBlock}
          \/ BlockWrite(h, Target.path[h + 1]) \in Queue
      BY <1>2 DEF StraightMemory
    <3>3. disk'.blocks[h] = disk.blocks[h] \/ disk'.blocks[h] = TornBlock
      BY <1>1, <3>1, TearShape
    <3>4. CASE BlockWrite(h, Target.path[h + 1]) = w
      <4>1. w.at = h /\ k = "block"
        BY <3>1, <3>4, BlockAssumption DEF Kind, BlockWrite
      <4>2. disk'.blocks[h] = TornBlock
        BY <1>2, <2>2, <3>1, <4>1 DEF BlockFiles
      <4> QED
        BY <4>2
    <3> QED
      BY <1>3, <3>2, <3>3, <3>4
  <2> QED
    BY <1>1, <2>1, <2>2
<1>6. IsPrefix(node'.path, Target'.path)
  BY <1>1, <1>2, PrefixOrder DEF StraightMemory
<1>7. "block" \notin lapses' => Holds(disk'.blocks, node'.path)
  <2> SUFFICES ASSUME "block" \notin lapses' PROVE Holds(disk'.blocks, node.path)
    BY <1>1
  <2>1. k # "block" /\ "block" \notin lapses
    BY <1>1, TearLapses
  <2>2. disk'.blocks = disk.blocks
    BY <1>1, <2>1, TearEffects
  <2> QED
    BY <1>1, <1>2, <2>1, <2>2 DEF StraightMemory
<1>8. CoinsOfPath'
  BY <1>1, <1>2, TearLapses DEF StraightMemory, CoinsOfPath
<1> QED
  BY <1>1, <1>4, <1>5, <1>6, <1>7, <1>8 DEF StraightMemory

LEMMA FailKeepsInv ==
  ASSUME StorageInv, FailWrite
  PROVE  StorageInv'
<1>1. /\ Tears /\ phase = "running" /\ phase' = "running" /\ node' = node
      /\ \/ Target' = [path |-> node.path, coins |-> node.coins]
         \/ Target' = Target
  BY FailBasics
<1>2. StorageTyped' /\ Planned' /\ Aimed' /\ Recorded' /\ Stored'
  BY FailTyped, FailPlanned, FailAimed, FailRecorded, FailStored
<1>3. Placed' /\ RefusesOnlyLaggingHeaders'
  BY <1>1, TearShape DEF RefusesOnlyLaggingHeaders
<1>4. ASSUME Calm' PROVE Straight'
  <2>1. Calm /\ FilesAtRest' /\ StraightMemory'
    BY <1>1, <1>4, TearLapses, TornAtRest, FailKeepsMemory DEF Calm
  <2>2. Straight /\ Alive
    BY <1>1, <2>1 DEF StorageInv, Alive
  <2>3. IsPrefix(disk'.index, node'.path)
    <3>1. disk'.index = disk.index \/ disk'.index = NoPath
      BY <1>1, TearEffects
    <3>2. IsPrefix(NoPath, node.path)
      <4>1. node.path \in Seq(Block) /\ NoPath \in Seq(Block) /\ Len(NoPath) = 0
        BY Typed, EmptySeq DEF NoPath
      <4>2. Len(NoPath) <= Len(node.path) /\ 1..Len(NoPath) = {}
        BY <4>1
      <4> QED
        BY <4>1, <4>2, PrefixIs
    <3>3. IsPrefix(disk.index, node.path)
      BY <1>1, <2>2 DEF Straight, StraightIndex
    <3> QED
      BY <1>1, <3>1, <3>2, <3>3
  <2>4. StraightIndex' /\ StraightHeaders' /\ StraightFiles'
    BY <1>1, <2>1, <2>3 DEF FilesAtRest, StraightIndex, StraightHeaders, StraightFiles
  <2>5. Respects(node'.path, node'.checkpoint) /\ Respects(Target'.path, node'.checkpoint)
    BY <1>1, <2>2 DEF Straight, StraightCheckpoint
  <2>6. StraightCheckpoint'
    BY <2>1, <2>5 DEF FilesAtRest, StraightCheckpoint
  <2>7. StraightSnapshot'
    BY <1>1, <2>1, TornSnapshot DEF StraightSnapshot
  <2> QED
    BY <2>1, <2>4, <2>6, <2>7 DEF Straight
<1> QED
  BY <1>2, <1>3, <1>4 DEF StorageInv

-----------------------------------------------------------------------------
(* A node between two calls                                                *)

LEMMA AtEase ==
  ASSUME StorageInv, phase = "running", writes = << >>
  PROVE  /\ Queue = {} /\ Pending = {} /\ Target = [path |-> node.path, coins |-> node.coins]
         /\ Alive /\ ~Reorganizing /\ node.path \in Paths
<1>1. Queue = {} /\ Pending = {}
  BY DEF Queue, Pending, Kinds, ToSet
<1>2. writes \in Seq(WriteType)
  BY Typed
<1> QED
  BY <1>1, <1>2, TargetOfRest DEF Target, Pending, Alive, Reorganizing, StorageInv, Planned

LEMMA LearnKeepsInv ==
  ASSUME StorageInv, NEW b \in Block, Learn(b)
  PROVE  StorageInv'
<1>1. /\ phase = "running" /\ writes = << >> /\ UNCHANGED <<disk, phase, writes, onto, lapses, mishaps>>
      /\ node' = [node EXCEPT !.known = @ \cup {b}, !.pool = @ \cup {b}]
  BY DEF Learn
<1>2. node \in [path : Paths \cup {NoPath}, coins : Seq(Block), pool : SUBSET Block,
                known : SUBSET Block, checkpoint : Marks]
  BY DEF StorageInv, StorageTyped
<1>3. /\ node'.path = node.path /\ node'.coins = node.coins /\ node'.checkpoint = node.checkpoint
      /\ node'.known = node.known \cup {b}
      /\ node' \in [path : Paths \cup {NoPath}, coins : Seq(Block), pool : SUBSET Block,
                    known : SUBSET Block, checkpoint : Marks]
  BY <1>1, <1>2
<1>4. /\ Queue = {} /\ Pending = {} /\ Target = [path |-> node.path, coins |-> node.coins]
      /\ Alive /\ ~Reorganizing /\ node.path \in Paths
  BY <1>1, AtEase
<1>5. Queue' = Queue /\ Pending' = Pending /\ Target' = Target
  BY <1>1, <1>3 DEF Queue, Pending, Target, TargetOf
<1>6. StorageTyped' /\ Placed' /\ RefusesOnlyLaggingHeaders'
  BY <1>1, <1>3 DEF StorageInv, StorageTyped, Placed, RefusesOnlyLaggingHeaders
<1>7. Planned'
  BY <1>1, <1>3, <1>4, <1>5 DEF StorageInv, Planned, Alive
<1>8. Aimed' /\ Stored'
  BY <1>1, <1>4, <1>5 DEF Aimed, Stored
<1>9. Recorded'
  BY <1>1, <1>3, <1>4, <1>5 DEF StorageInv, Recorded, Alive, IndexAsMemory, HeadersAsMemory,
       SnapshotAsMemory, Failed, Lapsed, Reorganizing
<1>10. ASSUME Calm' PROVE Straight'
  <2>1. Straight
    BY <1>1, <1>10 DEF StorageInv, Calm, Reorganizing
  <2>2. FirstBlocks(Cardinality(Heights))' = FirstBlocks(Cardinality(Heights)) /\ (Unread' <=> Unread)
    BY <1>1 DEF FirstBlocks, Readable, Unread
  <2>3. StraightIndex' /\ StraightHeaders'
    BY <1>1, <1>3, <1>5, <2>1, <2>2 DEF Straight, StraightIndex, StraightHeaders
  <2>4. StraightFiles'
    BY <1>1, <1>3, <1>5, <2>1, <2>2 DEF Straight, StraightFiles
  <2>5. StraightCheckpoint'
    BY <1>1, <1>3, <1>4, <1>5, <2>1 DEF Straight, StraightCheckpoint, Alive
  <2>6. StraightMemory'
    BY <1>1, <1>3, <1>4, <1>5, <2>1 DEF Straight, StraightMemory, CoinsOfPath, Alive
  <2>7. StraightSnapshot'
    BY <1>1, <1>3, <2>1, <2>2 DEF Straight, StraightSnapshot, Mismatched
  <2> QED
    BY <2>3, <2>4, <2>5, <2>6, <2>7 DEF Straight
<1> QED
  BY <1>6, <1>7, <1>8, <1>9, <1>10 DEF StorageInv

\* What an activation has to write, and what memory then has.
LEMMA BeginPlan ==
  ASSUME StorageInv, NEW b \in Block, BeginActivation(b)
  PROVE  /\ Chain[b] \in Paths /\ Chain[b] \in Seq(Block)
         /\ Plan(writes', Chain[b], Chain[b]) /\ writes' # << >>
         /\ {"block", "maps", "index", "headers", "chainstate"} \subseteq Pending'
         /\ Target' = [path |-> Chain[b], coins |-> Chain[b]]
<1>1. Chain[b] \in Paths /\ Chain[b] \in Seq(Block)
  BY PathFacts DEF Paths
<1>2. Plan(writes', Chain[b], Chain[b])
  BY <1>1, ActivationPlan DEF BeginActivation, StorageInv
<1>3. /\ writes' # << >> /\ {"block", "maps", "index", "headers", "chainstate"} \subseteq Pending'
      /\ \A w \in ToSet(writes') : w.file = "maps" =>
           w = [file |-> "maps", path |-> Chain[b], coins |-> Chain[b]]
      /\ writes' \in Seq(WriteType)
  BY <1>2 DEF Plan, Pending
<1> DEFINE m == [file |-> "maps", path |-> Chain[b], coins |-> Chain[b]]
<1>4. m \in ToSet(writes')
  <2>1. PICK w \in ToSet(writes') : Kind(w) = "maps"
    BY <1>3, KindsOf DEF Pending
  <2>2. w \in WriteType
    BY <1>3, <2>1 DEF ToSet
  <2>3. w.file = "maps"
    BY <2>1, <2>2, WriteFacts
  <2> QED
    BY <1>3, <2>1, <2>3
<1>5. TargetOf(writes', node') = [path |-> m.path, coins |-> m.coins]
  <2>1. m.file = "maps" /\ \A w \in ToSet(writes') : w.file = "maps" => w = m
    BY <1>3
  <2> HIDE DEF m
  <2> QED
    BY <1>4, <2>1, TargetOfPlan
<1> QED
  BY <1>1, <1>2, <1>3, <1>5 DEF Target

LEMMA BeginKeepsInv ==
  ASSUME StorageInv, NEW b \in Block, BeginActivation(b)
  PROVE  StorageInv'
<1> DEFINE p == Chain[b]
<1>1. /\ phase = "running" /\ writes = << >> /\ UNCHANGED <<disk, phase, lapses, mishaps>>
      /\ BlocksOf(p) \subseteq (node.pool \cap node.known) \cup {b}
      /\ MatchesCheckpoint(p, node.checkpoint)
      /\ node' = [node EXCEPT !.known = @ \cup {b}, !.pool = @ \cup {b}]
      /\ onto' = IF IsPrefix(node.path, p) THEN "extension" ELSE "reorg"
  BY DEF BeginActivation
<1>2. node \in [path : Paths \cup {NoPath}, coins : Seq(Block), pool : SUBSET Block,
                known : SUBSET Block, checkpoint : Marks]
  BY DEF StorageInv, StorageTyped
<1>3. /\ node'.path = node.path /\ node'.coins = node.coins /\ node'.checkpoint = node.checkpoint
      /\ node'.known = node.known \cup {b}
      /\ node' \in [path : Paths \cup {NoPath}, coins : Seq(Block), pool : SUBSET Block,
                    known : SUBSET Block, checkpoint : Marks]
  BY <1>1, <1>2
<1>4. /\ Queue = {} /\ Pending = {} /\ Target = [path |-> node.path, coins |-> node.coins]
      /\ Alive /\ ~Reorganizing /\ node.path \in Paths
  BY <1>1, AtEase
<1>5. /\ p \in Paths /\ p \in Seq(Block) /\ Plan(writes', p, p) /\ writes' # << >>
      /\ {"block", "maps", "index", "headers", "chainstate"} \subseteq Pending'
      /\ Target' = [path |-> p, coins |-> p] /\ Target'.path = p /\ Target'.coins = p
  BY BeginPlan
<1> HIDE DEF p
<1>6. /\ writes' \in Seq(WriteType) /\ InOrder(writes')
      /\ \A w \in Queue' : Kind(w) = "removal" => w.at >= Len(p)
      /\ \A w \in Queue' : Kind(w) = "block" => w.at < Len(p) /\ w.to = p[w.at + 1]
      /\ \A h \in 0..(Len(p) - 1) : BlockWrite(h, p[h + 1]) \in Queue'
      /\ EndsAt(disk.blocks, Len(p)) \/ BlockWrite(Len(p), NoBlock) \in Queue'
  BY <1>5 DEF Plan, Queue
<1>7. StorageTyped' /\ Placed' /\ RefusesOnlyLaggingHeaders'
  BY <1>1, <1>3, <1>6 DEF StorageInv, StorageTyped, Placed, RefusesOnlyLaggingHeaders
<1>8. Planned'
  BY <1>1, <1>3, <1>4, <1>5, <1>6 DEF Planned, Alive
<1>9. Aimed'
  <2>1. \A i \in 1..Len(p) : Height[p[i]] = i - 1
    BY <1>5, PathFacts
  <2> QED
    BY <1>1, <1>3, <1>5, <1>6, <2>1 DEF Aimed
<1>10. Recorded'
  <2>1. /\ IndexAsMemory' \/ Lapsed("index")'
        /\ HeadersAsMemory' \/ Lapsed("headers")'
        /\ SnapshotAsMemory' \/ Lapsed("chainstate")'
    BY <1>1, <1>3, <1>4 DEF StorageInv, Recorded, Failed, Lapsed, IndexAsMemory,
         HeadersAsMemory, SnapshotAsMemory
  <2>2. BlocksOf(Target'.path) \subseteq node'.known /\ BlocksOf(node'.path) \subseteq node'.known
    BY <1>1, <1>3, <1>5 DEF StorageInv, Recorded
  <2>3. /\ MatchesCheckpoint(node'.path, node'.checkpoint)
        /\ MatchesCheckpoint(Target'.path, node'.checkpoint)
        /\ disk'.checkpoint \in {NoCheckpoint, node'.checkpoint}
        /\ disk'.index = NoPath => "index" \in lapses'
    BY <1>1, <1>3, <1>4, <1>5 DEF StorageInv, Recorded
  <2> QED
    BY <1>1, <1>5, <2>1, <2>2, <2>3 DEF Recorded
<1>11. Stored'
  BY <1>1, <1>5, <1>6 DEF Stored
<1>12. ASSUME Calm' PROVE Straight'
  <2>1. Straight /\ IsPrefix(node.path, p)
    BY <1>1, <1>5, <1>12 DEF StorageInv, Calm, Reorganizing
  <2>2. Unread' <=> Unread
    BY <1>1 DEF Unread
  <2>3. StraightIndex' /\ StraightHeaders'
    BY <1>1, <1>3, <1>4, <2>1 DEF Straight, StraightIndex, StraightHeaders
  <2>4. StraightFiles'
    BY <1>5 DEF StraightFiles
  <2>5. Respects(p, node.checkpoint)
    BY <1>1 DEF Respects, MatchesCheckpoint
  <2>6. StraightCheckpoint'
    BY <1>1, <1>3, <1>4, <1>5, <2>1, <2>5 DEF Straight, StraightCheckpoint, Alive
  <2>7. StraightMemory'
    BY <1>1, <1>3, <1>4, <1>5, <1>6, <2>1 DEF Straight, StraightMemory, CoinsOfPath, Alive
  <2>8. StraightSnapshot'
    BY <1>1, <1>3, <2>1, <2>2 DEF Straight, StraightSnapshot, Mismatched
  <2> QED
    BY <2>3, <2>4, <2>6, <2>7, <2>8 DEF Straight
<1> QED
  BY <1>7, <1>8, <1>9, <1>10, <1>11, <1>12 DEF StorageInv

-----------------------------------------------------------------------------
(* The files are read                                                      *)

IndexWrites == <<Write("index"), Write("headers")>>
GenesisWrites == <<BlockWrite(0, Genesis), Write("index"), Write("headers")>>

\* What the constructor writes when it has made the index anew.
LEMMA LoadWrites ==
  /\ << >> \in Seq(WriteType) /\ InOrder(<< >>) /\ Kinds(<< >>) = {} /\ ToSet(<< >>) = {}
  /\ IndexWrites \in Seq(WriteType) /\ InOrder(IndexWrites)
  /\ Kinds(IndexWrites) = {"index", "headers"}
  /\ GenesisWrites \in Seq(WriteType) /\ InOrder(GenesisWrites)
  /\ Kinds(GenesisWrites) = {"block", "index", "headers"}
  /\ IndexWrites # << >> /\ GenesisWrites # << >>
<1>1. << >> \in Seq(WriteType) /\ InOrder(<< >>) /\ Kinds(<< >>) = {} /\ ToSet(<< >>) = {}
  BY EmptySeq DEF InOrder, Kinds, ToSet
<1> DEFINE b == BlockWrite(0, Genesis)
           i == Write("index")
           h == Write("headers")
<1>2. b \in WriteType /\ i \in WriteType /\ h \in WriteType
  BY BlockAssumption DEF WriteType, BlockWrite, Write
<1>3. Kind(b) = "block" /\ Kind(i) = "index" /\ Kind(h) = "headers"
  BY BlockAssumption DEF Kind, BlockWrite, Write
<1>4. IndexWrites = <<i, h>> /\ GenesisWrites = <<b, i, h>>
  BY DEF IndexWrites, GenesisWrites
<1> HIDE DEF b, i, h
<1>5. IndexWrites \in Seq(WriteType) /\ GenesisWrites \in Seq(WriteType)
  BY <1>2, <1>4
<1>6. DOMAIN IndexWrites = 1..2 /\ DOMAIN GenesisWrites = 1..3
  BY <1>4
<1>7. ToSet(IndexWrites) = {i, h} /\ ToSet(GenesisWrites) = {b, i, h}
  <2>1. /\ IndexWrites[1] = i /\ IndexWrites[2] = h
        /\ GenesisWrites[1] = b /\ GenesisWrites[2] = i /\ GenesisWrites[3] = h
    BY <1>4
  <2>2. 1..2 = {1, 2} /\ 1..3 = {1, 2, 3}
    OBVIOUS
  <2> QED
    BY <1>6, <2>1, <2>2 DEF ToSet
<1>8. Kinds(IndexWrites) = {"index", "headers"} /\ Kinds(GenesisWrites) = {"block", "index", "headers"}
  BY <1>3, <1>7 DEF Kinds
<1>9. InOrder(IndexWrites)
  <2> SUFFICES ASSUME NEW x \in 1..2, NEW y \in 1..2, x < y
               PROVE  Kind(IndexWrites[y]) \in MayFollow(Kind(IndexWrites[x]))
    BY <1>6 DEF InOrder
  <2>1. x = 1 /\ y = 2
    OBVIOUS
  <2> QED
    BY <1>3, <1>4, <2>1 DEF MayFollow
<1>10. InOrder(GenesisWrites)
  <2> SUFFICES ASSUME NEW x \in 1..3, NEW y \in 1..3, x < y
               PROVE  Kind(GenesisWrites[y]) \in MayFollow(Kind(GenesisWrites[x]))
    BY <1>6 DEF InOrder
  <2>1. (x = 1 /\ y = 2) \/ (x = 1 /\ y = 3) \/ (x = 2 /\ y = 3)
    OBVIOUS
  <2> QED
    BY <1>3, <1>4, <2>1 DEF MayFollow
<1>11. IndexWrites # << >> /\ GenesisWrites # << >>
  BY <1>4
<1> QED
  BY <1>1, <1>5, <1>8, <1>9, <1>10, <1>11

\* The three ways to an index, and what each leaves to be written.
Reads(path, known) ==
  /\ writes' = << >> /\ ~Unread
  /\ path = disk.index /\ disk.headers.state = "whole" /\ known = disk.headers.of
Rebuilds(path) ==
  /\ writes' = IndexWrites /\ Linked(path) /\ Unread
  /\ path = First(disk.blocks, Cardinality(Heights))
Creates(path) ==
  /\ writes' = GenesisWrites /\ path = <<Genesis>> /\ Unread /\ ~CanRead(disk.blocks, 0)

LEMMA LoadedKeepsInv ==
  ASSUME StorageInv, ~Alive, NEW path \in Paths, NEW known \in SUBSET Block,
         BlocksOf(path) \subseteq known, Loaded(path, known), onto' = "extension",
         UNCHANGED <<disk, lapses, mishaps>>,
         Reads(path, known) \/ Rebuilds(path) \/ Creates(path)
  PROVE  StorageInv'
<1> DEFINE all == Cardinality(Heights)
<1>1. /\ node' = [path |-> path, coins |-> NoPath, pool |-> {}, known |-> known,
                  checkpoint |-> disk.checkpoint]
      /\ phase' = "loaded" /\ Alive' /\ ~Reorganizing'
  BY DEF Loaded, Nothing, Alive, Reorganizing
<1>2. /\ node'.path = path /\ node'.coins = NoPath /\ node'.known = known
      /\ node'.checkpoint = disk.checkpoint
  BY <1>1
<1>3. /\ disk.blocks \in BlockFiles /\ disk.checkpoint \in Marks /\ NoPath \in Seq(Block)
      /\ path \in Seq(Block) /\ Len(path) \in Nat \ {0} /\ path # NoPath
  BY Typed, EmptySeq, PathFacts DEF NoPath
<1>4. \/ writes' = << >> /\ Pending' = {} /\ Queue' = {}
      \/ writes' = IndexWrites /\ Pending' = {"index", "headers"}
      \/ writes' = GenesisWrites /\ Pending' = {"block", "index", "headers"}
  BY LoadWrites DEF Reads, Rebuilds, Creates, Pending, Queue
<1>5. writes' \in Seq(WriteType) /\ InOrder(writes') /\ (writes' # << >> <=> Pending' # {})
  BY <1>4, LoadWrites
<1>6. Target' = [path |-> path, coins |-> NoPath] /\ Target'.path = path
  BY <1>2, <1>4, <1>5, TargetOfRest DEF Target, Pending
<1>7. "block" \in Pending' => Creates(path)
  BY LoadWrites DEF Reads, Rebuilds, Creates, Pending
<1>8. Rebuilds(path) => IsRead(path, disk.blocks, all) /\ CanRead(disk.blocks, 0)
  <2> SUFFICES ASSUME Rebuilds(path)
               PROVE  IsRead(path, disk.blocks, all) /\ CanRead(disk.blocks, 0)
    OBVIOUS
  <2>1. all \in Nat
    BY HeightsShape
  <2>2. IsRead(path, disk.blocks, all)
    BY <1>3, <2>1, FirstIsRead DEF Rebuilds, StorageInv, Placed
  <2>3. 0 \in 0..(Len(path) - 1)
    BY <1>3
  <2> QED
    BY <2>2, <2>3 DEF IsRead
<1>9. StorageTyped'
  BY <1>1, <1>3, <1>5 DEF StorageInv, StorageTyped
<1>10. Placed' /\ RefusesOnlyLaggingHeaders'
  BY <1>1 DEF StorageInv, Placed, RefusesOnlyLaggingHeaders
<1>11. Planned'
  BY <1>1, <1>2, <1>4, <1>5 DEF Planned
<1>12. Aimed'
  <2>1. \A w \in Queue' : Kind(w) # "removal"
    BY <1>4 DEF Pending, Kinds, Queue
  <2>2. "block" \in Pending' =>
          /\ writes' = <<BlockWrite(0, Genesis), Write("index"), Write("headers")>>
          /\ node'.path = <<Genesis>> /\ Unread' /\ ~CanRead(disk'.blocks, 0)
    BY <1>2, <1>7 DEF Creates, GenesisWrites, Unread
  <2>3. writes' # << >> /\ "block" \notin Pending' => CanRead(disk'.blocks, 0)
    BY <1>4, <1>8, LoadWrites DEF Reads, Rebuilds, Creates
  <2> QED
    BY <1>1, <2>1, <2>2, <2>3 DEF Aimed
<1>13. Recorded'
  <2>1. "index" \notin Pending' => IndexAsMemory'
    BY <1>2, <1>4, LoadWrites DEF Reads, Rebuilds, Creates, IndexAsMemory
  <2>2. "headers" \notin Pending' => HeadersAsMemory'
    BY <1>2, <1>4, LoadWrites DEF Reads, Rebuilds, Creates, HeadersAsMemory
  <2>3. "maps" \notin Pending'
    BY <1>4
  <2>4. disk'.index = NoPath => "index" \in lapses'
    BY DEF StorageInv, Recorded
  <2> QED
    BY <1>1, <1>2, <1>6, <2>1, <2>2, <2>3, <2>4 DEF Recorded
<1>14. Stored'
  BY <1>1 DEF Stored
<1>15. ASSUME Calm' PROVE Straight'
  <2>1. FilesAtRest
    <3>1. Calm /\ writes = << >>
      BY <1>15 DEF Calm, Reorganizing, Alive, StorageInv, Planned
    <3> QED
      BY <3>1, StillAtRest
  <2>2. Unread' <=> Unread
    BY DEF Unread
  <2>3. Fits(disk.blocks, path)
    <3>1. CASE Reads(path, known)
      BY <2>1, <3>1 DEF Reads, FilesAtRest
    <3>2. CASE Rebuilds(path)
      BY <1>8, <3>2 DEF Fits, IsRead
    <3>3. CASE Creates(path)
      <4>1. disk.blocks[0] \in {NoBlock, TornBlock} /\ Len(path) = 1
        BY <3>3 DEF Creates, CanRead
      <4> QED
        BY <4>1 DEF Fits
    <3> QED
      BY <3>1, <3>2, <3>3
  <2>4. Respects(path, disk.checkpoint)
    <3>1. CASE Reads(path, known)
      BY <2>1, <3>1 DEF Reads, FilesAtRest
    <3>2. CASE Rebuilds(path)
      <4> SUFFICES ASSUME disk.checkpoint # NoCheckpoint, disk.checkpoint.height < Len(path)
                   PROVE  path[disk.checkpoint.height + 1] = disk.checkpoint.hash
        BY DEF Respects
      <4>1. disk.checkpoint.height \in 0..(Len(path) - 1)
        BY <1>3, MarkFacts
      <4>2. /\ CanRead(disk.blocks, disk.checkpoint.height)
            /\ disk.blocks[disk.checkpoint.height] = path[disk.checkpoint.height + 1]
        BY <1>8, <3>2, <4>1 DEF IsRead
      <4> QED
        BY <2>1, <4>2 DEF FilesAtRest, CanRead
    <3>3. CASE Creates(path)
      <4> SUFFICES ASSUME disk.checkpoint # NoCheckpoint, disk.checkpoint.height < Len(path)
                   PROVE  path[disk.checkpoint.height + 1] = disk.checkpoint.hash
        BY DEF Respects
      <4>1. Len(path) = 1 /\ path[1] = Genesis
        BY <3>3 DEF Creates
      <4>2. disk.checkpoint.height = 0 /\ disk.checkpoint.hash = Genesis
        BY <1>3, <4>1, MarkFacts
      <4> QED
        BY <4>1, <4>2
    <3> QED
      BY <3>1, <3>2, <3>3
  <2>5. StraightIndex'
    BY <1>1, <2>1 DEF FilesAtRest, StraightIndex
  <2>6. StraightHeaders'
    BY <2>1 DEF FilesAtRest, StraightHeaders
  <2>7. StraightFiles'
    <3>1. FirstBlocks(all)' = First(disk.blocks, all)
      BY DEF FirstBlocks, First, Readable, CanRead
    <3>2. Creates(path) => "block" \in Pending'
      BY <1>4, LoadWrites DEF Creates
    <3>3. Reads(path, known) => disk.index # NoPath /\ "index" \notin Pending'
      BY <1>4, LoadWrites DEF Reads, Unread
    <3>4. Rebuilds(path) => Linked(First(disk.blocks, all))
      BY DEF Rebuilds
    <3> HIDE DEF all
    <3>5. Rebuilds(path) => Linked(FirstBlocks(all))'
      BY <3>1, <3>4 DEF Linked
    <3> QED
      BY <1>1, <3>2, <3>3, <3>5 DEF StraightFiles, all
  <2>8. StraightCheckpoint'
    BY <1>1, <1>2, <1>6, <2>1, <2>4 DEF FilesAtRest, StraightCheckpoint
  <2>9. StraightMemory'
    BY <1>1, <1>2, <1>6, <2>3 DEF StraightMemory, Fits
  <2>10. StraightSnapshot'
    BY <1>1, <2>1, <2>2 DEF FilesAtRest, StraightSnapshot, Mismatched
  <2> QED
    BY <2>5, <2>6, <2>7, <2>8, <2>9, <2>10 DEF Straight
<1> QED
  BY <1>9, <1>10, <1>11, <1>12, <1>13, <1>14, <1>15 DEF StorageInv

LEMMA LoadKeepsInv ==
  ASSUME StorageInv, Load
  PROVE  StorageInv'
<1> DEFINE all == Cardinality(Heights)
           rebuilt == FirstBlocks(Cardinality(Heights))
<1>1. /\ phase \in {"down", "refused"} /\ ~Alive /\ writes = << >>
      /\ UNCHANGED <<disk, lapses, mishaps>> /\ onto' = "extension"
      /\ IF Unread /\ rebuilt # NoPath THEN Rebuild(rebuilt)
         ELSE IF disk.headers.state = "cut" THEN Refuse
         ELSE IF Unread THEN CreateGenesis
         ELSE IF BlocksOf(disk.index) \subseteq disk.headers.of
         THEN Loaded(disk.index, disk.headers.of) /\ UNCHANGED writes
         ELSE Refuse
  BY DEF Load, Alive, StorageInv, Planned
<1>2. /\ disk.blocks \in BlockFiles /\ WellPlaced(disk.blocks) /\ all \in Nat
      /\ disk.index \in Paths \cup {NoPath} /\ disk.headers.of \in SUBSET Block
      /\ disk.headers.state \in {"whole", "empty", "cut"}
  BY Typed, HeightsShape DEF StorageInv, StorageTyped, Placed
<1>3. rebuilt = First(disk.blocks, all) /\ IsRead(rebuilt, disk.blocks, all)
  BY <1>2, ReadsFiles, FirstIsRead
<1> HIDE DEF rebuilt
<1>4. ASSUME Refuse,
             \/ Unread /\ rebuilt # NoPath /\ ~Linked(rebuilt)
             \/ disk.headers.state = "cut"
             \/ ~Unread /\ ~(BlocksOf(disk.index) \subseteq disk.headers.of)
      PROVE  StorageInv'
  <2>1. RefusesOnlyLaggingHeaders'
    <3> SUFFICES ASSUME "reorg" \notin lapses, "headers" \notin lapses
                 PROVE  {"index", "block"} \subseteq lapses
      BY <1>1 DEF RefusesOnlyLaggingHeaders
    <3>1. Calm
      BY <1>1 DEF Calm, Reorganizing
    <3>2. FilesAtRest
      BY <1>1, <3>1, StillAtRest
    <3>3. disk.headers.state = "whole" /\ BlocksOf(disk.index) \subseteq disk.headers.of
      BY <3>2 DEF FilesAtRest
    <3>4. Unread /\ ~Linked(rebuilt)
      BY <1>4, <3>3
    <3>5. disk.index = NoPath
      BY <3>3, <3>4 DEF Unread
    <3>6. "index" \in lapses
      BY <3>5 DEF StorageInv, Recorded
    <3>7. "block" \in lapses
      BY <3>2, <3>4, <3>5 DEF FilesAtRest, rebuilt
    <3> QED
      BY <3>6, <3>7
  <2>2. node' = Nothing /\ phase' = "refused" /\ writes' = << >>
    BY <1>1, <1>4 DEF Refuse
  <2> QED
    BY <1>1, <2>1, <2>2, LeaveKeepsInv
<1>5. CASE Unread /\ rebuilt # NoPath
  <2>1. Rebuild(rebuilt)
    BY <1>1, <1>5
  <2>2. CASE ~Linked(rebuilt)
    BY <1>4, <1>5, <2>1, <2>2 DEF Rebuild
  <2>3. CASE Linked(rebuilt)
    <3>1. Loaded(rebuilt, BlocksOf(rebuilt)) /\ writes' = IndexWrites
      BY <2>1, <2>3 DEF Rebuild, IndexWrites
    <3>2. rebuilt \in Seq(Block) /\ \A i \in 1..Len(rebuilt) : Height[rebuilt[i]] = i - 1
      BY <1>3 DEF IsRead
    <3>3. rebuilt \in Paths
      BY <1>5, <2>3, <3>2, LinkedIsPath DEF NoPath
    <3>4. BlocksOf(rebuilt) \in SUBSET Block
      BY <3>3, PathFacts
    <3>5. Rebuilds(rebuilt)
      BY <1>3, <1>5, <2>3, <3>1 DEF Rebuilds
    <3> QED
      BY <1>1, <3>1, <3>3, <3>4, <3>5, LoadedKeepsInv
  <2> QED
    BY <2>2, <2>3
<1>6. CASE Unread /\ rebuilt = NoPath
  <2>1. CASE disk.headers.state = "cut"
    BY <1>1, <1>4, <1>6, <2>1
  <2>2. CASE disk.headers.state # "cut"
    <3>1. Loaded(<<Genesis>>, {Genesis}) /\ writes' = GenesisWrites
      BY <1>1, <1>6, <2>2 DEF CreateGenesis, GenesisWrites
    <3>2. <<Genesis>> \in Paths /\ {Genesis} \in SUBSET Block /\ BlocksOf(<<Genesis>>) \subseteq {Genesis}
      BY GenesisPath, BlockAssumption DEF BlocksOf
    <3>3. ~CanRead(disk.blocks, 0)
      <4>1. Len(rebuilt) = 0 /\ 0 < all
        BY <1>6, HeightsShape DEF NoPath
      <4> QED
        BY <1>3, <4>1 DEF IsRead
    <3>4. Creates(<<Genesis>>)
      BY <1>6, <3>1, <3>3 DEF Creates
    <3> QED
      BY <1>1, <3>1, <3>2, <3>4, LoadedKeepsInv
  <2> QED
    BY <2>1, <2>2
<1>7. CASE ~Unread
  <2>1. CASE disk.headers.state = "cut"
    BY <1>1, <1>4, <1>7, <2>1
  <2>2. CASE disk.headers.state # "cut" /\ BlocksOf(disk.index) \subseteq disk.headers.of
    <3>1. Loaded(disk.index, disk.headers.of) /\ writes' = << >>
      BY <1>1, <1>7, <2>2
    <3>2. disk.index \in Paths /\ disk.headers.state = "whole"
      BY <1>2, <1>7, <2>2 DEF Unread
    <3>3. Reads(disk.index, disk.headers.of)
      BY <1>7, <3>1, <3>2 DEF Reads
    <3> QED
      BY <1>1, <1>2, <2>2, <3>1, <3>2, <3>3, LoadedKeepsInv
  <2>3. CASE disk.headers.state # "cut" /\ ~(BlocksOf(disk.index) \subseteq disk.headers.of)
    BY <1>1, <1>4, <1>7, <2>3
  <2> QED
    BY <2>1, <2>2, <2>3
<1> QED
  BY <1>5, <1>6, <1>7

-----------------------------------------------------------------------------
(* The UTXO set is made, and the chain repaired                            *)

\* The blocks that are read under a path that the height files agree with.
LEMMA ReadAlong ==
  ASSUME NEW blockAt \in BlockFiles, WellPlaced(blockAt), NEW p \in Paths
  PROVE  /\ IsRead(First(blockAt, Len(p)), blockAt, Len(p))
         /\ Fits(blockAt, p) =>
              /\ \A i \in 1..Len(First(blockAt, Len(p))) : First(blockAt, Len(p))[i] = p[i]
              /\ Complete(blockAt, p) => First(blockAt, Len(p)) = p
         /\ Len(First(blockAt, Len(p))) = Len(p) => Complete(blockAt, p)
<1> DEFINE c == First(blockAt, Len(p))
<1>1. Len(p) \in 0..Cardinality(Heights) /\ p \in Seq(Block) /\ Len(p) \in Nat \ {0}
  <2>1. Len(p) \in Nat \ {0} /\ p \in Seq(Block) /\ \A h \in 0..(Len(p) - 1) : h \in Heights
    BY PathFacts
  <2>2. Len(p) - 1 \in Heights
    BY <2>1
  <2> QED
    BY <2>1, <2>2, HeightsShape
<1>2. IsRead(c, blockAt, Len(p))
  BY <1>1, FirstIsRead
<1> HIDE DEF c
<1>3. /\ c \in Seq(Block) /\ Len(c) \in 0..Len(p)
      /\ \A i \in 1..Len(c) : c[i] = blockAt[i - 1] /\ CanRead(blockAt, i - 1)
      /\ \A h \in 0..(Len(c) - 1) : CanRead(blockAt, h)
      /\ Len(c) < Len(p) => ~CanRead(blockAt, Len(c))
  <2>1. \A i \in 1..Len(c) : i - 1 \in 0..(Len(c) - 1)
    BY <1>1, <1>2 DEF IsRead
  <2> QED
    BY <1>2, <2>1 DEF IsRead
<1>4. Len(c) = Len(p) => Complete(blockAt, p)
  BY <1>3 DEF Complete
<1>5. ASSUME Fits(blockAt, p) PROVE \A i \in 1..Len(c) : c[i] = p[i]
  <2> TAKE i \in 1..Len(c)
  <2>1. i - 1 \in 0..(Len(p) - 1) /\ (i - 1) + 1 = i
    BY <1>1, <1>3
  <2>2. blockAt[i - 1] \in {p[i], TornBlock, NoBlock}
    BY <1>5, <2>1 DEF Fits
  <2> QED
    BY <1>3, <2>2 DEF CanRead
<1>6. ASSUME Fits(blockAt, p), Complete(blockAt, p) PROVE c = p
  <2>1. Len(c) = Len(p)
    <3>1. Len(c) < Len(p) => Len(c) \in 0..(Len(p) - 1)
      BY <1>1, <1>3
    <3> QED
      BY <1>1, <1>3, <1>6, <3>1 DEF Complete
  <2> QED
    BY <1>1, <1>3, <1>5, <1>6, <2>1
<1> QED
  BY <1>2, <1>4, <1>5, <1>6 DEF c

LEMMA ReplayKeepsInv ==
  ASSUME StorageInv, Replay
  PROVE  StorageInv'
<1>1. /\ phase = "loaded" /\ writes = << >> /\ phase' = "replayed"
      /\ UNCHANGED <<disk, onto, lapses, mishaps>>
      /\ node' = [node EXCEPT !.coins = IF SnapshotCurrent THEN disk.chainstate.coins
                                        ELSE FirstBlocks(Len(node.path))]
      /\ writes' = IF SnapshotCurrent THEN << >> ELSE <<Write("chainstate")>>
  BY DEF Replay
<1>2. /\ node \in [path : Paths \cup {NoPath}, coins : Seq(Block), pool : SUBSET Block,
                   known : SUBSET Block, checkpoint : Marks]
      /\ disk.chainstate \in [path : Paths \cup {NoPath}, coins : Seq(Block)]
      /\ disk.blocks \in BlockFiles /\ WellPlaced(disk.blocks)
  BY Typed DEF StorageInv, StorageTyped, Placed
<1>3. Queue = {} /\ Pending = {} /\ Alive /\ Alive' /\ node.path \in Paths
  BY <1>1, LoadWrites DEF Queue, Pending, Alive, StorageInv, Planned
<1>4. Target.path = node.path
  BY <1>3, Typed, TargetOfRest DEF Target, Pending
<1> DEFINE c == FirstBlocks(Len(node.path))
<1>5. /\ c = First(disk.blocks, Len(node.path)) /\ c \in Seq(Block)
      /\ Fits(disk.blocks, node.path) /\ Complete(disk.blocks, node.path) => c = node.path
  BY <1>2, <1>3, ReadsFiles, ReadAlong DEF IsRead
<1> HIDE DEF c
<1>6. /\ node'.path = node.path /\ node'.known = node.known /\ node'.checkpoint = node.checkpoint
      /\ node'.coins = (IF SnapshotCurrent THEN disk.chainstate.coins ELSE c)
      /\ node' \in [path : Paths \cup {NoPath}, coins : Seq(Block), pool : SUBSET Block,
                    known : SUBSET Block, checkpoint : Marks]
  BY <1>1, <1>2, <1>5 DEF c
<1>7. /\ writes' \in Seq(WriteType) /\ InOrder(writes') /\ Pending' \subseteq {"chainstate"}
      /\ "chainstate" \notin Pending' => SnapshotCurrent
      /\ \A w \in Queue' : Kind(w) = "chainstate"
  <2>1. CASE SnapshotCurrent
    BY <1>1, <2>1, LoadWrites DEF Pending, Queue
  <2>2. CASE ~SnapshotCurrent
    <3> DEFINE w == Write("chainstate")
    <3>1. w \in WriteType /\ Kind(w) = "chainstate"
      BY DEF WriteType, Write, Kind
    <3>2. writes' = <<w>>
      BY <1>1, <2>2
    <3> HIDE DEF w
    <3>3. writes' \in Seq(WriteType) /\ DOMAIN writes' = 1..1 /\ writes'[1] = w
      BY <3>1, <3>2
    <3>4. Queue' = {w}
      BY <3>3 DEF Queue, ToSet
    <3>5. Pending' = {"chainstate"}
      BY <3>1, <3>4 DEF Pending, Kinds, Queue
    <3>6. InOrder(writes')
      BY <3>3 DEF InOrder
    <3> QED
      BY <3>1, <3>3, <3>4, <3>5, <3>6
  <2> QED
    BY <2>1, <2>2
<1>8. Target'.path = node.path
  BY <1>6, <1>7, TargetOfRest DEF Target, Pending
<1>9. StorageTyped' /\ Placed' /\ RefusesOnlyLaggingHeaders'
  BY <1>1, <1>6, <1>7 DEF StorageInv, StorageTyped, Placed, RefusesOnlyLaggingHeaders
<1>10. Planned'
  BY <1>1, <1>3, <1>6, <1>7 DEF Planned
<1>11. Aimed'
  BY <1>1, <1>7 DEF Aimed
<1>12. Recorded'
  <2>1. IndexAsMemory' /\ HeadersAsMemory'
    BY <1>1, <1>3, <1>6 DEF StorageInv, Recorded, Failed, Lapsed, IndexAsMemory, HeadersAsMemory
  <2>2. "chainstate" \notin Pending' => SnapshotAsMemory'
    BY <1>1, <1>2, <1>6, <1>7 DEF SnapshotAsMemory, SnapshotCurrent
  <2>3. /\ disk'.index = NoPath => "index" \in lapses'
        /\ BlocksOf(Target'.path) \subseteq node'.known
        /\ disk'.checkpoint \in {NoCheckpoint, node'.checkpoint}
    BY <1>1, <1>3, <1>4, <1>6, <1>8 DEF StorageInv, Recorded
  <2> QED
    BY <1>1, <1>7, <2>1, <2>2, <2>3 DEF Recorded
<1>13. Stored'
  BY <1>1 DEF Stored
<1>14. ASSUME Calm' PROVE Straight'
  <2>1. Straight
    BY <1>1, <1>14 DEF StorageInv, Calm, Reorganizing
  <2>2. FirstBlocks(Cardinality(Heights))' = FirstBlocks(Cardinality(Heights)) /\ (Unread' <=> Unread)
    BY <1>1 DEF FirstBlocks, Readable, Unread
  <2>3. StraightIndex' /\ StraightHeaders'
    BY <1>1, <1>3, <2>1 DEF Straight, StraightIndex, StraightHeaders
  <2>4. StraightFiles'
    BY <1>1, <1>3, <2>1, <2>2 DEF Straight, StraightFiles, Linked
  <2>5. StraightCheckpoint'
    BY <1>1, <1>3, <1>4, <1>6, <1>8, <2>1 DEF Straight, StraightCheckpoint
  <2>6. Fits(disk.blocks, node.path)
    BY <1>3, <2>1 DEF Straight, StraightMemory
  <2>7. CoinsOfPath' \/ ~Complete(disk.blocks, node.path)
    <3>1. CASE SnapshotCurrent
      BY <1>1, <1>6, <2>1, <3>1 DEF Straight, StraightSnapshot, Mismatched, SnapshotCurrent, CoinsOfPath
    <3>2. CASE ~SnapshotCurrent
      BY <1>5, <1>6, <2>6, <3>2 DEF CoinsOfPath
    <3> QED
      BY <3>1, <3>2
  <2>8. StraightMemory'
    BY <1>1, <1>6, <1>8, <2>6, <2>7 DEF StraightMemory, Fits
  <2>9. StraightSnapshot'
    BY <1>1, <2>1, <2>2 DEF Straight, StraightSnapshot, Mismatched
  <2> QED
    BY <2>3, <2>4, <2>5, <2>8, <2>9 DEF Straight
<1> QED
  BY <1>9, <1>10, <1>11, <1>12, <1>13, <1>14 DEF StorageInv

\* What a repair finds: a chain that is whole or not there at all, or the part of
\* it that is to be kept.
LEMMA RepairFinds ==
  ASSUME StorageInv, phase = "replayed"
  PROVE  LET n == ValidPrefix IN
         /\ n \in 0..Len(node.path)
         /\ n = 0 => ~CanRead(disk.blocks, 0)
         /\ n = Len(node.path) => Complete(disk.blocks, node.path)
         /\ \A h \in 0..(n - 1) : CanRead(disk.blocks, h)
<1> DEFINE c == FirstBlocks(Len(node.path))
           n == ValidPrefix
<1>1. node.path \in Paths /\ disk.blocks \in BlockFiles /\ WellPlaced(disk.blocks)
  BY Typed DEF StorageInv, Placed, Planned, Alive
<1>2. /\ c = First(disk.blocks, Len(node.path)) /\ IsRead(c, disk.blocks, Len(node.path))
      /\ Len(c) = Len(node.path) => Complete(disk.blocks, node.path)
  BY <1>1, ReadsFiles, ReadAlong
<1>3. Len(node.path) \in Nat \ {0}
  BY <1>1, PathFacts
<1>4. n = Cardinality({m \in 1..Len(c) : Linked(SubSeq(c, 1, m))})
  BY DEF ValidPrefix
<1> HIDE DEF c, n
<1>5. c \in Seq(Block) /\ Len(c) \in 0..Len(node.path)
      /\ (\A h \in 0..(Len(c) - 1) : CanRead(disk.blocks, h))
      /\ (Len(c) < Len(node.path) => ~CanRead(disk.blocks, Len(c)))
  BY <1>2 DEF IsRead
<1>6. n \in 0..Len(c) /\ (n = 0 => c = << >>)
  BY <1>4, <1>5, ValidPrefixShape
<1>7. n = 0 => ~CanRead(disk.blocks, 0)
  BY <1>3, <1>5, <1>6
<1>8. n \in 0..Len(node.path) /\ (n = Len(node.path) => Len(c) = Len(node.path))
  BY <1>3, <1>5, <1>6
<1>9. \A h \in 0..(n - 1) : CanRead(disk.blocks, h)
  BY <1>3, <1>5, <1>6
<1> QED
  BY <1>2, <1>7, <1>8, <1>9 DEF n

\* The files are as the constructor read them, and what it read is in memory.
LEMMA ReplayedFiles ==
  ASSUME StorageInv, phase \in {"replayed", "repaired"}, writes = << >>
  PROVE  /\ Queue = {} /\ Pending = {} /\ Alive /\ node.path \in Paths
         /\ Target.path = node.path
         /\ IndexAsMemory /\ HeadersAsMemory /\ SnapshotAsMemory
         /\ disk.headers.state = "whole" /\ disk.index = node.path /\ ~Unread
         /\ disk.chainstate.path = node.path /\ disk.chainstate.coins = node.coins
         /\ BlocksOf(node.path) \subseteq disk.headers.of
         /\ disk.checkpoint \in {NoCheckpoint, node.checkpoint}
         /\ BlocksOf(node.path) \subseteq node.known
         /\ disk.blocks \in BlockFiles /\ WellPlaced(disk.blocks)
<1>1. Queue = {} /\ Pending = {} /\ Alive /\ node.path \in Paths
  BY LoadWrites DEF Queue, Pending, Alive, StorageInv, Planned
<1>2. Target.path = node.path
  <2>1. writes \in Seq(WriteType)
    BY Typed
  <2>2. TargetOf(writes, node) = [path |-> node.path, coins |-> node.coins]
    BY <1>1, <2>1, TargetOfRest DEF Pending
  <2> QED
    BY <2>2 DEF Target
<1>3. /\ IndexAsMemory /\ HeadersAsMemory /\ SnapshotAsMemory
      /\ disk.checkpoint \in {NoCheckpoint, node.checkpoint}
      /\ BlocksOf(node.path) \subseteq node.known
  BY <1>1, <1>2 DEF StorageInv, Recorded, Failed, Lapsed
<1>4. node.path # NoPath
  BY <1>1, PathFacts
<1> QED
  BY <1>1, <1>2, <1>3, <1>4, Typed DEF IndexAsMemory, HeadersAsMemory, SnapshotAsMemory, Unread,
     StorageInv, Placed

\* The chain is as long as its height files say, or there is none of it.
LEMMA RepairLeaves ==
  ASSUME StorageInv, phase = "replayed", writes = << >>, writes' = << >>, phase' = "repaired",
         UNCHANGED <<disk, onto, mishaps>>, lapses' \in {lapses, lapses \cup {"unrepaired"}},
         NEW pool \in SUBSET Block, node' = [node EXCEPT !.pool = pool],
         Complete(disk.blocks, node.path) \/ (~CanRead(disk.blocks, 0) /\ CoinsOfPath')
  PROVE  StorageInv'
<1>1. node \in [path : Paths \cup {NoPath}, coins : Seq(Block), pool : SUBSET Block,
                known : SUBSET Block, checkpoint : Marks]
  BY DEF StorageInv, StorageTyped
<1>2. /\ node'.path = node.path /\ node'.known = node.known /\ node'.checkpoint = node.checkpoint
      /\ node'.coins = node.coins
      /\ node' \in [path : Paths \cup {NoPath}, coins : Seq(Block), pool : SUBSET Block,
                    known : SUBSET Block, checkpoint : Marks]
  BY <1>1
<1>3. /\ Queue = {} /\ Pending = {} /\ Alive /\ node.path \in Paths /\ Target.path = node.path
      /\ IndexAsMemory /\ HeadersAsMemory /\ SnapshotAsMemory
      /\ disk.checkpoint \in {NoCheckpoint, node.checkpoint}
      /\ BlocksOf(node.path) \subseteq node.known
  BY ReplayedFiles
<1>4. /\ Queue' = {} /\ Pending' = {} /\ Target' = Target /\ Alive' /\ ~Reorganizing'
  BY <1>2, <1>3 DEF Queue, Pending, Target, TargetOf, Alive, Reorganizing
<1>5. StorageTyped' /\ Placed' /\ RefusesOnlyLaggingHeaders'
  BY <1>2 DEF StorageInv, StorageTyped, Placed, RefusesOnlyLaggingHeaders
<1>6. Planned' /\ Aimed' /\ Stored'
  <2>1. InOrder(writes')
    BY DEF InOrder
  <2> QED
    BY <1>2, <1>3, <1>4, <2>1 DEF Planned, Aimed, Stored
<1>7. Recorded'
  <2>1. IndexAsMemory' /\ HeadersAsMemory' /\ SnapshotAsMemory'
    BY <1>2, <1>3 DEF IndexAsMemory, HeadersAsMemory, SnapshotAsMemory
  <2>2. disk'.index = NoPath => "index" \in lapses'
    BY DEF StorageInv, Recorded
  <2> QED
    BY <1>2, <1>3, <1>4, <2>1, <2>2 DEF Recorded
<1>8. ASSUME Calm' PROVE Straight'
  <2>1. Straight
    BY <1>8 DEF StorageInv, Calm, Reorganizing
  <2>2. FirstBlocks(Cardinality(Heights))' = FirstBlocks(Cardinality(Heights)) /\ (Unread' <=> Unread)
    BY DEF FirstBlocks, Readable, Unread
  <2>3. StraightIndex' /\ StraightHeaders'
    BY <1>3, <1>4, <2>1 DEF Straight, StraightIndex, StraightHeaders
  <2>4. StraightFiles'
    BY <1>3, <1>4, <2>1, <2>2 DEF Straight, StraightFiles, Linked
  <2>5. StraightCheckpoint'
    BY <1>2, <1>3, <1>4, <2>1 DEF Straight, StraightCheckpoint
  <2>6. IsPrefix(node.path, node.path)
    BY Typed, PrefixOrder
  <2>7. CoinsOfPath'
    BY <1>2, <2>1 DEF Straight, StraightMemory, CoinsOfPath
  <2>8. StraightMemory'
    BY <1>2, <1>3, <1>4, <2>1, <2>6, <2>7 DEF Straight, StraightMemory
  <2>9. StraightSnapshot'
    BY <1>2, <2>1, <2>2 DEF Straight, StraightSnapshot, Mismatched
  <2> QED
    BY <2>3, <2>4, <2>5, <2>8, <2>9 DEF Straight
<1> QED
  BY <1>5, <1>6, <1>7, <1>8 DEF StorageInv

\* The writes of a repair, and what memory then has.
LEMMA RepairPlan ==
  ASSUME StorageInv, phase = "replayed", writes = << >>,
         NEW n \in 1..(Len(node.path) - 1), \A h \in 0..(n - 1) : CanRead(disk.blocks, h),
         writes' = ActivationWrites(SubSeq(node.path, 1, n), FirstBlocks(n))
  PROVE  LET kept == SubSeq(node.path, 1, n)
             content == FirstBlocks(n)
         IN  /\ kept \in Paths /\ Len(kept) = n /\ IsPrefix(kept, node.path)
             /\ \A i \in 1..n : kept[i] = node.path[i]
             /\ BlocksOf(kept) \subseteq BlocksOf(node.path)
             /\ content \in Seq(Block) /\ Len(content) = n
             /\ \A i \in 1..n : content[i] = disk.blocks[i - 1] /\ Height[content[i]] = i - 1
             /\ Fits(disk.blocks, node.path) => content = kept
             /\ Plan(writes', kept, content) /\ writes' # << >>
             /\ {"block", "maps", "index", "headers", "chainstate"} \subseteq Pending'
             /\ Target' = [path |-> kept, coins |-> content]
<1> DEFINE kept == SubSeq(node.path, 1, n)
           content == FirstBlocks(n)
<1>1. node.path \in Paths /\ disk.blocks \in BlockFiles /\ WellPlaced(disk.blocks)
  BY ReplayedFiles
<1>2. n \in 1..Len(node.path) /\ Len(node.path) \in Nat /\ n \in Nat \ {0}
  BY <1>1, PathFacts
<1>3. /\ kept \in Paths /\ Len(kept) = n /\ IsPrefix(kept, node.path)
      /\ \A i \in 1..n : kept[i] = node.path[i]
      /\ BlocksOf(kept) \subseteq BlocksOf(node.path)
  BY <1>1, <1>2, PathPrefix
<1> HIDE DEF kept
<1>4. /\ content = First(disk.blocks, n) /\ IsRead(content, disk.blocks, n)
      /\ Fits(disk.blocks, kept) /\ Complete(disk.blocks, kept) => content = kept
  BY <1>1, <1>3, ReadsFiles, ReadAlong
<1> HIDE DEF content
<1>5. /\ content \in Seq(Block) /\ Len(content) = n
      /\ \A i \in 1..n : content[i] = disk.blocks[i - 1] /\ Height[content[i]] = i - 1
  <2>1. Len(content) \in 0..n /\ (Len(content) < n => ~CanRead(disk.blocks, Len(content)))
    BY <1>4 DEF IsRead
  <2>2. Len(content) < n => Len(content) \in 0..(n - 1)
    BY <1>2, <2>1
  <2>3. Len(content) = n
    BY <1>2, <2>1, <2>2
  <2> QED
    BY <1>4, <2>3 DEF IsRead
<1>6. ASSUME Fits(disk.blocks, node.path) PROVE content = kept
  <2>1. Complete(disk.blocks, kept)
    BY <1>3 DEF Complete
  <2>2. Fits(disk.blocks, kept)
    <3> SUFFICES ASSUME NEW h \in 0..(n - 1)
                 PROVE  disk.blocks[h] \in {kept[h + 1], TornBlock, NoBlock}
      BY <1>3 DEF Fits
    <3>1. h \in 0..(Len(node.path) - 1) /\ h + 1 \in 1..n
      BY <1>2
    <3> QED
      BY <1>3, <1>6, <3>1 DEF Fits
  <2> QED
    BY <1>4, <2>1, <2>2
<1>7. Plan(writes', kept, content)
  BY <1>3, <1>5, ActivationPlan DEF StorageInv, kept, content
<1>8. /\ writes' # << >> /\ {"block", "maps", "index", "headers", "chainstate"} \subseteq Pending'
      /\ \A w \in ToSet(writes') : w.file = "maps" =>
           w = [file |-> "maps", path |-> kept, coins |-> content]
      /\ writes' \in Seq(WriteType)
  BY <1>7 DEF Plan, Pending
<1> DEFINE m == [file |-> "maps", path |-> kept, coins |-> content]
<1>9. m \in ToSet(writes')
  <2>1. PICK w \in ToSet(writes') : Kind(w) = "maps"
    BY <1>8, KindsOf DEF Pending
  <2>2. w \in WriteType
    BY <1>8, <2>1 DEF ToSet
  <2>3. w.file = "maps"
    BY <2>1, <2>2, WriteFacts
  <2> QED
    BY <1>8, <2>1, <2>3
<1>10. Target' = [path |-> kept, coins |-> content]
  <2>1. m.file = "maps" /\ \A w \in ToSet(writes') : w.file = "maps" => w = m
    BY <1>8
  <2>2. m.path = kept /\ m.coins = content
    OBVIOUS
  <2> HIDE DEF m
  <2>3. TargetOf(writes', node') = [path |-> m.path, coins |-> m.coins]
    BY <1>9, <2>1, TargetOfPlan
  <2> QED
    BY <2>2, <2>3 DEF Target
<1> QED
  BY <1>3, <1>5, <1>6, <1>7, <1>8, <1>10 DEF kept, content

LEMMA RepairTruncates ==
  ASSUME StorageInv, phase = "replayed", writes = << >>, phase' = "repaired",
         UNCHANGED <<disk, onto, lapses, mishaps>>,
         NEW n \in 1..(Len(node.path) - 1), \A h \in 0..(n - 1) : CanRead(disk.blocks, h),
         writes' = ActivationWrites(SubSeq(node.path, 1, n), FirstBlocks(n)),
         NEW pool \in SUBSET Block,
         node' = [node EXCEPT
                    !.pool = pool,
                    !.known = @ \ (BlocksOf(node.path) \ BlocksOf(SubSeq(node.path, 1, n)))]
  PROVE  StorageInv'
<1> DEFINE kept == SubSeq(node.path, 1, n)
           content == FirstBlocks(n)
<1>1. /\ kept \in Paths /\ Len(kept) = n /\ IsPrefix(kept, node.path)
      /\ \A i \in 1..n : kept[i] = node.path[i]
      /\ BlocksOf(kept) \subseteq BlocksOf(node.path)
      /\ content \in Seq(Block) /\ Len(content) = n
      /\ \A i \in 1..n : content[i] = disk.blocks[i - 1] /\ Height[content[i]] = i - 1
      /\ Fits(disk.blocks, node.path) => content = kept
      /\ Plan(writes', kept, content) /\ writes' # << >>
      /\ {"block", "maps", "index", "headers", "chainstate"} \subseteq Pending'
      /\ Target' = [path |-> kept, coins |-> content]
  BY RepairPlan
<1>2. node \in [path : Paths \cup {NoPath}, coins : Seq(Block), pool : SUBSET Block,
                known : SUBSET Block, checkpoint : Marks]
  BY DEF StorageInv, StorageTyped
<1>3. /\ node'.path = node.path /\ node'.checkpoint = node.checkpoint /\ node'.coins = node.coins
      /\ node'.known = node.known \ (BlocksOf(node.path) \ BlocksOf(kept))
      /\ node' \in [path : Paths \cup {NoPath}, coins : Seq(Block), pool : SUBSET Block,
                    known : SUBSET Block, checkpoint : Marks]
  BY <1>2
<1> HIDE DEF kept, content
<1>4. /\ Queue = {} /\ Pending = {} /\ Alive /\ node.path \in Paths /\ Target.path = node.path
      /\ IndexAsMemory /\ HeadersAsMemory /\ SnapshotAsMemory
      /\ disk.headers.state = "whole" /\ disk.index = node.path /\ ~Unread
      /\ BlocksOf(node.path) \subseteq disk.headers.of
      /\ disk.checkpoint \in {NoCheckpoint, node.checkpoint}
      /\ BlocksOf(node.path) \subseteq node.known
  BY ReplayedFiles
<1>5. Alive' /\ ~Reorganizing' /\ Target'.path = kept /\ Target'.coins = content
      /\ n \in Nat \ {0} /\ n < Len(node.path) /\ Len(node.path) \in Nat
  <2>1. Len(node.path) \in Nat
    BY <1>4, PathFacts
  <2> QED
    BY <1>1, <2>1 DEF Alive, Reorganizing
<1>6. /\ writes' \in Seq(WriteType) /\ InOrder(writes')
      /\ \A w \in Queue' : Kind(w) = "removal" => w.at >= Len(kept)
      /\ \A w \in Queue' : Kind(w) = "block" => w.at < Len(kept) /\ w.to = content[w.at + 1]
      /\ EndsAt(disk.blocks, Len(kept)) \/ BlockWrite(Len(kept), NoBlock) \in Queue'
  BY <1>1 DEF Plan, Queue
<1>7. StorageTyped' /\ Placed' /\ RefusesOnlyLaggingHeaders'
  BY <1>3, <1>6 DEF StorageInv, StorageTyped, Placed, RefusesOnlyLaggingHeaders
<1>8. Planned'
  BY <1>1, <1>3, <1>4, <1>5, <1>6 DEF Planned
<1>9. Aimed'
  BY <1>1, <1>5, <1>6 DEF Aimed
<1>10. Recorded'
  <2>1. IndexAsMemory' /\ HeadersAsMemory' /\ SnapshotAsMemory'
    BY <1>3, <1>4 DEF IndexAsMemory, HeadersAsMemory, SnapshotAsMemory
  <2>2. disk'.index = NoPath => "index" \in lapses'
    BY DEF StorageInv, Recorded
  <2>3. BlocksOf(Target'.path) \subseteq node'.known
    BY <1>1, <1>3, <1>4, <1>5
  <2> QED
    BY <1>3, <1>4, <2>1, <2>2, <2>3 DEF Recorded
<1>11. Stored'
  <2> SUFFICES ASSUME NEW h \in 0..(Len(kept) - 1) PROVE disk.blocks[h] = content[h + 1]
    BY <1>5, <1>6 DEF Stored
  <2>1. h + 1 \in 1..n /\ (h + 1) - 1 = h
    BY <1>1, <1>5
  <2> QED
    BY <1>1, <2>1
<1>12. ASSUME Calm' PROVE Straight'
  <2>1. Straight
    BY <1>12 DEF StorageInv, Calm, Reorganizing
  <2>2. Unread' <=> Unread
    BY DEF Unread
  <2>3. Fits(disk.blocks, node.path) /\ content = kept
    BY <1>1, <1>4, <2>1 DEF Straight, StraightMemory
  <2>4. IsPrefix(node.path, node.path)
    BY Typed, PrefixOrder
  <2>5. StraightIndex'
    BY <1>3, <1>4, <2>1, <2>2, <2>4 DEF Straight, StraightIndex
  <2>6. StraightHeaders'
    BY <1>4 DEF StraightHeaders
  <2>7. StraightFiles'
    BY <1>1 DEF StraightFiles
  <2>8. Respects(kept, node.checkpoint)
    <3>1. Respects(node.path, node.checkpoint)
      BY <1>4, <2>1 DEF Straight, StraightCheckpoint
    <3> SUFFICES ASSUME node.checkpoint # NoCheckpoint, node.checkpoint.height < Len(kept)
                 PROVE  kept[node.checkpoint.height + 1] = node.checkpoint.hash
      BY DEF Respects
    <3>2. node.checkpoint.height \in Nat
      BY Typed, MarkFacts
    <3>3. node.checkpoint.height + 1 \in 1..n
      BY <1>1, <1>5, <3>2
    <3>4. node.path[node.checkpoint.height + 1] = node.checkpoint.hash
      BY <1>1, <1>5, <3>1, <3>2 DEF Respects
    <3> QED
      BY <1>1, <3>3, <3>4
  <2>9. StraightCheckpoint'
    BY <1>3, <1>4, <1>5, <2>1, <2>8 DEF Straight, StraightCheckpoint
  <2>10. \A h \in 0..(Len(kept) - 1) : disk.blocks[h] \in {kept[h + 1], TornBlock, NoBlock}
    <3> TAKE h \in 0..(Len(kept) - 1)
    <3>1. h + 1 \in 1..n /\ (h + 1) - 1 = h
      BY <1>1, <1>5
    <3> QED
      BY <1>1, <2>3, <3>1
  <2>11. CanRead(disk.blocks, 0)
    BY <1>5
  <2>12. CoinsOfPath' \/ ~Complete(disk.blocks, node.path)
    BY <1>3, <2>1 DEF Straight, StraightMemory, CoinsOfPath
  <2>13. "maps" \in Pending'
    BY <1>1
  <2>14. StraightMemory'
    BY <1>1, <1>3, <1>5, <2>3, <2>10, <2>11, <2>12, <2>13 DEF StraightMemory
  <2>15. StraightSnapshot'
    BY <1>3, <2>1, <2>2 DEF Straight, StraightSnapshot, Mismatched
  <2> QED
    BY <2>5, <2>6, <2>7, <2>9, <2>14, <2>15 DEF Straight
<1> QED
  BY <1>7, <1>8, <1>9, <1>10, <1>11, <1>12 DEF StorageInv

LEMMA RepairKeepsInv ==
  ASSUME StorageInv, Repair
  PROVE  StorageInv'
<1> DEFINE n == ValidPrefix
           kept == SubSeq(node.path, 1, n)
           cut == IF n = 0 THEN {} ELSE BlocksOf(node.path) \ BlocksOf(kept)
           pool == {disk.blocks[h] : h \in {k \in 0..(Len(node.path) - 1) : Readable(k)}} \ cut
<1>1. /\ phase = "replayed" /\ writes = << >> /\ phase' = "repaired"
      /\ UNCHANGED <<disk, onto, mishaps>>
      /\ lapses' = lapses \cup IF n = 0 /\ node.coins # node.path THEN {"unrepaired"} ELSE {}
      /\ node' = [node EXCEPT !.pool = pool, !.known = @ \ cut]
      /\ writes' = IF n \in {0, Len(node.path)} THEN << >>
                   ELSE ActivationWrites(kept, FirstBlocks(n))
  BY DEF Repair
<1>2. /\ n \in 0..Len(node.path) /\ (n = 0 => ~CanRead(disk.blocks, 0))
      /\ n = Len(node.path) => Complete(disk.blocks, node.path)
      /\ \A h \in 0..(n - 1) : CanRead(disk.blocks, h)
  BY <1>1, RepairFinds
<1>3. node.path \in Paths /\ disk.blocks \in BlockFiles /\ Len(node.path) \in Nat \ {0}
      /\ node.path \in Seq(Block) /\ \A h \in 0..(Len(node.path) - 1) : h \in Heights
  BY <1>1, ReplayedFiles, PathFacts
<1>4. pool \in SUBSET Block
  <2>1. \A k \in 0..(Len(node.path) - 1) : Readable(k) => disk.blocks[k] \in Block
    BY <1>3 DEF BlockFiles, Readable
  <2> QED
    BY <2>1
<1> HIDE DEF n, pool
<1>5. CASE n \in {0, Len(node.path)}
  <2>1. cut = {}
    <3>1. n = Len(node.path) => kept = node.path
      BY <1>3
    <3> QED
      BY <1>5, <3>1
  <2>2. node' = [node EXCEPT !.pool = pool]
    <3>1. node \in [path : Paths \cup {NoPath}, coins : Seq(Block), pool : SUBSET Block,
                    known : SUBSET Block, checkpoint : Marks]
      BY DEF StorageInv, StorageTyped
    <3>2. node.known \ cut = node.known
      BY <2>1
    <3> QED
      BY <1>1, <3>1, <3>2
  <2>3. writes' = << >>
    BY <1>1, <1>5
  <2>4. Complete(disk.blocks, node.path) \/ (~CanRead(disk.blocks, 0) /\ CoinsOfPath')
    <3>1. node'.path = node.path /\ node'.coins = node.coins
      BY <2>2
    <3>2. n = 0 => CoinsOfPath'
      BY <1>1, <3>1 DEF CoinsOfPath
    <3> QED
      BY <1>2, <1>5, <3>2
  <2>5. lapses' \in {lapses, lapses \cup {"unrepaired"}}
    BY <1>1
  <2> QED
    BY <1>1, <1>4, <2>2, <2>3, <2>4, <2>5, RepairLeaves
<1>6. CASE n \notin {0, Len(node.path)}
  <2>1. n \in 1..(Len(node.path) - 1)
    BY <1>2, <1>3, <1>6
  <2>2. node' = [node EXCEPT !.pool = pool,
                             !.known = @ \ (BlocksOf(node.path) \ BlocksOf(SubSeq(node.path, 1, n)))]
    BY <1>1, <1>6
  <2>3. writes' = ActivationWrites(SubSeq(node.path, 1, n), FirstBlocks(n))
    BY <1>1, <1>6
  <2>4. lapses' = lapses
    BY <1>1, <1>6
  <2> QED
    BY <1>1, <1>2, <1>4, <2>1, <2>2, <2>3, <2>4, RepairTruncates
<1> QED
  BY <1>5, <1>6

LEMMA CheckKeepsInv ==
  ASSUME StorageInv, Check
  PROVE  StorageInv'
<1> DEFINE cp == TrailingCheckpoint(node.path)
           whole == Len(FirstBlocks(Len(node.path))) = Len(node.path)
<1>1. /\ phase = "repaired" /\ writes = << >> /\ UNCHANGED <<onto, mishaps>>
      /\ \/ /\ phase' = "running"
            /\ node' = [node EXCEPT !.checkpoint = cp]
            /\ disk' = [disk EXCEPT !.checkpoint = cp]
            /\ lapses' = IF whole THEN lapses \ {"block"} ELSE lapses
            /\ UNCHANGED writes
         \/ /\ node.checkpoint # NoCheckpoint
            /\ ~MatchesCheckpoint(node.path, node.checkpoint)
            /\ ~(node.checkpoint.height > BestHeight(node.path))
            /\ Refuse /\ UNCHANGED <<disk, lapses>>
  BY DEF Check
<1>2. /\ Queue = {} /\ Pending = {} /\ Alive /\ node.path \in Paths /\ Target.path = node.path
      /\ IndexAsMemory /\ HeadersAsMemory /\ SnapshotAsMemory
      /\ disk.headers.state = "whole" /\ disk.index = node.path /\ ~Unread
      /\ disk.chainstate.path = node.path /\ disk.chainstate.coins = node.coins
      /\ BlocksOf(node.path) \subseteq disk.headers.of
      /\ BlocksOf(node.path) \subseteq node.known
      /\ disk.blocks \in BlockFiles /\ WellPlaced(disk.blocks)
  BY <1>1, ReplayedFiles
<1>3. /\ cp \in Marks /\ cp # NoCheckpoint /\ MatchesCheckpoint(node.path, cp)
      /\ Respects(node.path, cp) /\ node.path # NoPath /\ node.path \in Seq(Block)
      /\ Len(node.path) \in Nat \ {0}
  BY <1>2, PathCheckpoint, PathFacts
<1>4. whole => Complete(disk.blocks, node.path)
  BY <1>2, ReadsFiles, ReadAlong
<1> HIDE DEF cp, whole
<1>5. ASSUME phase' = "running",
             node' = [node EXCEPT !.checkpoint = cp], disk' = [disk EXCEPT !.checkpoint = cp],
             lapses' = IF whole THEN lapses \ {"block"} ELSE lapses,
             UNCHANGED writes
      PROVE  StorageInv'
  <2>1. /\ node \in [path : Paths \cup {NoPath}, coins : Seq(Block), pool : SUBSET Block,
                     known : SUBSET Block, checkpoint : Marks]
        /\ disk \in [blocks : BlockFiles, index : Paths \cup {NoPath},
                     headers : [state : {"whole", "empty", "cut"}, of : SUBSET Block],
                     chainstate : [path : Paths \cup {NoPath}, coins : Seq(Block)],
                     checkpoint : Marks]
    BY DEF StorageInv, StorageTyped
  <2>2. /\ node'.path = node.path /\ node'.coins = node.coins /\ node'.known = node.known
        /\ node'.checkpoint = cp
        /\ node' \in [path : Paths \cup {NoPath}, coins : Seq(Block), pool : SUBSET Block,
                      known : SUBSET Block, checkpoint : Marks]
    BY <1>3, <1>5, <2>1
  <2>3. /\ disk'.blocks = disk.blocks /\ disk'.index = disk.index /\ disk'.headers = disk.headers
        /\ disk'.chainstate = disk.chainstate /\ disk'.checkpoint = cp
        /\ disk' \in [blocks : BlockFiles, index : Paths \cup {NoPath},
                      headers : [state : {"whole", "empty", "cut"}, of : SUBSET Block],
                      chainstate : [path : Paths \cup {NoPath}, coins : Seq(Block)],
                      checkpoint : Marks]
    BY <1>3, <1>5, <2>1
  <2>4. Queue' = {} /\ Pending' = {} /\ Target'.path = node.path /\ Alive' /\ ~Reorganizing'
    BY <1>1, <1>2, <1>5, <2>2 DEF Queue, Pending, Target, TargetOf, Alive, Reorganizing
  <2>5. lapses' \subseteq lapses /\ ("reorg" \in lapses <=> "reorg" \in lapses')
    BY <1>5
  <2>6. "block" \notin lapses' => "block" \notin lapses \/ Complete(disk.blocks, node.path)
    BY <1>4, <1>5
  <2>7. StorageTyped' /\ RefusesOnlyLaggingHeaders'
    BY <1>1, <1>5, <2>2, <2>3, <2>5 DEF StorageInv, StorageTyped, RefusesOnlyLaggingHeaders
  <2>8. Placed'
    <3>1. Complete(disk.blocks, node.path) => CanRead(disk.blocks, 0)
      <4>1. 0 \in 0..(Len(node.path) - 1)
        BY <1>3
      <4> QED
        BY <4>1 DEF Complete
    <3> QED
      BY <2>3, <2>6, <3>1 DEF StorageInv, Placed
  <2>9. Planned' /\ Aimed' /\ Stored'
    <3>1. InOrder(writes')
      BY <1>1, <1>5 DEF InOrder
    <3> QED
      BY <1>1, <1>2, <1>5, <2>2, <2>4, <3>1 DEF Planned, Aimed, Stored
  <2>10. Recorded'
    <3>1. IndexAsMemory' /\ HeadersAsMemory' /\ SnapshotAsMemory'
      BY <1>2, <2>2, <2>3 DEF IndexAsMemory, HeadersAsMemory, SnapshotAsMemory
    <3>2. disk'.index # NoPath
      BY <1>2, <1>3, <2>3
    <3> QED
      BY <1>2, <1>3, <2>2, <2>3, <2>4, <3>1, <3>2 DEF Recorded
  <2>11. ASSUME Calm' PROVE Straight'
    <3>1. Straight
      BY <1>1, <2>5, <2>11 DEF StorageInv, Calm, Reorganizing
    <3>2. /\ Fits(disk.blocks, node.path)
          /\ Complete(disk.blocks, node.path) \/ ~CanRead(disk.blocks, 0)
          /\ CoinsOfPath
      BY <1>1, <1>2, <3>1 DEF Straight, StraightMemory
    <3>3. IsPrefix(node.path, node.path)
      BY <1>3, PrefixOrder
    <3>4. StraightIndex'
      BY <1>2, <1>5, <2>2, <2>3, <3>2, <3>3 DEF StraightIndex
    <3>5. StraightHeaders'
      BY <1>2, <2>3 DEF StraightHeaders
    <3>6. StraightFiles'
      BY <1>2, <1>3, <1>5, <2>3 DEF StraightFiles
    <3>7. disk.blocks[cp.height] \in {cp.hash, TornBlock, NoBlock}
      <4>1. cp.height \in 0..(Len(node.path) - 1) /\ node.path[cp.height + 1] = cp.hash
        BY <1>3, MarkFacts DEF MatchesCheckpoint
      <4> QED
        BY <3>2, <4>1 DEF Fits
    <3>8. StraightCheckpoint'
      BY <1>2, <1>3, <2>2, <2>3, <2>4, <3>7 DEF StraightCheckpoint
    <3>9. "block" \notin lapses' => Holds(disk.blocks, node.path)
      <4> SUFFICES ASSUME "block" \notin lapses' PROVE Holds(disk.blocks, node.path)
        OBVIOUS
      <4>1. Complete(disk.blocks, node.path)
        BY <2>6, <3>2 DEF StorageInv, Placed
      <4> QED
        BY <3>2, <4>1 DEF Holds, Fits, Complete, CanRead
    <3>10. CoinsOfPath'
      BY <1>5, <2>2, <3>2 DEF CoinsOfPath
    <3>11. StraightMemory'
      BY <1>5, <2>2, <2>3, <2>4, <3>2, <3>3, <3>9, <3>10 DEF StraightMemory, Fits
    <3>12. StraightSnapshot'
      BY <1>2, <2>2, <2>3, <3>10 DEF StraightSnapshot, Mismatched, CoinsOfPath
    <3> QED
      BY <3>4, <3>5, <3>6, <3>8, <3>11, <3>12 DEF Straight
  <2> QED
    BY <2>7, <2>8, <2>9, <2>10, <2>11 DEF StorageInv
<1>6. ASSUME node.checkpoint # NoCheckpoint,
             ~MatchesCheckpoint(node.path, node.checkpoint),
             ~(node.checkpoint.height > BestHeight(node.path)),
             Refuse, UNCHANGED <<disk, lapses>>
      PROVE  StorageInv'
  <2>1. RefusesOnlyLaggingHeaders'
    <3> SUFFICES ASSUME "reorg" \notin lapses PROVE FALSE
      BY <1>6 DEF RefusesOnlyLaggingHeaders
    <3>1. Straight
      BY <1>1 DEF StorageInv, Calm, Reorganizing
    <3>2. Respects(node.path, node.checkpoint)
      BY <1>2, <3>1 DEF Straight, StraightCheckpoint
    <3>3. node.checkpoint.height \in Nat
      BY <1>6, Typed, MarkFacts
    <3>4. node.checkpoint.height < Len(node.path)
      BY <1>3, <1>6, <3>3 DEF BestHeight
    <3> QED
      BY <1>3, <1>6, <3>2, <3>3, <3>4 DEF Respects, MatchesCheckpoint
  <2>2. node' = Nothing /\ phase' = "refused" /\ writes' = << >>
    BY <1>1, <1>6 DEF Refuse
  <2>3. onto' \in {"extension", "reorg"}
    BY <1>1 DEF StorageInv, StorageTyped
  <2> QED
    BY <1>1, <1>6, <2>1, <2>2, <2>3, LeaveKeepsInv
<1> QED
  BY <1>1, <1>5, <1>6

-----------------------------------------------------------------------------
(* Theorems                                                                *)

\* The node that has just made its genesis.
LEMMA StorageInitInv ==
  ASSUME StorageInit
  PROVE  StorageInv
<1> DEFINE g == <<Genesis>>
           cp == TrailingCheckpoint(g)
           genesisOnly == [h \in Heights |-> IF h = 0 THEN Genesis ELSE NoBlock]
<1>1. /\ node = [path |-> g, coins |-> g, pool |-> {Genesis}, known |-> {Genesis}, checkpoint |-> cp]
      /\ disk = [blocks |-> genesisOnly, index |-> g, headers |-> [state |-> "whole", of |-> {Genesis}],
                 chainstate |-> [path |-> g, coins |-> g], checkpoint |-> cp]
      /\ phase = "running" /\ writes = << >> /\ onto = "extension" /\ lapses = {} /\ mishaps = 0
  BY DEF StorageInit
<1>2. /\ g \in Paths /\ g \in Seq(Block) /\ Len(g) = 1 /\ g[1] = Genesis /\ g # NoPath
      /\ cp \in Marks /\ cp # NoCheckpoint /\ MatchesCheckpoint(g, cp) /\ Respects(g, cp)
      /\ BlocksOf(g) = {Genesis} /\ IsPrefix(g, g)
  <2>1. g \in Paths /\ g \in Seq(Block) /\ Len(g) = 1 /\ g[1] = Genesis /\ g # NoPath
    BY GenesisPath, BlockAssumption DEF NoPath
  <2>2. BlocksOf(g) = {Genesis}
    BY DEF BlocksOf
  <2>3. IsPrefix(g, g)
    BY <2>1, PrefixOrder
  <2> QED
    BY <2>1, <2>2, <2>3, PathCheckpoint
<1>3. /\ genesisOnly \in BlockFiles /\ genesisOnly[0] = Genesis /\ WellPlaced(genesisOnly) /\ CanRead(genesisOnly, 0)
      /\ Height[Genesis] = 0
  <2>1. Genesis \in Block /\ NoBlock \notin Block /\ TornBlock \notin Block \cup {NoBlock}
        /\ 0 \in Heights
    BY BlockAssumption, StorageAssumption, HeightsShape
  <2>2. Height[Genesis] = 0
    BY <1>2, PathFacts
  <2> QED
    BY <2>1, <2>2 DEF BlockFiles, WellPlaced, CanRead
<1> HIDE DEF g, cp, genesisOnly
<1>4. Fits(genesisOnly, g) /\ Holds(genesisOnly, g)
  <2>1. \A h \in 0..(Len(g) - 1) : h = 0
    BY <1>2
  <2> QED
    BY <1>2, <1>3, <2>1 DEF Fits, Holds
<1>5. /\ Queue = {} /\ Pending = {} /\ Target.path = g /\ Alive /\ ~Reorganizing
      /\ writes \in Seq(WriteType) /\ InOrder(writes)
  <2>1. Queue = {} /\ Pending = {} /\ writes \in Seq(WriteType) /\ InOrder(writes)
    BY <1>1, LoadWrites DEF Queue, Pending
  <2>2. TargetOf(writes, node) = [path |-> node.path, coins |-> node.coins]
    BY <2>1, TargetOfRest DEF Pending
  <2> QED
    BY <1>1, <2>1, <2>2 DEF Target, Alive, Reorganizing
<1>6. StorageTyped
  <2>1. MaxMishaps \in Nat /\ Genesis \in Block
    BY StorageAssumption, BlockAssumption
  <2> QED
    BY <1>1, <1>2, <1>3, <1>5, <2>1 DEF StorageTyped
<1>7. Placed /\ Planned /\ Aimed /\ Stored /\ RefusesOnlyLaggingHeaders
  BY <1>1, <1>2, <1>3, <1>5 DEF Placed, Planned, Aimed, Stored, RefusesOnlyLaggingHeaders
<1>8. Recorded
  BY <1>1, <1>2, <1>5 DEF Recorded, IndexAsMemory, HeadersAsMemory, SnapshotAsMemory
<1>9. Straight
  <2>1. genesisOnly[cp.height] \in {cp.hash, TornBlock, NoBlock}
    <3>1. cp.height \in 0..(Len(g) - 1) /\ g[cp.height + 1] = cp.hash
      BY <1>2, MarkFacts DEF MatchesCheckpoint
    <3> QED
      BY <1>4, <3>1 DEF Fits
  <2>2. StraightIndex /\ StraightHeaders /\ StraightFiles
    BY <1>1, <1>2, <1>4 DEF StraightIndex, StraightHeaders, StraightFiles
  <2>3. StraightCheckpoint
    BY <1>1, <1>2, <1>5, <2>1 DEF StraightCheckpoint
  <2>4. StraightMemory /\ StraightSnapshot
    BY <1>1, <1>2, <1>4, <1>5 DEF StraightMemory, StraightSnapshot, CoinsOfPath, Mismatched, Fits
  <2> QED
    BY <2>2, <2>3, <2>4 DEF Straight
<1> QED
  BY <1>6, <1>7, <1>8, <1>9 DEF StorageInv

LEMMA StutterKeepsInv ==
  ASSUME StorageInv, UNCHANGED storageVars
  PROVE  StorageInv'
<1>1. UNCHANGED <<node, disk, phase, writes, onto, lapses, mishaps>>
  BY DEF storageVars
<1>2. /\ Queue' = Queue /\ Pending' = Pending /\ Target' = Target /\ (Alive' <=> Alive)
      /\ (Unread' <=> Unread)
  BY <1>1 DEF Queue, Pending, Target, Alive, Unread
<1>3. StorageTyped' /\ Placed' /\ RefusesOnlyLaggingHeaders'
  BY <1>1 DEF StorageInv, StorageTyped, Placed, RefusesOnlyLaggingHeaders
<1>4. Planned'
  BY <1>1, <1>2 DEF StorageInv, Planned
<1>5. Aimed'
  BY <1>1, <1>2 DEF StorageInv, Aimed
<1>6. Recorded'
  BY <1>1, <1>2 DEF StorageInv, Recorded, IndexAsMemory, HeadersAsMemory, SnapshotAsMemory,
     Failed, Lapsed, Reorganizing
<1>7. Stored'
  BY <1>1, <1>2 DEF StorageInv, Stored, Failed, Lapsed, Reorganizing
<1>8. ASSUME Calm' PROVE Straight'
  <2>1. Straight
    BY <1>1, <1>8 DEF StorageInv, Calm, Reorganizing
  <2>2. FirstBlocks(Cardinality(Heights))' = FirstBlocks(Cardinality(Heights))
    BY <1>1 DEF FirstBlocks, Readable
  <2>3. StraightIndex' /\ StraightHeaders' /\ StraightFiles'
    BY <1>1, <1>2, <2>1, <2>2 DEF Straight, StraightIndex, StraightHeaders, StraightFiles, Linked
  <2>4. StraightCheckpoint' /\ StraightSnapshot'
    BY <1>1, <1>2, <2>1 DEF Straight, StraightCheckpoint, StraightSnapshot, Mismatched
  <2>5. StraightMemory'
    BY <1>1, <1>2, <2>1 DEF Straight, StraightMemory, CoinsOfPath
  <2> QED
    BY <2>3, <2>4, <2>5 DEF Straight
<1> QED
  BY <1>3, <1>4, <1>5, <1>6, <1>7, <1>8 DEF StorageInv

\* The files of the chain, what the node has of them in memory, and what is still
\* to be written agree as StorageInv says, through every crash, every failed
\* write and every start.
THEOREM StorageInvariance == StorageSpec => []StorageInv
<1>1. StorageInit => StorageInv
  BY StorageInitInv
<1>2. StorageInv /\ [StorageNext]_storageVars => StorageInv'
  <2> SUFFICES ASSUME StorageInv, [StorageNext]_storageVars PROVE StorageInv'
    OBVIOUS
  <2>1. CASE DoWrite
    BY <2>1, WriteKeepsInv
  <2>2. CASE FailWrite
    BY <2>2, FailKeepsInv
  <2>3. CASE StorageCrash
    BY <2>3, CrashKeepsInv
  <2>4. CASE Stop
    BY <2>4, StopKeepsInv
  <2>5. CASE \E b \in Block : Learn(b) \/ BeginActivation(b)
    BY <2>5, LearnKeepsInv, BeginKeepsInv
  <2>6. CASE Load
    BY <2>6, LoadKeepsInv
  <2>7. CASE ReadTorn
    BY <2>7, ReadTornKeepsInv
  <2>8. CASE Replay
    BY <2>8, ReplayKeepsInv
  <2>9. CASE Repair
    BY <2>9, RepairKeepsInv
  <2>10. CASE Check
    BY <2>10, CheckKeepsInv
  <2>11. CASE UNCHANGED storageVars
    BY <2>11, StutterKeepsInv
  <2> QED
    BY <2>1, <2>2, <2>3, <2>4, <2>5, <2>6, <2>7, <2>8, <2>9, <2>10, <2>11 DEF StorageNext
<1> QED
  BY <1>1, <1>2, PTL DEF StorageSpec

\* A node that serves after a start has a chain of linked blocks, the UTXO set of
\* that chain and its very blocks in the height files, unless a write of a reorg,
\* or of a height file, is still amiss.
THEOREM RestartedChainIsSound == StorageSpec => []RestartedChainSound
<1>1. StorageInv => RestartedChainSound
  <2> SUFFICES ASSUME StorageInv, Serving, lapses \cap {"reorg", "block", "unrepaired"} = {}
               PROVE  /\ node.path = Chain[Tip(node.path)]
                      /\ node.coins = node.path
                      /\ \A h \in 0..BestHeight(node.path) : disk.blocks[h] = node.path[h + 1]
    BY DEF RestartedChainSound
  <2>1. phase = "running" /\ writes = << >> /\ "block" \notin lapses /\ "reorg" \notin lapses
        /\ "unrepaired" \notin lapses
    BY DEF Serving
  <2>2. Straight
    BY <2>1 DEF StorageInv, Calm, Reorganizing
  <2>3. Holds(disk.blocks, node.path) /\ node.coins = node.path
    BY <2>1, <2>2 DEF Straight, StraightMemory, CoinsOfPath
  <2>4. Chain[Tip(node.path)] = node.path
    BY <2>1, AtEase, PathFacts
  <2> QED
    BY <2>3, <2>4 DEF Holds, BestHeight
<1> QED
  BY <1>1, StorageInvariance, PTL

\* The constructor throws only for the files of which RefusesOnlyLaggingHeaders
\* says so.
THEOREM RefusalsExplained == StorageSpec => []RefusesOnlyLaggingHeaders
<1>1. StorageInv => RefusesOnlyLaggingHeaders
  BY DEF StorageInv
<1> QED
  BY <1>1, StorageInvariance, PTL

\* Whatever a crash cut short, the files and the memory of the node stay of the kinds that
\* save_block, save_index, save_headers and save_chainstate write.
THEOREM StorageTypes == StorageSpec => []StorageTypeOK
<1>1. ASSUME StorageInv PROVE StorageTypeOK
  <2>1. StorageTyped
    BY <1>1 DEF StorageInv
  <2>2. ASSUME NEW p \in Paths \cup {NoPath} PROVE p \in Seq(Block)
    <3>1. CASE p \in Paths
      BY <3>1, PathFacts
    <3>2. CASE p = NoPath
      BY <3>2 DEF NoPath
    <3> QED
      BY <2>2, <3>1, <3>2
  <2>3. node.path \in Paths \cup {NoPath} /\ node.coins \in Seq(Block)
    BY <2>1 DEF StorageTyped
  <2>4. node.pool \cup node.known \cup disk.headers.of \subseteq Block
    BY <2>1 DEF StorageTyped
  <2>5. disk.blocks \in [Heights -> Block \cup {NoBlock, TornBlock}]
    BY <2>1 DEF StorageTyped, BlockFiles
  <2> QED
    BY <2>1, <2>2, <2>3, <2>4, <2>5 DEF StorageTyped, StorageTypeOK
<1> QED
  BY <1>1, StorageInvariance, PTL

-----------------------------------------------------------------------------
(* The wallet file: what holds of it, of its backup and of the threads     *)

Content == {NoFile, Empty} \cup {Whole(K) : K \in SUBSET WalletKey}
Keyed == {"load", "loadbak", "open", "write", "unlink", "rotate", "replace"}
Thread == [step : {"rest", "copy"} \cup Keyed, key : WalletKey \cup {"none"},
           keys : SUBSET WalletKey, open : FileName \cup {"none"}, moved : BOOLEAN]

WalletTyped ==
  /\ stored \in [FileName -> Content]
  /\ writers \in [Writer -> Thread]
  /\ \A w \in Writer : /\ writers[w].open # "none" => writers[w].step \in {"write", "copy"}
                       /\ writers[w].step \in Keyed => writers[w].key \in WalletKey
                       /\ writers[w].step = "rest" => writers[w] = AtRest
  /\ acked \subseteq WalletKey
  /\ deaths \in Nat
  /\ overlapped \in BOOLEAN

\* One thread at a time is at work.
Alone == \A v, w \in Writer : writers[v].step # "rest" /\ writers[w].step # "rest" => v = w

\* The next load finds every acknowledged key; before the first crash it does
\* not need the backup.
Held(K) == acked \subseteq K
MainHeld == Usable("wallet") /\ Held(stored["wallet"].keys)
BackupHeld == ~Usable("wallet") /\ Usable("bak") /\ Held(stored["bak"].keys)
Kept == MainHeld \/ (deaths # 0 /\ BackupHeld)

\* What holds at each step of persist and of recover.
Gathered(r) == Held(r.keys) /\ r.key \in r.keys
CopyWhole(r) == Gathered(r) /\ stored["tmp"] = Whole(r.keys)
Underway(r) ==
  /\ r.step = "load" => Kept
  /\ r.step = "loadbak" => deaths # 0 /\ BackupHeld
  /\ r.step = "open" => Kept /\ Gathered(r)
  /\ r.step = "write" => Kept /\ Gathered(r) /\ r.open = "tmp"
  /\ r.step = "unlink" => Kept /\ CopyWhole(r)
  /\ r.step = "rotate" => (deaths = 0 => MainHeld) /\ CopyWhole(r)
  /\ r.step = "replace" => (deaths = 0 => BackupHeld) /\ CopyWhole(r)
  /\ r.step = "copy" => BackupHeld /\ r.open = "wallet" /\ Held(r.keys)

Safe ==
  /\ Alone
  /\ NobodyWrites => Kept
  /\ \A w \in Writer : Underway(writers[w])

WalletInv == WalletTyped /\ (~overlapped /\ deaths <= 1 => Safe)
-----------------------------------------------------------------------------
(* Types                                                                   *)

LEMMA TypesAtStart == WalletInit => WalletTyped
<1> HAVE WalletInit
<1>1. Whole({}) \in Content /\ NoFile \in Content
  BY DEF Content
<1>2. stored \in [FileName -> Content]
  BY <1>1 DEF WalletInit
<1>3. AtRest \in Thread
  BY DEF AtRest, Thread
<1>4. writers \in [Writer -> Thread] /\ \A w \in Writer : writers[w] = AtRest
  BY <1>3 DEF WalletInit
<1>5. AtRest.open = "none" /\ AtRest.step = "rest" /\ AtRest.step \notin Keyed
  BY DEF AtRest, Keyed
<1>6. acked \subseteq WalletKey /\ deaths \in Nat /\ overlapped \in BOOLEAN
  BY DEF WalletInit
<1> QED
  BY <1>2, <1>4, <1>5, <1>6 DEF WalletTyped

\* A rename moves a content, and those that follow it keep all but the name.
LEMMA RenameTypes ==
  ASSUME WalletTyped, NEW from \in FileName, NEW to \in FileName
  PROVE  /\ Moved(from, to) \in [FileName -> Content]
         /\ Followed(from, to) \in [Writer -> Thread]
         /\ \A v \in Writer :
              LET r == Followed(from, to)[v]
              IN  /\ r.step = writers[v].step /\ r.key = writers[v].key
                  /\ r.keys = writers[v].keys /\ r.moved = writers[v].moved
                  /\ r.open # "none" => writers[v].open # "none"
                  /\ writers[v].open = "none" => r = writers[v]
<1>1. /\ stored \in [FileName -> Content] /\ NoFile \in Content
      /\ \A v \in Writer : writers[v] \in Thread
  BY DEF WalletTyped, Content
<1>2. Moved(from, to) \in [FileName -> Content]
  BY <1>1 DEF Moved
<1>3. ASSUME NEW v \in Writer, NEW n \in FileName \cup {"none"}
      PROVE  [writers[v] EXCEPT !.open = n] \in Thread
  BY <1>1 DEF Thread
<1>4. Followed(from, to) \in [Writer -> Thread]
  BY <1>1, <1>3 DEF Followed
<1>5. \A v \in Writer :
        LET r == Followed(from, to)[v]
        IN  /\ r.step = writers[v].step /\ r.key = writers[v].key
            /\ r.keys = writers[v].keys /\ r.moved = writers[v].moved
            /\ r.open # "none" => writers[v].open # "none"
            /\ writers[v].open = "none" => r = writers[v]
  BY <1>1 DEF Followed, Thread, FileName
<1> QED
  BY <1>2, <1>4, <1>5

\* A step of w that leaves the other threads alone.
Turn(w, r) == r \in Thread /\ writers' = [writers EXCEPT ![w] = r]
Proper(r) == /\ r.open # "none" => r.step \in {"write", "copy"}
             /\ r.step \in Keyed => r.key \in WalletKey
             /\ r.step = "rest" => r = AtRest

\* The types after a step, from the variables' new values.
LEMMA ProperTypes ==
  ASSUME stored' \in [FileName -> Content], writers' \in [Writer -> Thread],
         \A v \in Writer : Proper(writers'[v]), acked' \subseteq WalletKey,
         deaths' \in Nat, overlapped' \in BOOLEAN
  PROVE  WalletTyped'
<1>1. /\ (stored \in [FileName -> Content])' /\ (writers \in [Writer -> Thread])'
  BY DEF Content, Thread, Keyed, Whole, NoFile, Empty, FileName
<1> QED
  BY <1>1 DEF WalletTyped, Proper, AtRest, Keyed

LEMMA TurnTypes ==
  ASSUME WalletTyped, NEW w \in Writer, NEW r, Turn(w, r), Proper(r),
         stored' \in [FileName -> Content], acked' \subseteq WalletKey,
         deaths' \in Nat, overlapped' \in BOOLEAN
  PROVE  WalletTyped'
<1>1. /\ writers' \in [Writer -> Thread] /\ writers'[w] = r
      /\ \A v \in Writer : v # w => writers'[v] = writers[v]
  BY DEF WalletTyped, Turn
<1>2. \A v \in Writer : Proper(writers'[v])
  BY <1>1 DEF WalletTyped, Proper
<1>3. /\ (stored \in [FileName -> Content])' /\ (writers \in [Writer -> Thread])'
  BY <1>1 DEF Content, Thread, Keyed, Whole, NoFile, Empty, FileName
<1> QED
  BY <1>2, <1>3 DEF WalletTyped, Proper, AtRest, Keyed

\* The step each action of w makes.
LEMMA Turns ==
  ASSUME WalletTyped, NEW w \in Writer
  PROVE  /\ \A k \in WalletKey : BeginChange(w, k) =>
              Turn(w, [AtRest EXCEPT !.step = "load", !.key = k])
         /\ LoadMain(w) =>
              Turn(w, IF Usable("wallet")
                      THEN [writers[w] EXCEPT !.step = "open",
                              !.keys = stored["wallet"].keys \cup {writers[w].key}]
                      ELSE [writers[w] EXCEPT !.step = "loadbak"])
         /\ LoadBackup(w) =>
              Turn(w, IF Usable("bak")
                      THEN [writers[w] EXCEPT !.step = "open",
                              !.keys = stored["bak"].keys \cup {writers[w].key}]
                      ELSE AtRest)
         /\ OpenTemp(w) => Turn(w, [writers[w] EXCEPT !.step = "write", !.open = "tmp"])
         /\ WriteTemp(w) => Turn(w, [writers[w] EXCEPT !.step = "unlink", !.open = "none"])
         /\ BeginRecover(w) =>
              Turn(w, [writers[w] EXCEPT !.step = "copy", !.keys = stored["bak"].keys,
                                         !.open = "wallet"])
         /\ EndRecover(w) => Turn(w, AtRest)
<1>1. /\ writers \in [Writer -> Thread] /\ writers[w] \in Thread
      /\ writers[w].step \in Keyed => writers[w].key \in WalletKey
  BY DEF WalletTyped
<1>2. \A n \in FileName : Usable(n) => stored[n].keys \subseteq WalletKey
  BY DEF WalletTyped, Content, Usable, NoFile, Empty, Whole
<1>3. AtRest \in Thread
  BY DEF AtRest, Thread
<1>4. /\ "wallet" \in FileName /\ "bak" \in FileName /\ "tmp" \in FileName
  BY DEF FileName
<1>5. ASSUME NEW k \in WalletKey, BeginChange(w, k)
      PROVE  Turn(w, [AtRest EXCEPT !.step = "load", !.key = k])
  BY <1>1, <1>5 DEF BeginChange, Turn, Thread, AtRest, Keyed
<1>6. ASSUME LoadMain(w)
      PROVE  Turn(w, IF Usable("wallet")
                      THEN [writers[w] EXCEPT !.step = "open",
                              !.keys = stored["wallet"].keys \cup {writers[w].key}]
                      ELSE [writers[w] EXCEPT !.step = "loadbak"])
  BY <1>1, <1>2, <1>4, <1>6 DEF LoadMain, Goes, Turn, Thread, Keyed
<1>7. ASSUME LoadBackup(w)
      PROVE  Turn(w, IF Usable("bak")
                      THEN [writers[w] EXCEPT !.step = "open",
                              !.keys = stored["bak"].keys \cup {writers[w].key}]
                      ELSE AtRest)
  BY <1>1, <1>2, <1>3, <1>4, <1>7 DEF LoadBackup, Throws, Turn, Thread, Keyed
<1>8. OpenTemp(w) => Turn(w, [writers[w] EXCEPT !.step = "write", !.open = "tmp"])
  BY <1>1, <1>4 DEF OpenTemp, Turn, Thread, Keyed
<1>9. WriteTemp(w) => Turn(w, [writers[w] EXCEPT !.step = "unlink", !.open = "none"])
  BY <1>1 DEF WriteTemp, Turn, Thread, Keyed
<1>10. ASSUME BeginRecover(w)
       PROVE  Turn(w, [writers[w] EXCEPT !.step = "copy", !.keys = stored["bak"].keys,
                                         !.open = "wallet"])
  BY <1>1, <1>2, <1>4, <1>10 DEF BeginRecover, Turn, Thread
<1>11. EndRecover(w) => Turn(w, AtRest)
  BY <1>1, <1>3 DEF EndRecover, Throws, Turn
<1> QED
  BY <1>5, <1>6, <1>7, <1>8, <1>9, <1>10, <1>11

\* Every action keeps the types.
LEMMA TypesAreKept == WalletTyped /\ [WalletNext]_walletVars => WalletTyped'
<1> SUFFICES ASSUME WalletTyped, [WalletNext]_walletVars PROVE WalletTyped'
  OBVIOUS
<1>1. /\ stored \in [FileName -> Content] /\ writers \in [Writer -> Thread]
      /\ acked \subseteq WalletKey /\ deaths \in Nat /\ overlapped \in BOOLEAN
      /\ \A w \in Writer : writers[w] \in Thread /\ Proper(writers[w])
  BY DEF WalletTyped, Proper
<1>2. /\ NoFile \in Content /\ Empty \in Content
      /\ \A K \in SUBSET WalletKey : Whole(K) \in Content
  BY DEF Content
<1>3. /\ "wallet" \in FileName /\ "bak" \in FileName /\ "tmp" \in FileName
      /\ "none" \notin FileName
  BY DEF FileName
<1>4. AtRest \in Thread /\ Proper(AtRest)
  BY DEF AtRest, Thread, Proper, Keyed
<1>5. NoteOverlap => overlapped' \in BOOLEAN
  BY DEF NoteOverlap
<1>6. ASSUME NEW w \in Writer, NEW k \in WalletKey, BeginChange(w, k) PROVE WalletTyped'
  <2> DEFINE r == [AtRest EXCEPT !.step = "load", !.key = k]
  <2>1. Turn(w, r) /\ Proper(r)
    BY <1>6, Turns DEF Proper, AtRest, Keyed
  <2> QED
    BY <1>1, <1>5, <1>6, <2>1, TurnTypes DEF BeginChange
<1>7. ASSUME NEW w \in Writer, LoadMain(w) PROVE WalletTyped'
  <2> DEFINE r == IF Usable("wallet")
                  THEN [writers[w] EXCEPT !.step = "open",
                          !.keys = stored["wallet"].keys \cup {writers[w].key}]
                  ELSE [writers[w] EXCEPT !.step = "loadbak"]
  <2>1. Turn(w, r)
    BY <1>7, Turns
  <2>2. Proper(r)
    BY <1>1, <1>7 DEF Proper, LoadMain, Thread, Keyed
  <2> QED
    BY <1>1, <1>7, <2>1, <2>2, TurnTypes DEF LoadMain
<1>8. ASSUME NEW w \in Writer, LoadBackup(w) PROVE WalletTyped'
  <2> DEFINE r == IF Usable("bak")
                  THEN [writers[w] EXCEPT !.step = "open",
                          !.keys = stored["bak"].keys \cup {writers[w].key}]
                  ELSE AtRest
  <2>1. Turn(w, r)
    BY <1>8, Turns
  <2>2. Proper(r)
    BY <1>1, <1>4, <1>8 DEF Proper, LoadBackup, Thread, Keyed
  <2> QED
    BY <1>1, <1>8, <2>1, <2>2, TurnTypes DEF LoadBackup
<1>9. ASSUME NEW w \in Writer, OpenTemp(w) PROVE WalletTyped'
  <2> DEFINE r == [writers[w] EXCEPT !.step = "write", !.open = "tmp"]
  <2>1. Turn(w, r)
    BY <1>9, Turns
  <2>2. Proper(r)
    BY <1>1, <1>9 DEF Proper, OpenTemp, Thread, Keyed
  <2>3. stored' \in [FileName -> Content]
    BY <1>1, <1>2, <1>9 DEF OpenTemp
  <2> QED
    BY <1>1, <1>9, <2>1, <2>2, <2>3, TurnTypes DEF OpenTemp
<1>10. ASSUME NEW w \in Writer, WriteTemp(w) PROVE WalletTyped'
  <2> DEFINE r == [writers[w] EXCEPT !.step = "unlink", !.open = "none"]
  <2>1. Turn(w, r)
    BY <1>10, Turns
  <2>2. Proper(r)
    BY <1>1, <1>10 DEF Proper, WriteTemp, Thread, Keyed
  <2>3. Whole(writers[w].keys) \in Content
    BY <1>1, <1>2 DEF Thread
  <2>4. stored' \in [FileName -> Content]
    BY <1>1, <1>10, <2>3 DEF WriteTemp
  <2> QED
    BY <1>1, <1>10, <2>1, <2>2, <2>4, TurnTypes DEF WriteTemp
<1>11. ASSUME NEW w \in Writer, RemoveBackup(w) PROVE WalletTyped'
  <2>1. stored' \in [FileName -> Content]
    BY <1>1, <1>2, <1>11 DEF RemoveBackup
  <2>2. \A v \in Writer : writers'[v] \in Thread /\ Proper(writers'[v])
    <3> TAKE v \in Writer
    <3>1. CASE v = w
      <4>1. writers'[v] = [writers[w] EXCEPT !.step = "rotate"]
        BY <1>11, <3>1 DEF RemoveBackup
      <4> QED
        BY <1>1, <1>11, <4>1 DEF Proper, RemoveBackup, Thread, Keyed
    <3>2. CASE v # w /\ writers[v].open = "bak"
      <4>1. writers'[v] = [writers[v] EXCEPT !.open = "none"]
        BY <1>11, <3>2 DEF RemoveBackup
      <4>2. writers[v].step # "rest"
        BY <1>1, <3>2 DEF Proper
      <4> QED
        BY <1>1, <4>1, <4>2 DEF Proper, Thread, Keyed
    <3>3. CASE v # w /\ writers[v].open # "bak"
      <4>1. writers'[v] = writers[v]
        BY <1>11, <3>3 DEF RemoveBackup
      <4> QED
        BY <1>1, <4>1
    <3> QED
      BY <3>1, <3>2, <3>3
  <2>3. writers' \in [Writer -> Thread]
    BY <1>11, <2>2 DEF RemoveBackup
  <2> QED
    BY <1>1, <1>11, <2>1, <2>2, <2>3, ProperTypes DEF RemoveBackup
<1>12. ASSUME NEW from \in FileName, NEW to \in FileName
       PROVE  /\ Moved(from, to) \in [FileName -> Content]
              /\ Followed(from, to) \in [Writer -> Thread]
              /\ \A v \in Writer : Proper(Followed(from, to)[v])
  <2>1. ASSUME NEW v \in Writer PROVE Proper(Followed(from, to)[v])
    <3> DEFINE r == Followed(from, to)[v]
    <3>1. /\ r.step = writers[v].step /\ r.key = writers[v].key
          /\ r.open # "none" => writers[v].open # "none"
          /\ writers[v].open = "none" => r = writers[v]
      BY RenameTypes
    <3> HIDE DEF r
    <3>2. Proper(r)
      BY <1>1, <3>1 DEF Proper, Keyed
    <3> QED
      BY <3>2 DEF r
  <2> QED
    BY <2>1, RenameTypes
<1>13. ASSUME NEW w \in Writer, Rotate(w) PROVE WalletTyped'
  <2> DEFINE f == Followed("wallet", "bak")
  <2>1. /\ Moved("wallet", "bak") \in [FileName -> Content]
        /\ f \in [Writer -> Thread] /\ \A v \in Writer : Proper(f[v])
        /\ f[w].step = writers[w].step
        /\ f[w].open # "none" => writers[w].open # "none"
    BY <1>3, <1>12, RenameTypes
  <2> HIDE DEF f
  <2>2. CASE Exists("wallet")
    <3> DEFINE r == [f[w] EXCEPT !.step = "replace", !.moved = TRUE]
    <3>1. stored' = Moved("wallet", "bak") /\ writers' = [f EXCEPT ![w] = r]
      BY <1>13, <2>1, <2>2 DEF Rotate, f
    <3>2. f[w] \in Thread /\ f[w].step = "rotate" /\ f[w].open = "none"
      BY <1>1, <1>13, <2>1 DEF Rotate, Proper
    <3>3. r \in Thread
      BY <3>2 DEF Thread, Keyed
    <3>4. f[w].key \in WalletKey
      BY <2>1, <3>2 DEF Proper, Keyed
    <3>5. Proper(r)
      BY <3>2, <3>4 DEF Thread, Proper
    <3> HIDE DEF r
    <3>6. writers' \in [Writer -> Thread] /\ \A v \in Writer : Proper(writers'[v])
      BY <2>1, <3>1, <3>3, <3>5
    <3> QED
      BY <1>1, <1>13, <2>1, <3>1, <3>6, ProperTypes DEF Rotate
  <2>3. CASE ~Exists("wallet")
    <3> DEFINE r == [writers[w] EXCEPT !.step = "replace"]
    <3>1. Turn(w, r) /\ stored' = stored
      BY <1>1, <1>13, <2>3 DEF Rotate, Goes, Turn, Thread, Keyed
    <3>2. Proper(r)
      BY <1>1, <1>13 DEF Rotate, Thread, Proper, Keyed
    <3> QED
      BY <1>1, <1>13, <3>1, <3>2, TurnTypes DEF Rotate
  <2> QED
    BY <2>2, <2>3
<1>14. ASSUME NEW w \in Writer, Replace(w) PROVE WalletTyped'
  <2>1. acked' \subseteq WalletKey
    BY <1>1, <1>14 DEF Replace, Proper, Keyed
  <2>2. ASSUME NEW from \in FileName, stored' = Moved(from, "wallet"),
               Throws(Followed(from, "wallet"), w)
        PROVE  WalletTyped'
    <3>1. /\ writers' \in [Writer -> Thread] /\ \A v \in Writer : Proper(writers'[v])
          /\ stored' \in [FileName -> Content]
      BY <1>3, <1>4, <1>12, <2>2 DEF Throws
    <3> QED
      BY <1>1, <1>14, <2>1, <3>1, ProperTypes DEF Replace
  <2>3. CASE stored' = stored /\ Throws(writers, w)
    <3>1. Turn(w, AtRest)
      BY <1>4, <2>3 DEF Turn, Throws
    <3> QED
      BY <1>1, <1>4, <1>14, <2>1, <2>3, <3>1, TurnTypes DEF Replace
  <2> QED
    BY <1>3, <1>14, <2>2, <2>3 DEF Replace
<1>15. ASSUME NEW w \in Writer, BeginRecover(w) PROVE WalletTyped'
  <2> DEFINE r == [writers[w] EXCEPT !.step = "copy", !.keys = stored["bak"].keys,
                                     !.open = "wallet"]
  <2>1. Turn(w, r)
    BY <1>15, Turns
  <2>2. Proper(r)
    BY <1>1 DEF Proper, Thread, Keyed
  <2>3. stored' \in [FileName -> Content]
    BY <1>1, <1>2, <1>15 DEF BeginRecover
  <2> QED
    BY <1>1, <1>5, <1>15, <2>1, <2>2, <2>3, TurnTypes DEF BeginRecover
<1>16. ASSUME NEW w \in Writer, EndRecover(w) PROVE WalletTyped'
  <2>1. Turn(w, AtRest)
    BY <1>16, Turns
  <2>2. Whole(writers[w].keys) \in Content
    BY <1>1, <1>2 DEF Thread
  <2>3. stored' \in [FileName -> Content]
    BY <1>1, <1>16, <2>2 DEF EndRecover
  <2> QED
    BY <1>1, <1>4, <1>16, <2>1, <2>3, TurnTypes DEF EndRecover
<1>17. ASSUME WalletCrash PROVE WalletTyped'
  <2>1. writers' \in [Writer -> Thread] /\ \A v \in Writer : Proper(writers'[v])
    BY <1>4, <1>17 DEF WalletCrash
  <2> QED
    BY <1>1, <1>17, <2>1, ProperTypes DEF WalletCrash
<1>18. ASSUME UNCHANGED walletVars PROVE WalletTyped'
  BY <1>1, <1>18, ProperTypes DEF walletVars
<1> QED
  BY <1>6, <1>7, <1>8, <1>9, <1>10, <1>11, <1>13, <1>14, <1>15, <1>16, <1>17, <1>18
     DEF WalletNext
-----------------------------------------------------------------------------
(* Safety                                                                  *)

\* What the next load finds depends on the wallet file, its backup, the
\* acknowledged keys and the number of crashes only.
LEMMA HeldAsBefore ==
  ASSUME stored'["wallet"] = stored["wallet"], stored'["bak"] = stored["bak"],
         UNCHANGED <<acked, deaths>>
  PROVE  /\ MainHeld' <=> MainHeld
         /\ BackupHeld' <=> BackupHeld
         /\ Kept' <=> Kept
BY DEF MainHeld, BackupHeld, Kept, Usable, Held

\* Where w alone is at work after a step, safety is a matter of w.
LEMMA OneAtWork ==
  ASSUME WalletTyped', NEW w \in Writer, \A v \in Writer : v # w => writers'[v] = AtRest,
         Underway(writers[w])', writers'[w] = AtRest => Kept'
  PROVE  Safe'
<1>1. AtRest.step = "rest" /\ Underway(AtRest)'
  BY DEF AtRest, Underway
<1>2. Alone'
  BY <1>1 DEF Alone
<1>3. NobodyWrites' => Kept'
  BY DEF NobodyWrites
<1>4. \A v \in Writer : Underway(writers[v])'
  <2> TAKE v \in Writer
  <2>1. CASE v = w
    BY <2>1
  <2>2. CASE v # w
    <3>1. writers'[v] = AtRest
      BY <2>2
    <3> QED
      BY <1>1, <3>1
  <2> QED
    BY <2>1, <2>2
<1> QED
  BY <1>2, <1>3, <1>4 DEF Safe

\* Before the first crash a good wallet file or a good backup is always there.
LEMMA OneIsHeld ==
  ASSUME WalletTyped, Safe, deaths = 0
  PROVE  MainHeld \/ BackupHeld
<1>1. CASE NobodyWrites
  BY <1>1 DEF Safe, Kept
<1>2. CASE ~NobodyWrites
  <2>1. PICK w \in Writer : writers[w] # AtRest
    BY <1>2 DEF NobodyWrites
  <2>2. writers[w] \in Thread /\ writers[w].step # "rest" /\ Underway(writers[w])
    BY <2>1 DEF WalletTyped, Safe
  <2> QED
    BY <2>2 DEF Thread, Keyed, Underway, Kept
<1> QED
  BY <1>1, <1>2

LEMMA SafetyIsKept ==
  ASSUME WalletTyped, Safe, [WalletNext]_walletVars, WalletTyped',
         ~overlapped', deaths' <= 1
  PROVE  Safe'
<1>1. /\ \A w \in Writer : writers[w] \in Thread /\ Proper(writers[w])
      /\ writers \in [Writer -> Thread] /\ stored \in [FileName -> Content]
      /\ "wallet" \in FileName /\ "bak" \in FileName /\ "tmp" \in FileName
      /\ deaths \in Nat
  BY DEF WalletTyped, Proper, FileName
<1>2. AtRest.step = "rest" /\ AtRest.open = "none" /\ Underway(AtRest)'
  BY DEF AtRest, Underway
<1>3. ASSUME NEW w \in Writer, writers[w].step # "rest"
      PROVE  Underway(writers[w]) /\ \A v \in Writer : v # w => writers[v] = AtRest
  BY <1>1, <1>3 DEF Safe, Alone, Proper
<1>4. NoteOverlap => /\ Kept
                     /\ \A v \in Writer : writers[v] = AtRest
  BY DEF NoteOverlap, NobodyWrites, Safe
\* A turn of w leaves the others at rest.
<1>5. ASSUME NEW w \in Writer, NEW r, Turn(w, r), \A v \in Writer : v # w => writers[v] = AtRest
      PROVE  writers'[w] = r /\ \A v \in Writer : v # w => writers'[v] = AtRest
  BY <1>1, <1>5 DEF Turn
<1>6. ASSUME NEW w \in Writer, NEW k \in WalletKey, BeginChange(w, k) PROVE Safe'
  <2> DEFINE r == [AtRest EXCEPT !.step = "load", !.key = k]
  <2>1. Turn(w, r) /\ r.step = "load" /\ r # AtRest
    BY <1>6, Turns DEF AtRest
  <2> HIDE DEF r
  <2>2. Kept' /\ writers'[w] = r /\ \A v \in Writer : v # w => writers'[v] = AtRest
    BY <1>4, <1>5, <1>6, <2>1, HeldAsBefore DEF BeginChange
  <2>3. Underway(writers[w])'
    BY <2>1, <2>2 DEF Underway
  <2> QED
    BY <2>2, <2>3, OneAtWork
<1>7. ASSUME NEW w \in Writer, LoadMain(w) PROVE Safe'
  <2> DEFINE r == IF Usable("wallet")
                  THEN [writers[w] EXCEPT !.step = "open",
                          !.keys = stored["wallet"].keys \cup {writers[w].key}]
                  ELSE [writers[w] EXCEPT !.step = "loadbak"]
  <2>1. Turn(w, r)
    BY <1>7, Turns
  <2>2. Kept /\ \A v \in Writer : v # w => writers[v] = AtRest
    BY <1>3, <1>7 DEF LoadMain, Underway
  <2>3. CASE Usable("wallet")
    <3>1. /\ r.step = "open" /\ r.key = writers[w].key
          /\ r.keys = stored["wallet"].keys \cup {writers[w].key}
      BY <1>1, <2>3 DEF Thread
    <3>2. acked \subseteq r.keys /\ r.key \in r.keys
      BY <2>2, <2>3, <3>1 DEF Kept, MainHeld, BackupHeld, Held
    <3> HIDE DEF r
    <3>3. Kept' /\ writers'[w] = r /\ \A v \in Writer : v # w => writers'[v] = AtRest
      BY <1>5, <1>7, <2>1, <2>2, HeldAsBefore DEF LoadMain
    <3>4. Underway(writers[w])'
      BY <1>7, <3>1, <3>2, <3>3 DEF Underway, Gathered, Held, LoadMain
    <3> QED
      BY <3>3, <3>4, OneAtWork
  <2>4. CASE ~Usable("wallet")
    <3>1. r.step = "loadbak"
      BY <1>1, <2>4 DEF Thread
    <3>2. deaths # 0 /\ BackupHeld
      BY <2>2, <2>4 DEF Kept, MainHeld
    <3> HIDE DEF r
    <3>3. /\ Kept' /\ BackupHeld' /\ deaths' = deaths
          /\ writers'[w] = r /\ \A v \in Writer : v # w => writers'[v] = AtRest
      BY <1>5, <1>7, <2>1, <2>2, <3>2, HeldAsBefore DEF LoadMain
    <3>4. Underway(writers[w])'
      BY <3>1, <3>2, <3>3 DEF Underway
    <3> QED
      BY <3>3, <3>4, OneAtWork
  <2> QED
    BY <2>3, <2>4
<1>8. ASSUME NEW w \in Writer, LoadBackup(w) PROVE Safe'
  <2> DEFINE r == [writers[w] EXCEPT !.step = "open",
                     !.keys = stored["bak"].keys \cup {writers[w].key}]
  <2>1. /\ deaths # 0 /\ BackupHeld /\ Usable("bak")
        /\ \A v \in Writer : v # w => writers[v] = AtRest
    BY <1>3, <1>8 DEF LoadBackup, Underway, BackupHeld
  <2>2. Turn(w, r)
    BY <1>8, <2>1, Turns
  <2>3. /\ r.step = "open" /\ r.key = writers[w].key
        /\ r.keys = stored["bak"].keys \cup {writers[w].key}
    BY <1>1 DEF Thread
  <2>4. acked \subseteq r.keys /\ r.key \in r.keys
    BY <2>1, <2>3 DEF BackupHeld, Held
  <2> HIDE DEF r
  <2>5. Kept' /\ writers'[w] = r /\ \A v \in Writer : v # w => writers'[v] = AtRest
    BY <1>5, <1>8, <2>1, <2>2, HeldAsBefore DEF LoadBackup, Kept
  <2>6. Underway(writers[w])'
    BY <1>8, <2>3, <2>4, <2>5 DEF Underway, Gathered, Held, LoadBackup
  <2> QED
    BY <2>5, <2>6, OneAtWork
<1>9. ASSUME NEW w \in Writer, OpenTemp(w) PROVE Safe'
  <2> DEFINE r == [writers[w] EXCEPT !.step = "write", !.open = "tmp"]
  <2>1. /\ Kept /\ Gathered(writers[w])
        /\ \A v \in Writer : v # w => writers[v] = AtRest
    BY <1>3, <1>9 DEF OpenTemp, Underway
  <2>2. Turn(w, r)
    BY <1>9, Turns
  <2>3. /\ r.step = "write" /\ r.open = "tmp"
        /\ r.key = writers[w].key /\ r.keys = writers[w].keys
    BY <1>1 DEF Thread
  <2> HIDE DEF r
  <2>4. stored'["wallet"] = stored["wallet"] /\ stored'["bak"] = stored["bak"]
    BY <1>1, <1>9 DEF OpenTemp
  <2>5. Kept' /\ writers'[w] = r /\ \A v \in Writer : v # w => writers'[v] = AtRest
    BY <1>5, <1>9, <2>1, <2>2, <2>4, HeldAsBefore DEF OpenTemp
  <2>6. Underway(writers[w])'
    BY <1>9, <2>1, <2>3, <2>5 DEF Underway, Gathered, Held, OpenTemp
  <2> QED
    BY <2>5, <2>6, <2>3, <1>2, OneAtWork
<1>10. ASSUME NEW w \in Writer, WriteTemp(w) PROVE Safe'
  <2> DEFINE r == [writers[w] EXCEPT !.step = "unlink", !.open = "none"]
  <2>1. /\ Kept /\ Gathered(writers[w]) /\ writers[w].open = "tmp"
        /\ \A v \in Writer : v # w => writers[v] = AtRest
    BY <1>3, <1>10 DEF WriteTemp, Underway
  <2>2. Turn(w, r)
    BY <1>10, Turns
  <2>3. r.step = "unlink" /\ r.key = writers[w].key /\ r.keys = writers[w].keys
    BY <1>1 DEF Thread
  <2> HIDE DEF r
  <2>4. /\ stored'["wallet"] = stored["wallet"] /\ stored'["bak"] = stored["bak"]
        /\ stored'["tmp"] = Whole(r.keys)
    BY <1>1, <1>10, <2>1, <2>3 DEF WriteTemp
  <2>5. Kept' /\ writers'[w] = r /\ \A v \in Writer : v # w => writers'[v] = AtRest
    BY <1>5, <1>10, <2>1, <2>2, <2>4, HeldAsBefore DEF WriteTemp
  <2>6. Underway(writers[w])'
    BY <1>10, <2>1, <2>3, <2>4, <2>5 DEF Underway, Gathered, CopyWhole, Held, WriteTemp
  <2> QED
    BY <2>5, <2>6, OneAtWork
<1>11. ASSUME NEW w \in Writer, RemoveBackup(w) PROVE Safe'
  <2> DEFINE r == [writers[w] EXCEPT !.step = "rotate"]
  <2>1. /\ Kept /\ CopyWhole(writers[w])
        /\ \A v \in Writer : v # w => writers[v] = AtRest
    BY <1>3, <1>11 DEF RemoveBackup, Underway
  <2>2. writers'[w] = r
    BY <1>11 DEF RemoveBackup
  <2>3. \A v \in Writer : v # w => writers'[v] = AtRest
    BY <1>2, <1>11, <2>1 DEF RemoveBackup
  <2>4. r.step = "rotate" /\ r.key = writers[w].key /\ r.keys = writers[w].keys
    BY <1>1 DEF Thread
  <2> HIDE DEF r
  <2>5. stored'["wallet"] = stored["wallet"] /\ stored'["tmp"] = stored["tmp"]
    BY <1>1, <1>11 DEF RemoveBackup
  <2>6. deaths' = 0 => MainHeld'
    BY <1>11, <2>1, <2>5 DEF RemoveBackup, Kept, MainHeld, Usable, Held
  <2>7. Underway(writers[w])'
    BY <1>11, <2>1, <2>2, <2>4, <2>5, <2>6
       DEF Underway, Gathered, CopyWhole, Held, RemoveBackup
  <2> QED
    BY <1>2, <2>2, <2>3, <2>4, <2>7, OneAtWork
<1>12. ASSUME NEW w \in Writer, writers[w].step \in {"rotate", "replace"},
              NEW from \in FileName, NEW to \in FileName
       PROVE  /\ Followed(from, to) \in [Writer -> Thread]
              /\ Followed(from, to)[w] = writers[w]
              /\ \A v \in Writer : v # w => Followed(from, to)[v] = AtRest
  <2>1. \A v \in Writer : writers[v].open = "none"
    BY <1>1, <1>2, <1>3, <1>12 DEF Proper
  <2>2. \A v \in Writer : Followed(from, to)[v] = writers[v]
    BY <2>1, RenameTypes
  <2> QED
    BY <1>3, <1>12, <2>2, RenameTypes
<1>13. ASSUME NEW w \in Writer, Rotate(w) PROVE Safe'
  <2>1. /\ deaths = 0 => MainHeld
        /\ CopyWhole(writers[w]) /\ \A v \in Writer : v # w => writers[v] = AtRest
    BY <1>3, <1>13 DEF Rotate, Underway
  <2>2. CASE Exists("wallet")
    <3> DEFINE r == [writers[w] EXCEPT !.step = "replace", !.moved = TRUE]
               f == Followed("wallet", "bak")
    <3>1. /\ f \in [Writer -> Thread] /\ f[w] = writers[w]
          /\ \A v \in Writer : v # w => f[v] = AtRest
      BY <1>1, <1>12, <1>13 DEF Rotate
    <3>2. writers' = [f EXCEPT ![w] = [f[w] EXCEPT !.step = "replace", !.moved = TRUE]]
      BY <1>13, <2>2, <3>1 DEF Rotate
    <3> HIDE DEF f
    <3>3. writers'[w] = r /\ \A v \in Writer : v # w => writers'[v] = AtRest
      BY <3>1, <3>2
    <3>4. r.step = "replace" /\ r.key = writers[w].key /\ r.keys = writers[w].keys
      BY <1>1 DEF Thread
    <3> HIDE DEF r
    <3>5. /\ stored'["wallet"] = NoFile /\ stored'["bak"] = stored["wallet"]
          /\ stored'["tmp"] = stored["tmp"]
      BY <1>1, <1>13, <2>2 DEF Rotate, Moved
    <3>6. deaths' = 0 => BackupHeld'
      BY <1>13, <2>1, <3>5 DEF Rotate, MainHeld, BackupHeld, Usable, Held, NoFile
    <3>7. Underway(writers[w])'
      BY <1>13, <2>1, <3>3, <3>4, <3>5, <3>6
         DEF Underway, Gathered, CopyWhole, Held, Rotate
    <3> QED
      BY <1>2, <3>3, <3>4, <3>7, OneAtWork
  <2>3. CASE ~Exists("wallet")
    <3> DEFINE r == [writers[w] EXCEPT !.step = "replace"]
    <3>1. deaths # 0
      BY <2>1, <2>3 DEF MainHeld, Usable, Exists, NoFile
    <3>2. writers'[w] = r /\ \A v \in Writer : v # w => writers'[v] = AtRest
      BY <1>1, <1>13, <2>1, <2>3 DEF Rotate, Goes
    <3>3. r.step = "replace" /\ r.key = writers[w].key /\ r.keys = writers[w].keys
      BY <1>1 DEF Thread
    <3> HIDE DEF r
    <3>4. Underway(writers[w])'
      BY <1>13, <2>1, <2>3, <3>1, <3>2, <3>3
         DEF Underway, Gathered, CopyWhole, Held, Rotate
    <3> QED
      BY <1>2, <3>2, <3>3, <3>4, OneAtWork
  <2> QED
    BY <2>2, <2>3
<1>14. ASSUME NEW w \in Writer, Replace(w) PROVE Safe'
  <2>1. CopyWhole(writers[w])
    BY <1>3, <1>14 DEF Replace, Underway
  <2>2. Exists("tmp")
    BY <2>1 DEF CopyWhole, Exists, Whole, NoFile
  <2>3. /\ stored' = Moved("tmp", "wallet") /\ acked' = acked \cup {writers[w].key}
        /\ writers' = [Followed("tmp", "wallet") EXCEPT ![w] = AtRest]
    BY <1>14, <2>2 DEF Replace, Throws
  <2>4. stored'["wallet"] = Whole(writers[w].keys)
    BY <1>1, <2>1, <2>3 DEF Moved, CopyWhole
  <2>5. MainHeld'
    BY <2>1, <2>3, <2>4 DEF MainHeld, Usable, Held, CopyWhole, Gathered, Whole
  <2>6. writers'[w] = AtRest /\ \A v \in Writer : v # w => writers'[v] = AtRest
    BY <1>1, <1>12, <1>14, <2>3 DEF Replace
  <2> QED
    BY <1>2, <2>5, <2>6, OneAtWork DEF Kept
<1>15. ASSUME NEW w \in Writer, BeginRecover(w) PROVE Safe'
  <2> DEFINE r == [writers[w] EXCEPT !.step = "copy", !.keys = stored["bak"].keys,
                                     !.open = "wallet"]
  <2>1. Turn(w, r) /\ \A v \in Writer : v # w => writers[v] = AtRest
    BY <1>4, <1>15, Turns DEF BeginRecover
  <2>2. r.step = "copy" /\ r.keys = stored["bak"].keys /\ r.open = "wallet"
    BY <1>1 DEF Thread
  <2> HIDE DEF r
  <2>3. writers'[w] = r /\ \A v \in Writer : v # w => writers'[v] = AtRest
    BY <1>5, <2>1
  <2>4. stored'["wallet"] = Empty /\ stored'["bak"] = stored["bak"]
    BY <1>1, <1>15 DEF BeginRecover
  <2>5. BackupHeld'
    BY <1>15, <2>4 DEF BeginRecover, BackupHeld, Usable, Held, Empty
  <2>6. Underway(writers[w])'
    BY <1>15, <2>2, <2>3, <2>5 DEF Underway, Held, BeginRecover
  <2> QED
    BY <1>2, <2>2, <2>3, <2>6, OneAtWork
<1>16. ASSUME NEW w \in Writer, EndRecover(w) PROVE Safe'
  <2>1. /\ writers[w].open = "wallet" /\ Held(writers[w].keys)
        /\ \A v \in Writer : v # w => writers[v] = AtRest
    BY <1>3, <1>16 DEF EndRecover, Underway
  <2>2. stored'["wallet"] = Whole(writers[w].keys) /\ acked' = acked
    BY <1>1, <1>16, <2>1 DEF EndRecover
  <2>3. MainHeld'
    BY <2>1, <2>2 DEF MainHeld, Usable, Held, Whole
  <2>4. writers'[w] = AtRest /\ \A v \in Writer : v # w => writers'[v] = AtRest
    BY <1>1, <1>16, <2>1 DEF EndRecover, Throws
  <2> QED
    BY <1>2, <2>3, <2>4, OneAtWork DEF Kept
<1>17. ASSUME WalletCrash PROVE Safe'
  <2>1. deaths = 0 /\ deaths' # 0 /\ UNCHANGED <<stored, acked>>
    BY <1>1, <1>17 DEF WalletCrash
  <2>2. MainHeld' \/ BackupHeld'
    BY <2>1, OneIsHeld DEF MainHeld, BackupHeld, Usable, Held
  <2>3. Kept' /\ \A w \in Writer : writers'[w] = AtRest
    BY <1>17, <2>1, <2>2 DEF WalletCrash, Kept
  <2> QED
    BY <1>2, <2>3 DEF Safe, Alone
<1>18. ASSUME UNCHANGED walletVars PROVE Safe'
  BY <1>18 DEF walletVars, Safe, Alone, NobodyWrites, Underway, Gathered, CopyWhole, Kept,
               MainHeld, BackupHeld, Held, Usable
<1> QED
  BY <1>6, <1>7, <1>8, <1>9, <1>10, <1>11, <1>13, <1>14, <1>15, <1>16, <1>17, <1>18
     DEF WalletNext
-----------------------------------------------------------------------------
(* Theorems                                                                *)

\* The inductive invariant of the wallet file: the types, and, while changes
\* have not overlapped and the process has died at most once, that each step of
\* persist and of recover leaves the acknowledged keys where load finds them.
THEOREM WalletInvariance == WalletSpec => []WalletInv
<1>1. WalletInit => WalletInv
  <2> SUFFICES ASSUME WalletInit PROVE WalletInv
    OBVIOUS
  <2>1. WalletTyped
    BY TypesAtStart
  <2>2. MainHeld
    BY DEF WalletInit, MainHeld, Usable, Held, FileName, Whole
  <2>3. \A w \in Writer : writers[w] = AtRest
    BY DEF WalletInit
  <2>4. AtRest.step = "rest" /\ Underway(AtRest)
    BY DEF AtRest, Underway
  <2>5. Safe
    BY <2>2, <2>3, <2>4 DEF Safe, Alone, Kept
  <2> QED
    BY <2>1, <2>5 DEF WalletInv
<1>2. WalletInv /\ [WalletNext]_walletVars => WalletInv'
  <2> SUFFICES ASSUME WalletInv, [WalletNext]_walletVars PROVE WalletInv'
    OBVIOUS
  <2>1. WalletTyped /\ WalletTyped'
    BY TypesAreKept DEF WalletInv
  <2>2. overlapped => overlapped'
    BY DEF WalletNext, BeginChange, NoteOverlap, LoadMain, LoadBackup, OpenTemp, WriteTemp,
           RemoveBackup, Rotate, Replace, BeginRecover, EndRecover, WalletCrash, walletVars
  <2>3. deaths' = deaths \/ deaths' = deaths + 1
    BY DEF WalletNext, BeginChange, LoadMain, LoadBackup, OpenTemp, WriteTemp,
           RemoveBackup, Rotate, Replace, BeginRecover, EndRecover, WalletCrash, walletVars
  <2>4. ASSUME ~overlapped', deaths' <= 1 PROVE Safe'
    <3>1. deaths <= 1
      BY <2>1, <2>3, <2>4 DEF WalletTyped
    <3> QED
      BY <2>1, <2>2, <2>4, <3>1, SafetyIsKept DEF WalletInv
  <2> QED
    BY <2>1, <2>4 DEF WalletInv
<1> QED
  BY <1>1, <1>2, PTL DEF WalletSpec

\* The files and threads are in a state persist and recover pass through.
THEOREM WalletTypes == WalletSpec => []WalletTypeOK
<1>1. WalletInv => WalletTypeOK
  BY DEF WalletInv, WalletTyped, WalletTypeOK, Content, Thread
<1> QED
  BY <1>1, WalletInvariance, PTL

\* However many threads and keys there are, changes of the wallet that do not
\* overlap lose no acknowledged key, in whatever step of persist or of recover
\* the process dies.
THEOREM AcknowledgedKeysSurvive == WalletSpec => []AckedKeysLoadable
<1>1. WalletInv => AckedKeysLoadable
  <2> SUFFICES ASSUME WalletInv, ~overlapped, deaths = 0 \/ (NobodyWrites /\ deaths = 1)
               PROVE  Loadable # NoFile /\ acked \subseteq Loadable.keys
    BY DEF AckedKeysLoadable
  <2>1. WalletTyped /\ Safe
    BY DEF WalletInv
  <2>2. MainHeld \/ BackupHeld
    BY <2>1, OneIsHeld DEF Safe, Kept
  <2> QED
    BY <2>2 DEF MainHeld, BackupHeld, Loadable, Usable, Held, NoFile
<1> QED
  BY <1>1, WalletInvariance, PTL
=============================================================================
