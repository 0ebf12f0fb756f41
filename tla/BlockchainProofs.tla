-------------------------- MODULE BlockchainProofs ---------------------------
(***************************************************************************)
(* For every block tree and every reorg policy: the safety invariants of   *)
(* Blockchain, and that it implements ActiveChain.  They rest on what      *)
(* ChainAssumption says of paths, prefixes and linkage.                    *)
(***************************************************************************)
EXTENDS Blockchain, SequenceTheorems, WellFoundedInduction, TLAPS

(* Paths, prefixes and linkage                                             *)

\* The path of a block is a sequence of blocks from genesis to the block.
LEMMA PathShape ==
  ASSUME NEW b \in Block
  PROVE  /\ Chain[b] \in Seq(Block)
         /\ Len(Chain[b]) \in Nat \ {0}
         /\ DOMAIN Chain[b] = 1..Len(Chain[b])
         /\ Chain[b][1] = Genesis
         /\ Chain[b][Len(Chain[b])] = b
         /\ \A i \in 1..Len(Chain[b]) : Chain[b][i] \in Block
         /\ BlocksOf(Chain[b]) \subseteq Block
         /\ b \in BlocksOf(Chain[b])
  BY ChainAssumption DEF BlocksOf

\* The blocks of a path are its elements.
LEMMA OnPath ==
  ASSUME NEW b \in Block, NEW a
  PROVE  a \in BlocksOf(Chain[b]) <=> \E i \in 1..Len(Chain[b]) : a = Chain[b][i]
<1>1. DOMAIN Chain[b] = 1..Len(Chain[b])
  BY PathShape
<1> QED
  BY <1>1 DEF BlocksOf

\* The i-th block of a path has height i - 1 and the prefix as its own path.
LEMMA PrefixShape ==
  ASSUME NEW b \in Block, NEW i \in 1..Len(Chain[b])
  PROVE  /\ Chain[b][i] \in Block
         /\ Chain[Chain[b][i]] = SubSeq(Chain[b], 1, i)
         /\ Len(Chain[Chain[b][i]]) = i
         /\ Height[Chain[b][i]] = i - 1
         /\ \A j \in 1..i : Chain[Chain[b][i]][j] = Chain[b][j]
<1>1. /\ Chain[b] \in Seq(Block)
      /\ Chain[b][i] \in Block
  BY PathShape
<1>2. Chain[Chain[b][i]] = SubSeq(Chain[b], 1, i)
  BY ChainAssumption
<1>3. /\ Len(SubSeq(Chain[b], 1, i)) = i
      /\ \A j \in 1..i : SubSeq(Chain[b], 1, i)[j] = Chain[b][j]
  BY <1>1
<1> QED
  BY <1>1, <1>2, <1>3 DEF Height

\* Only genesis has height 0.
LEMMA GenesisOnly ==
  ASSUME NEW b \in Block
  PROVE  /\ Height[b] \in Nat
         /\ b # Genesis => Len(Chain[b]) >= 2
  BY PathShape DEF Height

\* The header of the i-th block of a path names the block before it.
LEMMA ParentOnPath ==
  ASSUME NEW b \in Block, NEW i \in 2..Len(Chain[b])
  PROVE  Parent[Chain[b][i]] = Chain[b][i - 1]
<1>1. i \in 1..Len(Chain[b]) /\ i - 1 \in 1..i /\ i # 1
  BY PathShape
<1>2. /\ Chain[b][i] \in Block
      /\ Len(Chain[Chain[b][i]]) = i
      /\ Chain[Chain[b][i]][i - 1] = Chain[b][i - 1]
  BY <1>1, PrefixShape
<1>3. Chain[b][i] # Genesis
  <2>1. Len(Chain[Genesis]) = 1
    <3>1. 1 \in 1..Len(Chain[b])
      BY PathShape
    <3>2. Len(Chain[Chain[b][1]]) = 1
      BY <3>1, PrefixShape
    <3> QED
      BY <3>2, PathShape
  <2>2. ASSUME Chain[b][i] = Genesis
        PROVE  FALSE
    <3>1. Len(Chain[Genesis]) = i
      BY <1>2, <2>2
    <3> QED
      BY <1>1, <2>1, <3>1
  <2> QED
    BY <2>2
<1> QED
  BY <1>2, <1>3 DEF Parent

\* A block other than genesis is the child of the block its path comes from.
LEMMA PathOfParent ==
  ASSUME NEW b \in Block, b # Genesis
  PROVE  /\ Parent[b] \in Block
         /\ Len(Chain[Parent[b]]) = Len(Chain[b]) - 1
         /\ Height[b] = Height[Parent[b]] + 1
         /\ BlocksOf(Chain[b]) = BlocksOf(Chain[Parent[b]]) \cup {b}
<1> DEFINE n == Len(Chain[b]) - 1
<1>1. /\ n \in 1..Len(Chain[b])
      /\ n + 1 = Len(Chain[b])
      /\ Parent[b] = Chain[b][n]
  BY PathShape, GenesisOnly DEF Parent
<1>2. /\ Parent[b] \in Block
      /\ Len(Chain[Parent[b]]) = n
      /\ \A j \in 1..n : Chain[Parent[b]][j] = Chain[b][j]
  BY <1>1, PrefixShape
<1>3. Height[b] = Height[Parent[b]] + 1
  BY <1>1, <1>2 DEF Height
<1>4. ASSUME NEW a
      PROVE  a \in BlocksOf(Chain[b]) <=> a \in BlocksOf(Chain[Parent[b]]) \cup {b}
  <2>1. a \in BlocksOf(Chain[b]) <=> \E i \in 1..Len(Chain[b]) : a = Chain[b][i]
    BY OnPath
  <2>2. a \in BlocksOf(Chain[Parent[b]])
          <=> \E i \in 1..Len(Chain[Parent[b]]) : a = Chain[Parent[b]][i]
    BY <1>2, OnPath
  <2>3. Chain[b][Len(Chain[b])] = b /\ n \in Nat
    BY <1>1, PathShape
  <2>4. 1..Len(Chain[b]) = (1..n) \cup {Len(Chain[b])}
    BY <1>1, <2>3
  <2>5. a \in BlocksOf(Chain[Parent[b]]) <=> \E i \in 1..n : a = Chain[b][i]
    BY <1>2, <2>2
  <2>6. a \in BlocksOf(Chain[b]) <=> (\E i \in 1..n : a = Chain[b][i]) \/ a = b
    <3> HIDE DEF n
    <3> QED  BY <2>1, <2>3, <2>4
  <2> QED
    BY <2>5, <2>6
<1> QED
  BY <1>1, <1>2, <1>3, <1>4

\* The ancestors of an ancestor are ancestors.
LEMMA AncestorsOfAncestors ==
  ASSUME NEW b \in Block, NEW a \in BlocksOf(Chain[b])
  PROVE  a \in Block /\ BlocksOf(Chain[a]) \subseteq BlocksOf(Chain[b])
<1>1. PICK i \in 1..Len(Chain[b]) : a = Chain[b][i]
  BY OnPath
<1>2. /\ a \in Block
      /\ Len(Chain[a]) = i
      /\ \A j \in 1..i : Chain[a][j] = Chain[b][j]
  BY <1>1, PrefixShape
<1>3. ASSUME NEW x \in BlocksOf(Chain[a])
      PROVE  x \in BlocksOf(Chain[b])
  <2>1. PICK j \in 1..i : x = Chain[a][j]
    BY <1>2, OnPath
  <2>2. j \in 1..Len(Chain[b]) /\ x = Chain[b][j]
    BY <1>2, <2>1, PathShape
  <2> QED
    BY <2>2, OnPath
<1> QED
  BY <1>2, <1>3

\* A path whose blocks are all known is connected to genesis block by block.
LEMMA KnownPathConnected ==
  ASSUME NEW b \in Block, NEW known, BlocksOf(Chain[b]) \subseteq known
  PROVE  BlocksOf(Chain[b]) \subseteq Connected(known)
<1>1. ASSUME NEW a \in BlocksOf(Chain[b])
      PROVE  a \in Connected(known)
  BY AncestorsOfAncestors DEF Connected
<1> QED
  BY <1>1

\* Contents that end in b and link block by block are the path of b: a block
\* read from a wrong file cannot hide in a validated path.
LEMMA LinkedContents ==
  ASSUME NEW b \in Block, NEW content,
         content[Len(Chain[b])] = b,
         \A i \in 2..Len(Chain[b]) : Parent[content[i]] = content[i - 1]
  PROVE  \A i \in 1..Len(Chain[b]) : content[i] = Chain[b][i]
<1> DEFINE n == Len(Chain[b])
           Off == {k \in Nat : k < n /\ content[n - k] # Chain[b][n - k]}
<1>1. n \in Nat \ {0} /\ Chain[b][n] = b
  BY PathShape
<1>2. ASSUME Off # {}
      PROVE  FALSE
  <2>1. PICK k \in Off : \A j \in Off : ~ (j < k)
    <3>1. Off \subseteq Nat
      OBVIOUS
    <3>2. PICK k \in Off : \A j \in Off : <<j, k>> \notin OpToRel(<, Nat)
      BY <1>2, <3>1, WFMin, NatLessThanWellFounded
    <3> QED
      BY <3>1, <3>2 DEF OpToRel
  <2>2. k \in Nat /\ k < n /\ k # 0
    BY <1>1
  <2>3. k - 1 \notin Off /\ k - 1 \in Nat
    BY <2>1, <2>2
  <2>4. content[n - (k - 1)] = Chain[b][n - (k - 1)]
    BY <1>1, <2>2, <2>3
  <2> DEFINE i == n - (k - 1)
  <2>5. i \in 2..Len(Chain[b]) /\ i - 1 = n - k
    BY <1>1, <2>2
  <2>6. Parent[Chain[b][i]] = Chain[b][i - 1]
    BY <2>5, ParentOnPath
  <2>7. Parent[content[i]] = content[i - 1]
    BY <2>5
  <2>8. content[n - k] = Chain[b][n - k]
    BY <2>4, <2>5, <2>6, <2>7
  <2> QED
    BY <2>8
<1>3. ASSUME NEW i \in 1..n
      PROVE  content[i] = Chain[b][i]
  <2>1. n - i \in Nat /\ n - i < n /\ n - (n - i) = i
    BY <1>1
  <2> QED
    BY <1>2, <2>1
<1> QED
  BY <1>3

-----------------------------------------------------------------------------
(* The inductive invariant                                                 *)

\* Together the invariants are inductive: see Preserved.
IInv ==
  /\ TypeOK
  /\ ActiveChainSound
  /\ HeightFilesServeChain
  /\ Bookkeeping
  /\ HeadersPersisted
  /\ CheckpointOnChain

Checkpoints == [height : Nat, hash : Block]
HeightFiles == [Heights -> Block \cup {NoBlock}]

-----------------------------------------------------------------------------
(* The operators                                                           *)

\* A trailing checkpoint lies on the path it trails.
LEMMA TrailingOnPath ==
  ASSUME NEW path \in Seq(Block) \ {<<>>}
  PROVE  /\ TrailingCheckpoint(path) \in Checkpoints
         /\ MatchesCheckpoint(path, TrailingCheckpoint(path))
  BY ReorgAssumption
  DEF TrailingCheckpoint, MatchesCheckpoint, BestHeight, Checkpoints

\* A refreshed checkpoint is on the path when the old one was, or is not pinned.
LEMMA RefreshedOnPath ==
  ASSUME NEW path \in Seq(Block) \ {<<>>}, NEW cp \in Checkpoints, NEW isPinned
  PROVE  /\ RefreshedCheckpoint(path, cp, isPinned) \in Checkpoints
         /\ ~isPinned \/ MatchesCheckpoint(path, cp)
              => MatchesCheckpoint(path, RefreshedCheckpoint(path, cp, isPinned))
  BY TrailingOnPath DEF RefreshedCheckpoint

\* prune_height_files_after touches no file up to best.
LEMMA PruneShape ==
  ASSUME NEW best \in Int, NEW fileAt \in HeightFiles
  PROVE  /\ PruneAfter(best, fileAt) \in HeightFiles
         /\ \A h \in Heights : h <= best => PruneAfter(best, fileAt)[h] = fileAt[h]
<1>1. Heights \subseteq Nat
  BY GenesisOnly DEF Heights
<1> QED
  BY <1>1 DEF PruneAfter, HeightFiles

\* The height files of an activated path hold that path.
LEMMA WriteShape ==
  ASSUME NEW content \in Seq(Block), NEW fileAt \in HeightFiles
  PROVE  /\ WriteHeights(content, fileAt) \in HeightFiles
         /\ \A h \in Heights :
              h < Len(content) => WriteHeights(content, fileAt)[h] = content[h + 1]
<1> DEFINE written == [h \in Heights |-> IF h < Len(content) THEN content[h + 1]
                                                             ELSE fileAt[h]]
<1>1. Heights \subseteq Nat
  BY GenesisOnly DEF Heights
<1>2. written \in HeightFiles
  BY <1>1 DEF HeightFiles
<1>3. /\ PruneAfter(Len(content) - 1, written) \in HeightFiles
      /\ \A h \in Heights : h <= Len(content) - 1 =>
           PruneAfter(Len(content) - 1, written)[h] = written[h]
  BY <1>2, PruneShape
<1>4. WriteHeights(content, fileAt) = PruneAfter(Len(content) - 1, written)
  BY DEF WriteHeights
<1> QED
  BY <1>1, <1>3, <1>4

\* Pushing and popping keeps the stack a stack of sets of blocks.
LEMMA StackShape ==
  ASSUME NEW kids \in SUBSET Block, NEW rest \in Seq(SUBSET Block)
  PROVE  Push(kids, rest) \in Seq(SUBSET Block)
<1>1. <<kids>> \in Seq(SUBSET Block)
  OBVIOUS
<1>2. <<kids>> \o rest \in Seq(SUBSET Block)
  BY <1>1, ConcatProperties
<1> QED
  BY <1>2 DEF Push

LEMMA WithoutShape ==
  ASSUME TypeOK, pending # <<>>, NEW k
  PROVE  /\ Head(pending) \subseteq Block
         /\ Without(k) \in Seq(SUBSET Block)
<1>1. pending \in Seq(SUBSET Block)
  BY DEF TypeOK
<1>2. Head(pending) \in SUBSET Block /\ Tail(pending) \in Seq(SUBSET Block)
  BY <1>1
<1>3. Push(Head(pending) \ {k}, Tail(pending)) \in Seq(SUBSET Block)
  BY <1>2, StackShape
<1> QED
  BY <1>2, <1>3 DEF Without

\* A map made from the work or the height of some blocks.
LEMMA MapShape ==
  ASSUME NEW S
  PROVE  /\ On(S, TotalWork) \in [Block -> Nat \cup {Absent}]
         /\ On(S, Height) \in [Block -> Nat \cup {Absent}]
         /\ On(S, Height) \in [Block -> Heights \cup {Absent}]
         /\ \A b \in Block :
              /\ On(S, TotalWork)[b] = IF b \in S THEN TotalWork[b] ELSE Absent
              /\ On(S, Height)[b] = IF b \in S THEN Height[b] ELSE Absent
              /\ TotalWork[b] # Absent
              /\ Height[b] # Absent
<1>1. \A b \in Block : Height[b] \in Nat /\ Height[b] \in Heights
  BY GenesisOnly DEF Heights
<1>2. \A b \in Block : TotalWork[b] \in Nat
  BY WorkAssumption
<1> QED
  BY <1>1, <1>2 DEF On, Absent

-----------------------------------------------------------------------------
(* Facts about the state                                                   *)

\* The active chain is the path of its tip, one block per height.
LEMMA ActivePath ==
  ASSUME TypeOK, ActiveChainSound
  PROVE  /\ Tip(heightMap) \in Block
         /\ heightMap = Chain[Tip(heightMap)]
         /\ Len(heightMap) \in Nat \ {0}
         /\ BlocksOf(heightMap) \subseteq Block
         /\ \A i \in 1..Len(heightMap) :
              /\ heightMap[i] \in Block
              /\ heightMap[i] \in BlocksOf(heightMap)
              /\ Height[heightMap[i]] = i - 1
              /\ i > 1 => Parent[heightMap[i]] = heightMap[i - 1]
              /\ Sound(heightMap[i])
<1>1. /\ Tip(heightMap) \in Block
      /\ Len(heightMap) \in Nat \ {0}
      /\ heightMap = Chain[Tip(heightMap)]
  BY DEF TypeOK, ActiveChainSound, Tip
<1>2. BlocksOf(heightMap) \subseteq Block
  BY <1>1, PathShape
<1>3. ASSUME NEW i \in 1..Len(heightMap)
      PROVE  /\ heightMap[i] \in Block
             /\ heightMap[i] \in BlocksOf(heightMap)
             /\ Height[heightMap[i]] = i - 1
  <2>1. i \in 1..Len(Chain[Tip(heightMap)])
    BY <1>1
  <2>2. Chain[Tip(heightMap)][i] \in BlocksOf(Chain[Tip(heightMap)])
    BY <1>1, <2>1, OnPath
  <2>3. /\ Chain[Tip(heightMap)][i] \in Block
        /\ Height[Chain[Tip(heightMap)][i]] = i - 1
    BY <1>1, <2>1, PrefixShape
  <2> QED
    BY <1>1, <2>2, <2>3
<1>4. ASSUME NEW i \in 1..Len(heightMap), i > 1
      PROVE  Parent[heightMap[i]] = heightMap[i - 1]
  <2>1. i \in 2..Len(Chain[Tip(heightMap)])
    BY <1>1, <1>4
  <2> QED
    BY <1>1, <2>1, ParentOnPath
<1>5. \A a \in BlocksOf(heightMap) : Sound(a)
  BY <1>1 DEF ActiveChainSound, SoundChain
<1> QED
  BY <1>1, <1>2, <1>3, <1>4, <1>5

\* What get_block_by_hash answers is a block or nothing.
LEMMA FetchShape ==
  ASSUME NEW known, NEW pool, NEW heightOf \in [Block -> Heights \cup {Absent}],
         NEW fileAt \in HeightFiles, NEW b \in Block
  PROVE  Fetch(known, pool, heightOf, fileAt, b) \in Block \cup {NoBlock}
  BY DEF Fetch, HeightFiles

\* A candidate extends a processed parent: the lookups of accept_block succeed.
LEMMA CandidatePath ==
  ASSUME IInv, NEW b \in Block, Candidate(b)
  PROVE  /\ Parent[b] \in Block
         /\ CandidateWork(b) = TotalWork[b]
         /\ blockHeight[Parent[b]] + 1 = Height[b]
         /\ BlocksOf(Chain[b]) \subseteq index \cup {b}
         /\ \A a \in BlocksOf(Chain[b]) \ {b} : chainWork[a] # Absent
         /\ heightIndex[b] = Absent
         /\ b \notin BlocksOf(heightMap)
<1>1. /\ b # Genesis
      /\ chainWork[b] = Absent
      /\ chainWork[Parent[b]] # Absent
      /\ BlocksOf(Chain[b]) \subseteq index \cup {b}
  BY DEF Candidate, ParentProcessed
<1>2. /\ Parent[b] \in Block
      /\ Height[b] = Height[Parent[b]] + 1
      /\ BlocksOf(Chain[b]) = BlocksOf(Chain[Parent[b]]) \cup {b}
  BY <1>1, PathOfParent
<1>3. /\ chainWork[Parent[b]] = TotalWork[Parent[b]]
      /\ blockHeight[Parent[b]] = Height[Parent[b]]
      /\ \A a \in BlocksOf(Chain[Parent[b]]) : chainWork[a] # Absent
  BY <1>1, <1>2 DEF IInv, Bookkeeping
<1>4. TotalWork[b] = TotalWork[Parent[b]] + BlockWork[b]
  BY <1>1, WorkAssumption
<1>5. heightIndex[b] = Absent /\ b \notin BlocksOf(heightMap)
  BY <1>1 DEF IInv, Bookkeeping
<1> QED
  BY <1>1, <1>2, <1>3, <1>4, <1>5 DEF CandidateWork

\* Contents that validate are the hash path itself, whatever files they were
\* read from, and every block of it is sound.
LEMMA ValidContents ==
  ASSUME TypeOK, NEW b \in Block, Validates(CandidateContent(b))
  PROVE  /\ CandidateContent(b) = Chain[b]
         /\ SoundChain(b)
<1> DEFINE content == CandidateContent(b)
           n == Len(Chain[b])
<1>1. /\ Chain[b] \in Seq(Block)
      /\ n \in Nat \ {0}
      /\ DOMAIN Chain[b] = 1..n
      /\ \A i \in 1..n : Chain[b][i] \in Block
      /\ Chain[b][n] = b
  BY PathShape
<1>2. /\ content = [i \in 1..n |-> Fetch(index \cup {b}, blockPool \cup {b},
                                         heightIndex, heightFile, Chain[b][i])]
      /\ Len(content) = n
  BY <1>1 DEF CandidateContent, Contents
<1>3. content[n] = b
  <2>1. Fetch(index \cup {b}, blockPool \cup {b}, heightIndex, heightFile, b) = b
    BY DEF Fetch
  <2> QED
    BY <1>1, <1>2, <2>1
<1>4. \A i \in 1..n : BlockValid(content, i)
  BY <1>2 DEF Validates
<1>5. \A i \in 2..n : Parent[content[i]] = content[i - 1]
  BY <1>1, <1>4 DEF BlockValid
<1>6. \A i \in 1..n : content[i] = Chain[b][i]
  BY <1>3, <1>5, LinkedContents
<1>7. content = Chain[b]
  <2>1. Chain[b] = [i \in 1..n |-> Chain[b][i]]
    BY <1>1
  <2>2. content = [i \in 1..n |-> content[i]]
    BY <1>2
  <2> HIDE DEF content
  <2> QED
    BY <1>6, <2>1, <2>2
<1>8. SoundChain(b)
  <2>1. ASSUME NEW a \in BlocksOf(Chain[b])
        PROVE  Sound(a)
    <3>1. PICK i \in 1..n : a = Chain[b][i]
      BY OnPath
    <3>2. Sound(content[i])
      BY <1>4, <3>1 DEF BlockValid
    <3> QED
      BY <1>6, <3>1, <3>2
  <2> QED
    BY <2>1 DEF SoundChain
<1> QED
  BY <1>7, <1>8

\* Rebuilding the maps around an active chain whose headers are all known.
LEMMA RebuildShape ==
  ASSUME NEW known \in SUBSET Block, NEW t \in Block, NEW path,
         path = Chain[t], BlocksOf(path) \subseteq known,
         RebuildMaps(known, path), heightMap' = path, index' = known
  PROVE  /\ chainWork' \in [Block -> Nat \cup {Absent}]
         /\ blockHeight' \in [Block -> Nat \cup {Absent}]
         /\ heightIndex' \in [Block -> Heights \cup {Absent}]
         /\ children' \in [Block -> SUBSET Block]
         /\ Bookkeeping'
<1> DEFINE reached == Connected(known)
<1>1. BlocksOf(path) \subseteq reached
  BY KnownPathConnected
<1>2. reached \cup BlocksOf(path) = reached
  BY <1>1
<1>3. /\ chainWork' = On(reached, TotalWork)
      /\ blockHeight' = On(reached, Height)
      /\ heightIndex' = On(reached, Height)
      /\ children' = [p \in Block |-> {b \in known : Parent[b] = p}]
  BY <1>2 DEF RebuildMaps
<1>4. \A b \in Block :
        /\ chainWork'[b] = IF b \in reached THEN TotalWork[b] ELSE Absent
        /\ blockHeight'[b] = IF b \in reached THEN Height[b] ELSE Absent
        /\ heightIndex'[b] = IF b \in reached THEN Height[b] ELSE Absent
        /\ TotalWork[b] # Absent
        /\ Height[b] # Absent
  BY <1>3, MapShape
<1>5. ASSUME NEW b \in reached, NEW a \in BlocksOf(Chain[b])
      PROVE  a \in known /\ a \in reached /\ a \in Block
  <2>1. b \in Block /\ BlocksOf(Chain[b]) \subseteq known
    BY DEF Connected
  <2> QED
    BY <2>1, KnownPathConnected, AncestorsOfAncestors
<1>6. BlocksOf(path) \subseteq Block
  BY PathShape
<1>7. Bookkeeping'
  <2>1. BlocksOf(heightMap') \subseteq {b \in Block : heightIndex'[b] # Absent}
    BY <1>1, <1>4, <1>6
  <2>2. ASSUME NEW b \in Block
        PROVE  /\ (chainWork'[b] = Absent) <=> (blockHeight'[b] = Absent)
               /\ heightIndex'[b] # Absent => /\ chainWork'[b] # Absent
                                              /\ heightIndex'[b] = Height[b]
               /\ chainWork'[b] # Absent =>
                    /\ chainWork'[b] = TotalWork[b]
                    /\ blockHeight'[b] = Height[b]
                    /\ \A a \in BlocksOf(Chain[b]) :
                         a \in index' /\ chainWork'[a] # Absent
    BY <1>4, <1>5
  <2> QED
    BY <2>1, <2>2 DEF Bookkeeping
<1>8. children' \in [Block -> SUBSET Block]
  BY <1>3
<1> QED
  BY <1>3, <1>7, <1>8, MapShape

-----------------------------------------------------------------------------
(* accept_block: each way it ends preserves the invariants                 *)

\* A block rejected for its timestamp leaves only the stack changed.
LEMMA RejectTimestampStep ==
  ASSUME IInv, NEW b \in Block, NEW rest \in Seq(SUBSET Block),
         RejectTimestamp(b, rest), UNCHANGED <<started, losses>>
  PROVE  IInv'
<1> USE DEF RejectTimestamp, maps, files
<1>1. TypeOK'
  BY DEF IInv, TypeOK
<1>2. ActiveChainSound' /\ HeightFilesServeChain' /\ HeadersPersisted' /\ CheckpointOnChain'
  BY DEF IInv, ActiveChainSound, HeightFilesServeChain, HeadersPersisted, CheckpointOnChain
<1>3. Bookkeeping'
  BY DEF IInv, Bookkeeping
<1> QED
  BY <1>1, <1>2, <1>3 DEF IInv

\* Caching a block adds to index_, block_pool_ and the hash files.
LEMMA CacheStep ==
  ASSUME IInv, NEW b \in Block, NEW rest \in Seq(SUBSET Block), Cache(b),
         children' \in [Block -> SUBSET Block], pending' = rest,
         UNCHANGED <<heightMap, chainWork, blockHeight, heightIndex,
                     localCheckpoint, pinned, utxo, heightFile, headerFile,
                     started, losses>>
  PROVE  IInv'
<1>1. TypeOK'
  BY DEF IInv, TypeOK, Cache
<1>2. ActiveChainSound' /\ HeightFilesServeChain' /\ HeadersPersisted' /\ CheckpointOnChain'
  BY DEF IInv, ActiveChainSound, HeightFilesServeChain, HeadersPersisted, CheckpointOnChain
<1>3. Bookkeeping'
  BY DEF IInv, Bookkeeping, Cache
<1> QED
  BY <1>1, <1>2, <1>3 DEF IInv

\* A parked block waits under a parent that is a block.
LEMMA ParkOrphanStep ==
  ASSUME IInv, NEW b \in Block, NEW rest \in Seq(SUBSET Block),
         ParkOrphan(b, rest), UNCHANGED <<started, losses>>
  PROVE  IInv'
<1>1. children' \in [Block -> SUBSET Block]
  BY DEF ParkOrphan, IInv, TypeOK
<1> QED
  BY <1>1, CacheStep DEF ParkOrphan

\* A side block is given the work and the height its parent's entries add up to.
LEMMA StoreSideStep ==
  ASSUME IInv, NEW b \in Block, NEW rest \in Seq(SUBSET Block),
         StoreSide(b, rest), UNCHANGED <<started, losses>>
  PROVE  IInv'
<1> USE DEF StoreSide
<1>1. /\ CandidateWork(b) = TotalWork[b] /\ TotalWork[b] \in Nat
      /\ blockHeight[Parent[b]] + 1 = Height[b] /\ Height[b] \in Nat
      /\ BlocksOf(Chain[b]) \subseteq index \cup {b}
      /\ \A a \in BlocksOf(Chain[b]) \ {b} : chainWork[a] # Absent
      /\ heightIndex[b] = Absent
  BY CandidatePath, GenesisOnly, WorkAssumption
<1>2. pending' \in Seq(SUBSET Block)
  BY StackShape DEF IInv, TypeOK
<1>3. /\ chainWork' = [chainWork EXCEPT ![b] = TotalWork[b]]
      /\ blockHeight' = [blockHeight EXCEPT ![b] = Height[b]]
  BY <1>1
<1>4. TypeOK'
  BY <1>1, <1>2, <1>3 DEF IInv, TypeOK, Cache
<1>5. ActiveChainSound' /\ HeightFilesServeChain' /\ HeadersPersisted' /\ CheckpointOnChain'
  BY DEF IInv, ActiveChainSound, HeightFilesServeChain, HeadersPersisted, CheckpointOnChain
<1>6. Bookkeeping'
  <2>1. \A c \in Block : /\ chainWork'[c] = IF c = b THEN TotalWork[b] ELSE chainWork[c]
                         /\ blockHeight'[c] = IF c = b THEN Height[b] ELSE blockHeight[c]
    BY <1>3 DEF IInv, TypeOK
  <2>2. index' = index \cup {b} /\ heightIndex' = heightIndex /\ heightMap' = heightMap
    BY DEF Cache
  <2>3. TotalWork[b] # Absent /\ Height[b] # Absent
    BY <1>1 DEF Absent
  <2>4. BlocksOf(heightMap') \subseteq {c \in Block : heightIndex'[c] # Absent}
    BY <2>2 DEF IInv, Bookkeeping
  <2>5. ASSUME NEW c \in Block
        PROVE  /\ (chainWork'[c] = Absent) <=> (blockHeight'[c] = Absent)
               /\ heightIndex'[c] # Absent => /\ chainWork'[c] # Absent
                                              /\ heightIndex'[c] = Height[c]
               /\ chainWork'[c] # Absent =>
                    /\ chainWork'[c] = TotalWork[c]
                    /\ blockHeight'[c] = Height[c]
    BY <1>1, <2>1, <2>2, <2>3 DEF IInv, Bookkeeping
  <2>6. ASSUME NEW c \in Block, chainWork'[c] # Absent, NEW a \in BlocksOf(Chain[c])
        PROVE  a \in index' /\ chainWork'[a] # Absent
    <3>1. a \in Block
      BY PathShape
    <3>2. CASE c = b
      BY <1>1, <2>1, <2>2, <2>3, <3>1, <3>2
    <3>3. CASE c # b
      BY <2>1, <2>2, <2>3, <2>6, <3>1, <3>3 DEF IInv, Bookkeeping
    <3> QED
      BY <3>2, <3>3
  <2> QED
    BY <2>4, <2>5, <2>6 DEF Bookkeeping
<1> QED
  BY <1>4, <1>5, <1>6 DEF IInv

\* The purge of an invalid block spares the active chain: none of its blocks
\* is without an entry in height_index_.
LEMMA PurgeInvalidStep ==
  ASSUME IInv, NEW b \in Block, NEW rest \in Seq(SUBSET Block),
         PurgeInvalid(b, rest), UNCHANGED <<started, losses>>
  PROVE  IInv'
<1> DEFINE doomed == {d \in Subtree(b, index \cup {b}) : heightIndex[d] = Absent}
           known == (index \cup {b}) \ doomed
<1>1. /\ index' = known
      /\ blockPool' = (blockPool \cup {b}) \ doomed
      /\ hashFile' = (hashFile \cup {b}) \ doomed
      /\ headerFile' = known
      /\ RebuildMaps(known, heightMap)
      /\ pending' = rest
      /\ UNCHANGED <<heightMap, localCheckpoint, pinned, utxo, heightFile>>
  BY DEF PurgeInvalid, PersistHeaders
<1>2. /\ Tip(heightMap) \in Block
      /\ heightMap = Chain[Tip(heightMap)]
      /\ BlocksOf(heightMap) \subseteq Block
  BY ActivePath DEF IInv
<1>3. BlocksOf(heightMap) \subseteq known
  <2>1. ASSUME NEW a \in BlocksOf(heightMap)
        PROVE  a \in index /\ a \notin doomed
    <3>1. a \in Block /\ heightIndex[a] # Absent /\ chainWork[a] # Absent
      BY DEF IInv, Bookkeeping
    <3>2. a \in BlocksOf(Chain[a])
      BY <3>1, PathShape
    <3> QED
      BY <3>1, <3>2 DEF IInv, Bookkeeping
  <2> QED
    BY <2>1
<1>4. known \in SUBSET Block
  BY DEF IInv, TypeOK
<1> HIDE DEF known, doomed
<1>5. /\ chainWork' \in [Block -> Nat \cup {Absent}]
      /\ blockHeight' \in [Block -> Nat \cup {Absent}]
      /\ heightIndex' \in [Block -> Heights \cup {Absent}]
      /\ children' \in [Block -> SUBSET Block]
      /\ Bookkeeping'
  BY <1>1, <1>2, <1>3, <1>4, RebuildShape
<1>6. TypeOK'
  BY <1>1, <1>4, <1>5 DEF IInv, TypeOK
<1>7. ActiveChainSound' /\ HeightFilesServeChain' /\ HeadersPersisted' /\ CheckpointOnChain'
  BY <1>1, <1>3 DEF IInv, ActiveChainSound, HeightFilesServeChain, HeadersPersisted,
                    CheckpointOnChain
<1> QED
  BY <1>5, <1>6, <1>7 DEF IInv

\* Activating a path: the chain, the UTXO set and the height files move together
\* and the checkpoint follows or, when pinned, was on the path already.
LEMMA ActivatedPath ==
  ASSUME IInv, NEW t \in Block, NEW path, path = Chain[t], SoundChain(t),
         ActivatePath(path, path)
  PROVE  /\ heightMap' \in Seq(Block) \ {<<>>}
         /\ utxo' \in Seq(Block)
         /\ heightFile' \in HeightFiles
         /\ localCheckpoint' \in Checkpoints
         /\ ActiveChainSound'
         /\ HeightFilesServeChain'
         /\ ~pinned \/ MatchesCheckpoint(path, localCheckpoint)
              => MatchesCheckpoint(path, localCheckpoint')
<1>1. /\ path \in Seq(Block) \ {<<>>}
      /\ Len(path) \in Nat \ {0}
      /\ path[Len(path)] = t
  BY PathShape
<1>2. /\ heightMap' = path
      /\ utxo' = path
      /\ heightFile' = WriteHeights(path, heightFile)
      /\ localCheckpoint' = RefreshedCheckpoint(path, localCheckpoint, pinned)
  BY DEF ActivatePath
<1>3. heightFile \in HeightFiles /\ localCheckpoint \in Checkpoints
  BY DEF IInv, TypeOK, HeightFiles, Checkpoints
<1>4. /\ heightFile' \in HeightFiles
      /\ \A h \in Heights : h < Len(path) => heightFile'[h] = path[h + 1]
  BY <1>1, <1>2, <1>3, WriteShape
<1>5. /\ localCheckpoint' \in Checkpoints
      /\ ~pinned \/ MatchesCheckpoint(path, localCheckpoint)
              => MatchesCheckpoint(path, localCheckpoint')
  BY <1>1, <1>2, <1>3, RefreshedOnPath
<1>6. ActiveChainSound'
  BY <1>1, <1>2 DEF ActiveChainSound, Tip
<1>7. HeightFilesServeChain'
  <2>1. ASSUME NEW h \in 0..(Len(path) - 1)
        PROVE  heightFile'[h] = path[h + 1]
    <3>1. h + 1 \in 1..Len(Chain[t]) /\ h < Len(path)
      BY <1>1
    <3>2. Height[Chain[t][h + 1]] = (h + 1) - 1 /\ Chain[t][h + 1] \in Block
      BY <3>1, PrefixShape
    <3>3. h \in Heights
      BY <3>1, <3>2 DEF Heights
    <3> QED
      BY <1>4, <3>1, <3>3
  <2> QED
    BY <1>2, <2>1 DEF HeightFilesServeChain, BestHeight
<1> QED
  BY <1>1, <1>2, <1>4, <1>5, <1>6, <1>7

\* The maps of an activated path know the path and nothing else.
LEMMA ActivateStep ==
  ASSUME IInv, NEW b \in Block, NEW rest \in Seq(SUBSET Block),
         Activate(b, rest), UNCHANGED <<started, losses>>
  PROVE  IInv'
<1> DEFINE path == Chain[b]
<1>1. /\ CandidateContent(b) = path
      /\ SoundChain(b)
      /\ Candidate(b)
  BY ValidContents DEF Activate, IInv
<1>2. /\ ActivatePath(path, path)
      /\ MatchesCheckpoint(path, localCheckpoint)
      /\ chainWork' = On(BlocksOf(path), TotalWork)
      /\ blockHeight' = On(BlocksOf(path), Height)
      /\ heightIndex' = On(BlocksOf(path), Height)
      /\ heightMap' = path
      /\ index' = index \cup {b}
      /\ blockPool' = blockPool \cup {b}
      /\ hashFile' = hashFile \cup {b} \cup BlocksOf(path)
      /\ headerFile' = index \cup {b}
      /\ pending' = Push(children[b], rest)
      /\ UNCHANGED <<children, pinned>>
  BY <1>1 DEF Activate, ActivateMaps, ActivatePath, MayReplaceTip, PersistHeaders
<1>3. BlocksOf(path) \subseteq index \cup {b} /\ BlocksOf(path) \subseteq Block
  BY <1>1, CandidatePath, PathShape
<1>4. /\ heightMap' \in Seq(Block) \ {<<>>}
      /\ utxo' \in Seq(Block)
      /\ heightFile' \in HeightFiles
      /\ localCheckpoint' \in Checkpoints
      /\ ActiveChainSound'
      /\ HeightFilesServeChain'
      /\ MatchesCheckpoint(path, localCheckpoint')
  BY <1>1, <1>2, ActivatedPath
<1>5. \A c \in Block :
        /\ chainWork'[c] = IF c \in BlocksOf(path) THEN TotalWork[c] ELSE Absent
        /\ blockHeight'[c] = IF c \in BlocksOf(path) THEN Height[c] ELSE Absent
        /\ heightIndex'[c] = IF c \in BlocksOf(path) THEN Height[c] ELSE Absent
        /\ TotalWork[c] # Absent
        /\ Height[c] # Absent
  BY <1>2, MapShape
<1>6. TypeOK'
  <2>1. /\ chainWork' \in [Block -> Nat \cup {Absent}]
        /\ blockHeight' \in [Block -> Nat \cup {Absent}]
        /\ heightIndex' \in [Block -> Heights \cup {Absent}]
    BY <1>2, MapShape
  <2>2. pending' \in Seq(SUBSET Block)
    BY <1>2, StackShape DEF IInv, TypeOK
  <2>3. /\ index' \subseteq Block /\ blockPool' \subseteq Block
        /\ hashFile' \subseteq Block /\ headerFile' \subseteq Block
        /\ children' \in [Block -> SUBSET Block]
        /\ pinned' \in BOOLEAN /\ started' \in BOOLEAN /\ losses' \in Nat
    BY <1>2, <1>3 DEF IInv, TypeOK
  <2> QED
    BY <1>4, <2>1, <2>2, <2>3 DEF TypeOK, HeightFiles, Checkpoints
<1>7. Bookkeeping'
  <2>1. BlocksOf(heightMap') \subseteq {c \in Block : heightIndex'[c] # Absent}
    BY <1>2, <1>3, <1>5
  <2>2. ASSUME NEW c \in Block
        PROVE  /\ (chainWork'[c] = Absent) <=> (blockHeight'[c] = Absent)
               /\ heightIndex'[c] # Absent => /\ chainWork'[c] # Absent
                                              /\ heightIndex'[c] = Height[c]
               /\ chainWork'[c] # Absent =>
                    /\ chainWork'[c] = TotalWork[c]
                    /\ blockHeight'[c] = Height[c]
    BY <1>5
  <2>3. ASSUME NEW c \in Block, chainWork'[c] # Absent, NEW a \in BlocksOf(Chain[c])
        PROVE  a \in index' /\ chainWork'[a] # Absent
    <3>1. c \in BlocksOf(path)
      BY <1>5, <2>3
    <3>2. a \in Block /\ a \in BlocksOf(path)
      BY <3>1, AncestorsOfAncestors
    <3> QED
      BY <1>2, <1>3, <1>5, <3>2
  <2> QED
    BY <2>1, <2>2, <2>3 DEF Bookkeeping
<1>8. HeadersPersisted' /\ CheckpointOnChain'
  BY <1>2, <1>3, <1>4 DEF HeadersPersisted, CheckpointOnChain
<1> QED
  BY <1>4, <1>6, <1>7, <1>8 DEF IInv

\* Every way accept_block ends.
LEMMA AcceptBlockStep ==
  ASSUME IInv, NEW b \in Block, NEW rest \in Seq(SUBSET Block),
         AcceptBlock(b, rest), UNCHANGED <<started, losses>>
  PROVE  IInv'
<1>1. CASE RejectTimestamp(b, rest)
  BY <1>1, RejectTimestampStep
<1>2. CASE AcceptKnown(b, rest)
  BY <1>2, CacheStep DEF AcceptKnown, maps, IInv, TypeOK
<1>3. CASE ParkOrphan(b, rest)
  BY <1>3, ParkOrphanStep
<1>4. CASE PurgeInvalid(b, rest)
  BY <1>4, PurgeInvalidStep
<1>5. CASE RejectCandidate(b, rest)
  BY <1>5, CacheStep DEF RejectCandidate, maps, IInv, TypeOK
<1>6. CASE StoreSide(b, rest)
  BY <1>6, StoreSideStep
<1>7. CASE Activate(b, rest)
  BY <1>7, ActivateStep
<1> QED
  BY <1>1, <1>2, <1>3, <1>4, <1>5, <1>6, <1>7 DEF AcceptBlock

-----------------------------------------------------------------------------
(* The other steps                                                         *)

\* One parked child is retried, or passed over.
LEMMA RetryParkedStep ==
  ASSUME IInv, RetryParked
  PROVE  IInv'
<1>1. PICK k \in Head(pending) : RetryChild(k) \/ SkipChild(k)
  BY DEF RetryParked
<1>2. k \in Block /\ Without(k) \in Seq(SUBSET Block)
  BY WithoutShape DEF RetryParked, IInv
<1>3. CASE RetryChild(k)
  BY <1>2, <1>3, AcceptBlockStep DEF RetryChild
<1>4. CASE SkipChild(k)
  <2> USE <1>4 DEF SkipChild, maps, files
  <2>1. TypeOK'
    BY <1>2 DEF IInv, TypeOK
  <2>2. /\ ActiveChainSound' /\ HeightFilesServeChain'
        /\ HeadersPersisted' /\ CheckpointOnChain'
    BY DEF IInv, ActiveChainSound, HeightFilesServeChain, HeadersPersisted,
           CheckpointOnChain
  <2>3. Bookkeeping'
    BY DEF IInv, Bookkeeping
  <2> QED
    BY <2>1, <2>2, <2>3 DEF IInv
<1> QED
  BY <1>1, <1>3, <1>4

\* Any checkpoint on the active chain may be installed.
LEMMA SetCheckpointStep ==
  ASSUME IInv, NEW cp \in Checkpoints, NEW isPinned \in BOOLEAN,
         SetCheckpoint(cp, isPinned), MatchesCheckpoint(heightMap, cp)
  PROVE  IInv'
<1> USE DEF SetCheckpoint, maps, files
<1>1. TypeOK'
  BY DEF IInv, TypeOK, Checkpoints
<1>2. ActiveChainSound' /\ HeightFilesServeChain' /\ HeadersPersisted' /\ CheckpointOnChain'
  BY DEF IInv, ActiveChainSound, HeightFilesServeChain, HeadersPersisted, CheckpointOnChain
<1>3. Bookkeeping'
  BY DEF IInv, Bookkeeping
<1> QED
  BY <1>1, <1>2, <1>3 DEF IInv

\* Pinning, unpinning and refreshing install a checkpoint of the active chain.
LEMMA CheckpointSteps ==
  ASSUME IInv, PinCheckpoint \/ ClearPin \/ RefreshCheckpoint
  PROVE  IInv'
<1>1. heightMap \in Seq(Block) \ {<<>>} /\ localCheckpoint \in Checkpoints
  BY DEF IInv, TypeOK, Checkpoints
<1>2. CASE PinCheckpoint
  <2> DEFINE cp == [height |-> BestHeight(heightMap), hash |-> Tip(heightMap)]
  <2>1. cp \in Checkpoints /\ MatchesCheckpoint(heightMap, cp)
    BY <1>1 DEF Checkpoints, MatchesCheckpoint, BestHeight, Tip
  <2> QED
    BY <1>2, <2>1, SetCheckpointStep DEF PinCheckpoint
<1>3. CASE ClearPin
  BY <1>1, <1>3, TrailingOnPath, SetCheckpointStep DEF ClearPin
<1>4. CASE RefreshCheckpoint
  <2> DEFINE cp == RefreshedCheckpoint(heightMap, localCheckpoint, pinned)
  <2>1. MatchesCheckpoint(heightMap, localCheckpoint)
    BY <1>4 DEF IInv, CheckpointOnChain, RefreshCheckpoint, Quiet
  <2>2. cp \in Checkpoints /\ MatchesCheckpoint(heightMap, cp) /\ pinned \in BOOLEAN
    BY <1>1, <2>1, RefreshedOnPath DEF IInv, TypeOK
  <2> QED
    BY <1>4, <2>2, SetCheckpointStep DEF RefreshCheckpoint
<1> QED
  BY <1>2, <1>3, <1>4

\* A lost file leaves an empty height or one hash file less.
LEMMA LossSteps ==
  ASSUME IInv, (\E h \in Heights : LoseHeightFile(h)) \/ (\E b \in Block : LoseHashFile(b))
  PROVE  IInv'
<1>1. /\ heightFile' \in HeightFiles
      /\ \A h \in Heights : heightFile'[h] \in {NoBlock, heightFile[h]}
      /\ hashFile' \subseteq Block
      /\ losses' \in Nat
      /\ UNCHANGED <<heightMap, index, blockPool, chainWork, blockHeight, heightIndex,
                     children, localCheckpoint, pinned, utxo, headerFile, pending, started>>
  <2>1. /\ heightFile \in [Heights -> Block \cup {NoBlock}]
        /\ hashFile \subseteq Block
        /\ losses \in Nat
    BY DEF IInv, TypeOK
  <2>2. CASE \E h \in Heights : LoseHeightFile(h)
    BY <2>1, <2>2 DEF LoseHeightFile, maps, HeightFiles
  <2>3. CASE \E b \in Block : LoseHashFile(b)
    BY <2>1, <2>3 DEF LoseHashFile, maps, HeightFiles
  <2> QED
    BY <2>2, <2>3
<1>2. TypeOK'
  BY <1>1 DEF IInv, TypeOK, HeightFiles
<1>3. ActiveChainSound' /\ HeadersPersisted' /\ CheckpointOnChain'
  BY <1>1 DEF IInv, ActiveChainSound, HeadersPersisted, CheckpointOnChain
<1>4. HeightFilesServeChain'
  <2>1. ASSUME NEW h \in 0..BestHeight(heightMap)
        PROVE  heightFile'[h] \in {NoBlock, heightMap[h + 1]}
    <3>1. h + 1 \in 1..Len(heightMap) /\ (h + 1) - 1 = h
      BY ActivePath DEF IInv, BestHeight
    <3>2. h \in Heights
      BY <3>1, ActivePath DEF IInv, Heights
    <3> QED
      BY <1>1, <3>2 DEF IInv, HeightFilesServeChain
  <2> QED
    BY <1>1, <2>1 DEF HeightFilesServeChain
<1>5. Bookkeeping'
  BY <1>1 DEF IInv, Bookkeeping
<1> QED
  BY <1>2, <1>3, <1>4, <1>5 DEF IInv

-----------------------------------------------------------------------------
(* The constructor                                                         *)

\* What a start reads back of the active chain is the chain, with gaps.
LEMMA StartupShape ==
  ASSUME IInv
  PROVE  /\ StartupContent \in Seq(Block \cup {NoBlock})
         /\ Len(StartupContent) = Len(heightMap)
         /\ \A i \in 1..Len(heightMap) :
              /\ StartupContent[i] \in {NoBlock, heightMap[i]}
              /\ heightFile[i - 1] # NoBlock => StartupContent[i] = heightMap[i]
         /\ ReadBack \subseteq BlocksOf(heightMap)
         /\ OnDisk \subseteq Block
         /\ BlocksOf(heightMap) \subseteq OnDisk
<1> DEFINE n == Len(heightMap)
           heightOf == On(Connected(OnDisk) \cup BlocksOf(heightMap), Height)
<1>1. /\ n \in Nat \ {0}
      /\ BlocksOf(heightMap) \subseteq Block
      /\ \A i \in 1..n : /\ heightMap[i] \in Block
                         /\ heightMap[i] \in BlocksOf(heightMap)
                         /\ Height[heightMap[i]] = i - 1
  BY ActivePath DEF IInv
<1>2. /\ OnDisk \subseteq Block
      /\ BlocksOf(heightMap) \subseteq OnDisk
  BY <1>1 DEF OnDisk, IInv, TypeOK
<1>3. \A i \in 1..n : heightFile[i - 1] \in {NoBlock, heightMap[i]}
  <2>1. ASSUME NEW i \in 1..n
        PROVE  heightFile[i - 1] \in {NoBlock, heightMap[i]}
    <3>1. i - 1 \in 0..BestHeight(heightMap) /\ (i - 1) + 1 = i
      BY <1>1 DEF BestHeight
    <3> QED
      BY <3>1 DEF IInv, HeightFilesServeChain
  <2> QED
    BY <2>1
<1>4. /\ ReadBack \subseteq BlocksOf(heightMap)
      /\ \A i \in 1..n : heightFile[i - 1] # NoBlock => heightMap[i] \in ReadBack
  <2>1. ASSUME NEW h \in 0..BestHeight(heightMap), heightFile[h] # NoBlock
        PROVE  heightFile[h] \in BlocksOf(heightMap)
    <3>1. h + 1 \in 1..n /\ (h + 1) - 1 = h
      BY <1>1 DEF BestHeight
    <3> QED
      BY <1>1, <1>3, <2>1, <3>1
  <2>2. ASSUME NEW i \in 1..n, heightFile[i - 1] # NoBlock
        PROVE  heightMap[i] \in ReadBack
    <3>1. i - 1 \in 0..BestHeight(heightMap) /\ heightFile[i - 1] = heightMap[i]
      BY <1>1, <1>3, <2>2 DEF BestHeight
    <3> QED
      BY <2>2, <3>1 DEF ReadBack
  <2> QED
    BY <2>1, <2>2 DEF ReadBack
<1>5. /\ StartupContent = [i \in 1..n |-> Fetch(OnDisk, ReadBack, heightOf, heightFile,
                                                heightMap[i])]
      /\ DOMAIN StartupContent = 1..n
  BY DEF StartupContent, Contents
<1>6. ASSUME NEW i \in 1..n
      PROVE  /\ StartupContent[i] \in {NoBlock, heightMap[i]}
             /\ heightFile[i - 1] # NoBlock => StartupContent[i] = heightMap[i]
  <2>1. /\ heightMap[i] \in OnDisk
        /\ heightOf[heightMap[i]] = i - 1
        /\ i - 1 # Absent
    BY <1>1, <1>2 DEF On, Absent
  <2>2. StartupContent[i] = IF heightMap[i] \in ReadBack THEN heightMap[i]
                                                         ELSE heightFile[i - 1]
    BY <1>5, <2>1 DEF Fetch
  <2> QED
    BY <1>3, <1>4, <2>2
<1>7. /\ StartupContent \in Seq(Block \cup {NoBlock})
      /\ Len(StartupContent) = n
  <2>1. \A i \in 1..n : StartupContent[i] \in Block \cup {NoBlock}
    BY <1>1, <1>6
  <2>2. StartupContent \in [1..n -> Block \cup {NoBlock}]
    BY <1>5, <2>1
  <2> QED
    BY <1>1, <2>2
<1> QED
  BY <1>2, <1>4, <1>6, <1>7

\* The restored height files still serve the chain.
LEMMA RestoreShape ==
  ASSUME IInv, NEW hashes
  PROVE  LET restored == RestoreHeights(heightMap, heightFile, hashes)
         IN  /\ restored \in HeightFiles
             /\ \A h \in 0..BestHeight(heightMap) : restored[h] \in {NoBlock, heightMap[h + 1]}
<1> DEFINE filled == [h \in Heights |->
                        IF h < Len(heightMap) /\ heightFile[h] = NoBlock
                           /\ heightMap[h + 1] \in hashes
                        THEN heightMap[h + 1] ELSE heightFile[h]]
           best == BestHeight(heightMap)
<1>1. /\ Len(heightMap) \in Nat \ {0}
      /\ best \in Int
      /\ \A h \in 0..best : /\ h \in Heights
                           /\ h + 1 \in 1..Len(heightMap)
                           /\ heightMap[h + 1] \in Block
  <2>1. Len(heightMap) \in Nat \ {0}
    BY ActivePath DEF IInv
  <2>2. ASSUME NEW h \in 0..best
        PROVE  h \in Heights /\ h + 1 \in 1..Len(heightMap) /\ heightMap[h + 1] \in Block
    <3>1. h + 1 \in 1..Len(heightMap) /\ (h + 1) - 1 = h
      BY <2>1 DEF BestHeight
    <3> QED
      BY <3>1, ActivePath DEF IInv, Heights
  <2> QED
    BY <2>1, <2>2 DEF BestHeight
<1>2. heightFile \in HeightFiles /\ Heights \subseteq Nat
  BY GenesisOnly DEF IInv, TypeOK, HeightFiles, Heights
<1>3. filled \in HeightFiles
  <2>1. ASSUME NEW h \in Heights
        PROVE  filled[h] \in Block \cup {NoBlock}
    <3>1. h < Len(heightMap) => h \in 0..best
      BY <1>1, <1>2 DEF BestHeight
    <3> QED
      BY <1>1, <1>2, <3>1 DEF HeightFiles
  <2> QED
    BY <2>1 DEF HeightFiles
<1>4. \A h \in 0..best : filled[h] \in {NoBlock, heightMap[h + 1]}
  BY <1>1 DEF IInv, HeightFilesServeChain
<1>5. RestoreHeights(heightMap, heightFile, hashes)
        = IF filled = heightFile THEN heightFile ELSE PruneAfter(best, filled)
  BY DEF RestoreHeights
<1> HIDE DEF filled
<1>6. CASE filled = heightFile
  BY <1>3, <1>4, <1>5, <1>6
<1>7. CASE filled # heightFile
  <2>1. /\ PruneAfter(best, filled) \in HeightFiles
        /\ \A h \in Heights : h <= best => PruneAfter(best, filled)[h] = filled[h]
    BY <1>1, <1>3, PruneShape
  <2> QED
    BY <1>1, <1>4, <1>5, <1>7, <2>1
<1> QED
  BY <1>6, <1>7

\* What is left of the chain when it is cut is the path of its last block.
LEMMA PrefixOfActive ==
  ASSUME IInv, NEW n \in 1..(Len(heightMap) - 1)
  PROVE  \E t \in Block : /\ SubSeq(heightMap, 1, n) = Chain[t]
                         /\ SoundChain(t)
                         /\ BlocksOf(Chain[t]) \subseteq BlocksOf(heightMap)
                         /\ Len(Chain[t]) = n
                         /\ \A i \in 1..n : Chain[t][i] = heightMap[i]
<1> DEFINE top == Tip(heightMap)
           t == heightMap[n]
<1>1. top \in Block /\ heightMap = Chain[top] /\ n \in 1..Len(Chain[top])
  BY ActivePath DEF IInv
<1>2. /\ t \in Block
      /\ Chain[t] = SubSeq(heightMap, 1, n)
      /\ Len(Chain[t]) = n
      /\ \A i \in 1..n : Chain[t][i] = heightMap[i]
  BY <1>1, PrefixShape
<1>3. t \in BlocksOf(Chain[top])
  BY <1>1, OnPath
<1>4. BlocksOf(Chain[t]) \subseteq BlocksOf(heightMap)
  BY <1>1, <1>3, AncestorsOfAncestors
<1>5. SoundChain(t)
  BY <1>1, <1>4 DEF SoundChain, IInv, ActiveChainSound
<1> QED
  BY <1>2, <1>4, <1>5

\* Contents that validate are the active blocks themselves.
LEMMA ValidPrefixKept ==
  ASSUME IInv, NEW n \in 1..(Len(heightMap) - 1), IsValidPrefix(StartupContent, n)
  PROVE  SubSeq(StartupContent, 1, n) = SubSeq(heightMap, 1, n)
<1>1. /\ StartupContent \in Seq(Block \cup {NoBlock})
      /\ Len(StartupContent) = Len(heightMap)
      /\ \A i \in 1..Len(heightMap) : StartupContent[i] \in {NoBlock, heightMap[i]}
  BY StartupShape
<1>2. heightMap \in Seq(Block)
  BY DEF IInv, TypeOK
<1>3. \A i \in 1..n : StartupContent[i] = heightMap[i]
  BY <1>1, <1>2 DEF IsValidPrefix, BlockValid
<1>4. SubSeq(StartupContent, 1, n) = [i \in 1..n |-> StartupContent[i]]
  BY <1>1, <1>2
<1>5. SubSeq(heightMap, 1, n) = [i \in 1..n |-> heightMap[i]]
  BY <1>2
<1> QED
  BY <1>3, <1>4, <1>5

\* A start that keeps the chain.
LEMMA StartKeptStep ==
  ASSUME IInv, StartKept, pending' = <<>>, UNCHANGED losses
  PROVE  IInv'
<1> DEFINE stale == localCheckpoint.height > BestHeight(heightMap)
<1>1. /\ index' = OnDisk
      /\ blockPool' = ReadBack
      /\ hashFile' = hashFile \cup ReadBack
      /\ heightFile' = RestoreHeights(heightMap, heightFile, hashFile')
      /\ RebuildMaps(OnDisk, heightMap)
      /\ started' = (stale \/ MatchesCheckpoint(heightMap, localCheckpoint))
      /\ pinned' = (pinned /\ ~stale)
      /\ localCheckpoint' = IF started'
                            THEN RefreshedCheckpoint(heightMap, localCheckpoint, pinned')
                            ELSE localCheckpoint
      /\ UNCHANGED <<heightMap, utxo, headerFile>>
  BY DEF StartKept
<1>2. /\ Tip(heightMap) \in Block
      /\ heightMap = Chain[Tip(heightMap)]
      /\ heightMap \in Seq(Block) \ {<<>>}
      /\ BlocksOf(heightMap) \subseteq Block
      /\ BlocksOf(heightMap) \subseteq OnDisk
      /\ OnDisk \in SUBSET Block
      /\ ReadBack \subseteq Block
  BY ActivePath, StartupShape DEF IInv, TypeOK
<1>3. /\ chainWork' \in [Block -> Nat \cup {Absent}]
      /\ blockHeight' \in [Block -> Nat \cup {Absent}]
      /\ heightIndex' \in [Block -> Heights \cup {Absent}]
      /\ children' \in [Block -> SUBSET Block]
      /\ Bookkeeping'
  BY <1>1, <1>2, RebuildShape
<1>4. /\ heightFile' \in HeightFiles
      /\ \A h \in 0..BestHeight(heightMap) : heightFile'[h] \in {NoBlock, heightMap[h + 1]}
  BY <1>1, RestoreShape DEF IInv
<1>5. localCheckpoint \in Checkpoints /\ pinned \in BOOLEAN
  BY DEF IInv, TypeOK, Checkpoints
<1>6. /\ started' \in BOOLEAN
      /\ pinned' \in BOOLEAN
      /\ localCheckpoint' \in Checkpoints
      /\ MatchesCheckpoint(heightMap, localCheckpoint')
  <2>1. started' \in BOOLEAN /\ pinned' \in BOOLEAN
    BY <1>1, <1>5
  <2>2. started'
    BY <1>1 DEF IInv, CheckpointOnChain
  <2>3. localCheckpoint' = RefreshedCheckpoint(heightMap, localCheckpoint, pinned')
    BY <1>1, <2>2
  <2>4. ~pinned' \/ MatchesCheckpoint(heightMap, localCheckpoint)
    BY <1>1 DEF IInv, CheckpointOnChain
  <2> QED
    BY <1>2, <1>5, <2>1, <2>3, <2>4, RefreshedOnPath
<1>7. TypeOK'
  <2>1. /\ index' \subseteq Block /\ blockPool' \subseteq Block
        /\ hashFile' \subseteq Block /\ headerFile' \subseteq Block
        /\ utxo' \in Seq(Block) /\ losses' \in Nat
        /\ heightMap' \in Seq(Block) \ {<<>>}
    BY <1>1, <1>2 DEF IInv, TypeOK
  <2>2. pending' \in Seq(SUBSET Block)
    OBVIOUS
  <2> QED
    BY <1>3, <1>4, <1>6, <2>1, <2>2 DEF TypeOK, HeightFiles, Checkpoints
<1>8. ActiveChainSound' /\ HeadersPersisted'
  BY <1>1 DEF IInv, ActiveChainSound, HeadersPersisted
<1>9. HeightFilesServeChain' /\ CheckpointOnChain'
  BY <1>1, <1>4, <1>6 DEF HeightFilesServeChain, CheckpointOnChain
<1> QED
  BY <1>3, <1>7, <1>8, <1>9 DEF IInv

\* A start that cuts the chain.
LEMMA StartRepairedStep ==
  ASSUME IInv, StartRepaired, pending' = <<>>, UNCHANGED losses
  PROVE  IInv'
<1>1. PICK n \in 1..(Len(heightMap) - 1) :
        LET path == SubSeq(heightMap, 1, n)
            cut  == BlocksOf(heightMap) \ BlocksOf(path)
        IN  /\ IsValidPrefix(StartupContent, n)
            /\ ActivatePath(path, SubSeq(StartupContent, 1, n))
            /\ index' = OnDisk \ cut
            /\ blockPool' = ReadBack \ cut
            /\ hashFile' = ((hashFile \cup ReadBack) \ cut) \cup BlocksOf(path)
            /\ PersistHeaders
            /\ RebuildMaps(OnDisk \ cut, path)
            /\ started' = MatchesCheckpoint(path, localCheckpoint')
            /\ UNCHANGED pinned
  BY DEF StartRepaired
<1> DEFINE path == SubSeq(heightMap, 1, n)
           known == OnDisk \ (BlocksOf(heightMap) \ BlocksOf(path))
<1>2. PICK t \in Block : /\ path = Chain[t]
                         /\ SoundChain(t)
                         /\ BlocksOf(path) \subseteq BlocksOf(heightMap)
                         /\ Len(path) = n
                         /\ \A i \in 1..n : path[i] = heightMap[i]
  <2>1. PICK t \in Block : /\ SubSeq(heightMap, 1, n) = Chain[t]
                           /\ SoundChain(t)
                           /\ BlocksOf(Chain[t]) \subseteq BlocksOf(heightMap)
                           /\ Len(Chain[t]) = n
                           /\ \A i \in 1..n : Chain[t][i] = heightMap[i]
    BY PrefixOfActive
  <2> QED
    BY <2>1
<1>3. SubSeq(StartupContent, 1, n) = path
  BY <1>1, ValidPrefixKept
<1>4. /\ ActivatePath(path, path)
      /\ heightMap' = path
      /\ index' = known
      /\ blockPool' \subseteq ReadBack
      /\ hashFile' \subseteq hashFile \cup ReadBack \cup BlocksOf(path)
      /\ headerFile' = known
      /\ RebuildMaps(known, path)
      /\ started' = MatchesCheckpoint(path, localCheckpoint')
      /\ pinned' = pinned
  BY <1>1, <1>3 DEF PersistHeaders, ActivatePath
<1>5. /\ BlocksOf(path) \subseteq known
      /\ known \in SUBSET Block
      /\ BlocksOf(path) \subseteq Block
      /\ ReadBack \subseteq Block
  BY <1>2, StartupShape, ActivePath DEF IInv
<1> HIDE DEF path, known
<1>6. /\ chainWork' \in [Block -> Nat \cup {Absent}]
      /\ blockHeight' \in [Block -> Nat \cup {Absent}]
      /\ heightIndex' \in [Block -> Heights \cup {Absent}]
      /\ children' \in [Block -> SUBSET Block]
      /\ Bookkeeping'
  BY <1>2, <1>4, <1>5, RebuildShape
<1>7. /\ heightMap' \in Seq(Block) \ {<<>>}
      /\ utxo' \in Seq(Block)
      /\ heightFile' \in HeightFiles
      /\ localCheckpoint' \in Checkpoints
      /\ ActiveChainSound'
      /\ HeightFilesServeChain'
      /\ ~pinned => MatchesCheckpoint(path, localCheckpoint')
  BY <1>2, <1>4, ActivatedPath
<1>8. TypeOK'
  <2>1. started' \in BOOLEAN
    BY <1>4 DEF MatchesCheckpoint
  <2>2. /\ index' \subseteq Block /\ blockPool' \subseteq Block
        /\ hashFile' \subseteq Block /\ headerFile' \subseteq Block
        /\ pinned' \in BOOLEAN /\ losses' \in Nat
    BY <1>4, <1>5 DEF IInv, TypeOK
  <2>3. pending' \in Seq(SUBSET Block)
    OBVIOUS
  <2> QED
    BY <1>6, <1>7, <2>1, <2>2, <2>3 DEF TypeOK, HeightFiles, Checkpoints
<1>9. HeadersPersisted'
  BY <1>4, <1>5 DEF HeadersPersisted
<1>10. CheckpointOnChain'
  <2>1. CASE ~pinned
    BY <1>4, <1>7, <2>1 DEF CheckpointOnChain
  <2>2. CASE pinned /\ MatchesCheckpoint(path, localCheckpoint')
    BY <1>4, <2>2 DEF CheckpointOnChain
  <2>3. CASE pinned /\ ~MatchesCheckpoint(path, localCheckpoint')
    <3>1. localCheckpoint' = localCheckpoint /\ localCheckpoint.height \in Nat
      BY <1>4, <2>3 DEF ActivatePath, RefreshedCheckpoint, IInv, TypeOK
    <3>2. n \in 1..(Len(heightMap) - 1) /\ Len(heightMap) \in Nat
      BY ActivePath DEF IInv
    <3>3. localCheckpoint.height > BestHeight(path)
      BY <1>2, <2>3, <3>1, <3>2 DEF IInv, CheckpointOnChain, MatchesCheckpoint, BestHeight
    <3> QED
      BY <1>4, <2>3, <3>1, <3>3 DEF CheckpointOnChain
  <2> QED
    BY <2>1, <2>2, <2>3
<1> QED
  BY <1>6, <1>7, <1>8, <1>9, <1>10 DEF IInv

-----------------------------------------------------------------------------
(* The invariants                                                          *)

\* An empty data directory.
LEMMA Initially == Init => IInv
<1> SUFFICES ASSUME Init PROVE IInv
  OBVIOUS
<1>1. /\ Genesis \in Block
      /\ Chain[Genesis] = <<Genesis>>
      /\ Len(Chain[Genesis]) = 1
      /\ BlocksOf(Chain[Genesis]) = {Genesis}
      /\ Height[Genesis] = 0
  <2>1. Genesis \in Block
    BY BlockAssumption
  <2>2. 1 \in 1..Len(Chain[Genesis]) /\ Chain[Genesis][1] = Genesis
    BY <2>1, PathShape
  <2>3. Len(Chain[Genesis]) = 1 /\ Height[Genesis] = 0
    <3>1. /\ Len(Chain[Chain[Genesis][1]]) = 1
          /\ Height[Chain[Genesis][1]] = 1 - 1
      BY <2>1, <2>2, PrefixShape
    <3> QED
      BY <2>2, <3>1
  <2>4. Chain[Genesis] \in Seq(Block)
    BY <2>1, PathShape
  <2>5. Chain[Genesis] = <<Genesis>>
    BY <2>2, <2>3, <2>4
  <2> QED
    BY <2>1, <2>3, <2>5 DEF BlocksOf
<1>2. Sound(Genesis)
  BY BlockAssumption DEF Sound
<1>3. heightMap = Chain[Genesis] /\ Tip(heightMap) = Genesis /\ BestHeight(heightMap) = 0
  BY <1>1 DEF Init, Tip, BestHeight
<1>4. TypeOK
  <2>1. /\ chainWork \in [Block -> Nat \cup {Absent}]
        /\ blockHeight \in [Block -> Nat \cup {Absent}]
        /\ heightIndex \in [Block -> Heights \cup {Absent}]
    BY MapShape DEF Init
  <2>2. /\ heightMap \in Seq(Block) \ {<<>>} /\ utxo \in Seq(Block)
        /\ pending \in Seq(SUBSET Block)
    BY <1>1 DEF Init
  <2>3. heightFile \in [Heights -> Block \cup {NoBlock}]
    BY <1>1 DEF Init
  <2> QED
    BY <1>1, <2>1, <2>2, <2>3 DEF Init, TypeOK
<1>5. ActiveChainSound
  BY <1>1, <1>2, <1>3 DEF Init, ActiveChainSound, SoundChain
<1>6. HeightFilesServeChain
  <2>1. 0 \in Heights
    BY <1>1 DEF Heights
  <2>2. heightFile[0] = Genesis /\ heightMap[0 + 1] = Genesis
    BY <2>1 DEF Init
  <2> QED
    BY <1>3, <2>2 DEF HeightFilesServeChain
<1>7. Bookkeeping
  <2>1. \A b \in Block :
          /\ chainWork[b] = IF b \in {Genesis} THEN TotalWork[b] ELSE Absent
          /\ blockHeight[b] = IF b \in {Genesis} THEN Height[b] ELSE Absent
          /\ heightIndex[b] = IF b \in {Genesis} THEN Height[b] ELSE Absent
          /\ TotalWork[b] # Absent
          /\ Height[b] # Absent
    BY MapShape DEF Init
  <2>2. index = {Genesis} /\ BlocksOf(heightMap) = {Genesis}
    BY <1>1, <1>3 DEF Init
  <2>3. BlocksOf(heightMap) \subseteq {b \in Block : heightIndex[b] # Absent}
    BY <1>1, <2>1, <2>2
  <2>4. \A b \in Block :
          chainWork[b] # Absent => \A a \in BlocksOf(Chain[b]) :
                                      a \in index /\ chainWork[a] # Absent
    BY <1>1, <2>1, <2>2
  <2> QED
    BY <2>1, <2>3, <2>4 DEF Bookkeeping
<1>8. HeadersPersisted /\ CheckpointOnChain
  BY <1>1, <1>3 DEF Init, HeadersPersisted, CheckpointOnChain, MatchesCheckpoint
<1> QED
  BY <1>4, <1>5, <1>6, <1>7, <1>8 DEF IInv

\* Every step, crashes and losses included.
LEMMA Preserved == IInv /\ [Next]_vars => IInv'
<1> SUFFICES ASSUME IInv, [Next]_vars PROVE IInv'
  OBVIOUS
<1>1. CASE \E b \in Block : SubmitBlock(b)
  <2>1. PICK b \in Block : SubmitBlock(b)
    BY <1>1
  <2>2. <<>> \in Seq(SUBSET Block)
    OBVIOUS
  <2> QED
    BY <2>1, <2>2, AcceptBlockStep DEF SubmitBlock
<1>2. CASE RetryParked
  BY <1>2, RetryParkedStep
<1>3. CASE PinCheckpoint \/ ClearPin \/ RefreshCheckpoint
  BY <1>3, CheckpointSteps
<1>4. CASE Restart
  BY <1>4, StartKeptStep, StartRepairedStep DEF Restart
<1>5. CASE (\E h \in Heights : LoseHeightFile(h)) \/ (\E b \in Block : LoseHashFile(b))
  BY <1>5, LossSteps
<1>6. CASE UNCHANGED vars
  <2> USE <1>6 DEF vars, maps, files
  <2>1. TypeOK'
    BY DEF IInv, TypeOK
  <2>2. /\ ActiveChainSound' /\ HeightFilesServeChain'
        /\ HeadersPersisted' /\ CheckpointOnChain'
    BY DEF IInv, ActiveChainSound, HeightFilesServeChain, HeadersPersisted,
           CheckpointOnChain
  <2>3. Bookkeeping'
    BY DEF IInv, Bookkeeping
  <2> QED
    BY <2>1, <2>2, <2>3 DEF IInv
<1> QED
  BY <1>1, <1>2, <1>3, <1>4, <1>5, <1>6 DEF Next, Run

\* The conjunction of the invariants holds in every reachable state.
THEOREM Invariant == Spec => []IInv
<1>1. IInv /\ [Next]_vars => IInv'
  BY Preserved
<1> QED
  BY <1>1, Initially, PTL DEF Spec

\* Every variable keeps its declared shape.
THEOREM TypeCorrect == Spec => []TypeOK
<1>1. IInv => TypeOK
  BY DEF IInv
<1> QED
  BY <1>1, Invariant, PTL

\* The active chain is the validated hash path of its tip, and the UTXO set is
\* that of the chain (activate_path, purge_cached_subtree, repair).
THEOREM ActiveChainIsSound == Spec => []ActiveChainSound
<1>1. IInv => ActiveChainSound
  BY DEF IInv
<1> QED
  BY <1>1, Invariant, PTL

\* A height file up to the tip is absent or holds the active block.
THEOREM HeightFilesServe == Spec => []HeightFilesServeChain
<1>1. IInv => HeightFilesServeChain
  BY DEF IInv
<1> QED
  BY <1>1, Invariant, PTL

\* What accept_block reads with at() is there.
THEOREM BookkeepingHolds == Spec => []Bookkeeping
<1>1. IInv => Bookkeeping
  BY DEF IInv
<1> QED
  BY <1>1, Invariant, PTL

\* headers.dat covers index.dat whenever the process may stop.
THEOREM HeadersCoverChain == Spec => []HeadersPersisted
<1>1. IInv => HeadersPersisted
  BY DEF IInv
<1> QED
  BY <1>1, Invariant, PTL

\* The checkpoint is on the active chain, or pinned above it and found stale.
THEOREM CheckpointHolds == Spec => []CheckpointOnChain
<1>1. IInv => CheckpointOnChain
  BY DEF IInv
<1> QED
  BY <1>1, Invariant, PTL

-----------------------------------------------------------------------------
(* Blockchain implements ActiveChain, and a start over intact files keeps  *)
(* the chain.                                                              *)

StaysPut == UNCHANGED <<heightMap, localCheckpoint, pinned>>

\* activate_path, for an extension as for a reorg, is a Switch.
LEMMA ActivateRefines ==
  ASSUME IInv, NEW b \in Block, NEW rest, Activate(b, rest)
  PROVE  AC!Switch
<1>1. /\ CandidateContent(b) = Chain[b]
      /\ SoundChain(b)
      /\ Candidate(b)
      /\ BeatsTip(b)
      /\ MatchesCheckpoint(Chain[b], localCheckpoint)
      /\ ReorgAllowed(heightMap, Chain[b])
      /\ heightMap' = Chain[b]
      /\ localCheckpoint' = RefreshedCheckpoint(Chain[b], localCheckpoint, pinned)
      /\ UNCHANGED pinned
  BY ValidContents DEF Activate, ActivatePath, MayReplaceTip, IInv
<1>2. TotalWork[b] > TotalWork[Tip(heightMap)]
  <2>1. CandidateWork(b) = TotalWork[b]
    BY <1>1, CandidatePath
  <2>2. /\ Tip(heightMap) \in Block
        /\ Tip(heightMap) \in BlocksOf(heightMap)
    BY ActivePath, PathShape DEF IInv
  <2>3. /\ chainWork[Tip(heightMap)] # Absent
        /\ chainWork[Tip(heightMap)] = TotalWork[Tip(heightMap)]
    BY <2>2 DEF IInv, Bookkeeping
  <2> QED
    BY <1>1, <2>1, <2>3 DEF BeatsTip
<1> QED
  BY <1>1, <1>2 DEF AC!Switch, AC!SoundChain, AC!MatchesCheckpoint, AC!ReorgAllowed,
     AC!RefreshedCheckpoint, AC!Tip, SoundChain, MatchesCheckpoint, ReorgAllowed,
     RefreshedCheckpoint, Tip, AC!BlocksOf, BlocksOf, AC!Sound, Sound,
     AC!ReorgDepth, ReorgDepth, AC!SharedPrefix, SharedPrefix,
     AC!TrailingCheckpoint, TrailingCheckpoint, AC!BestHeight, BestHeight

\* Of the ways accept_block ends, only an activation moves the chain.
LEMMA AcceptBlockRefines ==
  ASSUME IInv, NEW b \in Block, NEW rest, AcceptBlock(b, rest)
  PROVE  AC!Switch \/ StaysPut
<1>1. CASE Activate(b, rest)
  BY <1>1, ActivateRefines
<1>2. CASE ~Activate(b, rest)
  BY <1>2 DEF AcceptBlock, RejectTimestamp, AcceptKnown, ParkOrphan, PurgeInvalid,
              RejectCandidate, StoreSide, StaysPut
<1> QED
  BY <1>1, <1>2

\* Pinning is Pin, and everything that lets the checkpoint trail is Unpin.
LEMMA CheckpointRefines ==
  ASSUME IInv, PinCheckpoint \/ ClearPin \/ RefreshCheckpoint
  PROVE  AC!Pin \/ AC!Unpin \/ StaysPut
<1> USE DEF SetCheckpoint, AC!Pin, AC!Unpin, StaysPut, AC!TrailingCheckpoint,
            TrailingCheckpoint, AC!BestHeight, BestHeight, AC!Tip, Tip
<1>1. CASE PinCheckpoint
  BY <1>1 DEF PinCheckpoint
<1>2. CASE ClearPin
  BY <1>2 DEF ClearPin
<1>3. CASE RefreshCheckpoint
  <2>1. pinned \in BOOLEAN
    BY DEF IInv, TypeOK
  <2>2. CASE pinned
    BY <1>3, <2>2 DEF RefreshCheckpoint, RefreshedCheckpoint
  <2>3. CASE pinned = FALSE
    BY <1>3, <2>3 DEF RefreshCheckpoint, RefreshedCheckpoint
  <2> QED
    BY <2>1, <2>2, <2>3
<1> QED
  BY <1>1, <1>2, <1>3

\* A start that keeps the chain leaves the checkpoint or lets it trail.
LEMMA StartKeptRefines ==
  ASSUME IInv, StartKept
  PROVE  AC!Unpin \/ StaysPut
<1>1. /\ heightMap' = heightMap
      /\ pinned' \in BOOLEAN
      /\ pinned' => pinned
      /\ pinned \in BOOLEAN
      /\ started'
      /\ localCheckpoint' = RefreshedCheckpoint(heightMap, localCheckpoint, pinned')
  BY DEF StartKept, IInv, TypeOK, CheckpointOnChain
<1>2. CASE pinned'
  BY <1>1, <1>2 DEF StaysPut, RefreshedCheckpoint
<1>3. CASE pinned' = FALSE
  BY <1>1, <1>3 DEF AC!Unpin, RefreshedCheckpoint, AC!TrailingCheckpoint,
     TrailingCheckpoint, AC!BestHeight, BestHeight
<1> QED
  BY <1>1, <1>2, <1>3

\* A start that cuts the chain is a Truncate.
LEMMA StartRepairedRefines ==
  ASSUME IInv, StartRepaired
  PROVE  AC!Truncate
<1>1. PICK n \in 1..(Len(heightMap) - 1) :
        /\ heightMap' = SubSeq(heightMap, 1, n)
        /\ localCheckpoint' = RefreshedCheckpoint(SubSeq(heightMap, 1, n),
                                                  localCheckpoint, pinned)
        /\ UNCHANGED pinned
  BY DEF StartRepaired, ActivatePath
<1> QED
  BY <1>1 DEF AC!Truncate, AC!RefreshedCheckpoint, RefreshedCheckpoint,
     AC!TrailingCheckpoint, TrailingCheckpoint, AC!BestHeight, BestHeight

\* Every step of the program is a step of ActiveChain or none.
LEMMA StepRefines == IInv /\ [Next]_vars => [AC!ChainNext]_(AC!chainVars)
<1> SUFFICES ASSUME IInv, [Next]_vars
             PROVE  AC!ChainNext \/ StaysPut
  BY DEF AC!chainVars, StaysPut
<1>1. CASE \E b \in Block : SubmitBlock(b)
  BY <1>1, AcceptBlockRefines DEF SubmitBlock, AC!ChainNext
<1>2. CASE RetryParked
  <2>1. PICK k \in Head(pending) : RetryChild(k) \/ SkipChild(k)
    BY <1>2 DEF RetryParked
  <2>2. k \in Block
    BY <1>2, WithoutShape DEF RetryParked, IInv
  <2> QED
    BY <2>1, <2>2, AcceptBlockRefines DEF RetryChild, SkipChild, StaysPut, AC!ChainNext
<1>3. CASE PinCheckpoint \/ ClearPin \/ RefreshCheckpoint
  BY <1>3, CheckpointRefines DEF AC!ChainNext
<1>4. CASE Restart
  BY <1>4, StartKeptRefines, StartRepairedRefines DEF Restart, AC!ChainNext
<1>5. CASE (\E h \in Heights : LoseHeightFile(h)) \/ (\E b \in Block : LoseHashFile(b))
  BY <1>5 DEF LoseHeightFile, LoseHashFile, StaysPut
<1>6. CASE UNCHANGED vars
  BY <1>6 DEF vars, StaysPut
<1> QED
  BY <1>1, <1>2, <1>3, <1>4, <1>5, <1>6 DEF Next, Run

\* Whatever blocks arrive, whenever the process stops and whichever block files
\* are lost, the active chain moves only as ActiveChain allows.
THEOREM Refinement == Spec => ImplementsActiveChain
<1>1. Init => AC!ChainInit
  BY DEF Init, AC!ChainInit
<1>2. IInv /\ [Next]_vars => [AC!ChainNext]_(AC!chainVars)
  BY StepRefines
<1> QED
  BY <1>1, <1>2, Invariant, PTL DEF Spec, ImplementsActiveChain, AC!ChainSpec

-----------------------------------------------------------------------------
(* Starting over intact files                                              *)

\* With every height file in place the whole chain validates.
LEMMA IntactValidates ==
  ASSUME IInv, ActiveFilesPresent
  PROVE  \A i \in 1..Len(StartupContent) : BlockValid(StartupContent, i)
<1>1. /\ Len(heightMap) \in Nat \ {0}
      /\ \A i \in 1..Len(heightMap) :
           /\ heightMap[i] \in Block
           /\ i > 1 => Parent[heightMap[i]] = heightMap[i - 1]
           /\ Sound(heightMap[i])
  BY ActivePath DEF IInv
<1>2. /\ Len(StartupContent) = Len(heightMap)
      /\ \A i \in 1..Len(heightMap) :
           heightFile[i - 1] # NoBlock => StartupContent[i] = heightMap[i]
  BY StartupShape
<1>3. ASSUME NEW i \in 1..Len(heightMap)
      PROVE  StartupContent[i] = heightMap[i]
  <2>1. i - 1 \in 0..BestHeight(heightMap)
    BY <1>1 DEF BestHeight
  <2> QED
    BY <1>2, <2>1 DEF ActiveFilesPresent
<1>4. ASSUME NEW i \in 1..Len(heightMap)
      PROVE  BlockValid(StartupContent, i)
  <2>1. i > 1 => i - 1 \in 1..Len(heightMap)
    BY <1>1
  <2> QED
    BY <1>1, <1>3, <2>1, BlockAssumption DEF BlockValid
<1> QED
  BY <1>2, <1>4

\* A start over intact files succeeds and keeps the chain.
LEMMA IntactStart ==
  ASSUME IInv, Restart, ActiveFilesPresent
  PROVE  heightMap' = heightMap /\ started'
<1>1. /\ \A i \in 1..Len(StartupContent) : BlockValid(StartupContent, i)
      /\ Len(StartupContent) = Len(heightMap)
      /\ Len(heightMap) \in Nat \ {0}
  BY IntactValidates, StartupShape, ActivePath DEF IInv
<1>2. ~StartRepaired
  <2>1. ASSUME NEW n \in 1..(Len(heightMap) - 1), IsValidPrefix(StartupContent, n)
        PROVE  FALSE
    <3>1. n < Len(StartupContent) /\ n + 1 \in 1..Len(StartupContent)
      BY <1>1
    <3> QED
      BY <1>1, <2>1, <3>1 DEF IsValidPrefix
  <2> QED
    BY <2>1 DEF StartRepaired
<1>3. StartKept
  BY <1>2 DEF Restart
<1> QED
  BY <1>3 DEF StartKept, IInv, CheckpointOnChain

\* The constructor never refuses or shortens a chain whose block files are all
\* there, whatever the process was doing when it stopped.
THEOREM RestartKeeps == Spec => RestartKeepsChain
<1>1. IInv /\ [Next]_vars
        => [(Restart /\ ActiveFilesPresent) => (heightMap' = heightMap /\ started')]_vars
  BY IntactStart
<1> QED
  BY <1>1, Invariant, PTL DEF Spec, RestartKeepsChain
=============================================================================
