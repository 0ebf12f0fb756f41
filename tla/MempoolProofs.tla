---------------------------- MODULE MempoolProofs ----------------------------
(***************************************************************************)
(* For any transactions, limits, tips and threads: the five containers of  *)
(* the pool agree, no orphan is stuck, once an activation has cleared the  *)
(* pool nothing in it depends on the chain that went, and the miner's      *)
(* template is a valid body that leaves nobody out.                        *)
(***************************************************************************)
EXTENDS Mempool, PositionsTheorems

Values(s) == {s[i] : i \in DOMAIN s}

\* The containers of a pool p.
SpendsOf(S) == UNION {TxSpends[t] : t \in S}
Booked(p) ==
  /\ p.spentBy \in [SpendsOf(p.txs) -> p.txs]
  /\ \A t \in p.txs : \A o \in TxSpends[t] : p.spentBy[o] = t
Stored(p) ==
  /\ p.orphans \in Seq(PoolTx) /\ NoneTwice(p.orphans)
  /\ {w[2] : w \in p.waiting} = Values(p.orphans)
IsPool(p) ==
  /\ DOMAIN p = {"txs", "spentBy", "bytes", "orphans", "waiting"}
  /\ p.txs \subseteq PoolTx
  /\ Booked(p) /\ p.bytes = SumSize(p.txs)
  /\ Stored(p) /\ p.txs \cap Values(p.orphans) = {}
InLimits(p) == WithinLimits(p) /\ Len(p.orphans) <= OrphanLimit

\* The orphan o waits for an output that is not there; or it is in the list of a loop
\* that will try it again.
Waits(p, o) ==
  \E x \in TxSpends[o] : <<x[1], o>> \in p.waiting /\ x \notin DOMAIN coins /\ x[1] \notin p.txs
Due(stack, o) == \E k \in DOMAIN stack : o \in stack[k]
OrphansHandled ==
  activating.phase # "clear" =>
    \A o \in Values(mp.orphans) : Waits(mp, o) \/ Due(work.stack, o)

CallsTyped ==
  /\ \A s \in Submitters : calls[s] # << >> => calls[s][1] \in PoolTx
  /\ DOMAIN calls = Submitters
  /\ DOMAIN work = {"height", "stack"} /\ work.stack \in Seq(SUBSET PoolTx)

MempoolInv ==
  /\ CallsTyped
  /\ IsPool(mp) /\ InLimits(mp) /\ mp.txs \subseteq admitted
  /\ PoolOnActiveChain
  /\ OrphansHandled

-----------------------------------------------------------------------------
(* Sizes                                                                   *)

\* SumSize adds up.
LEMMA BytesFinite ==
  ASSUME NEW S, S \subseteq PoolTx
  PROVE  IsFiniteSet(S) /\ IsFiniteSet(Bytes(S)) /\ SumSize(S) \in Nat
<1>1. IsFiniteSet(S)
  BY MempoolAssumption, FS_Subset
<1>2. ASSUME NEW t \in S PROVE IsFiniteSet({t} \X (1..TxSize[t]))
  <2>1. TxSize[t] \in Nat
    BY MempoolAssumption
  <2>2. IsFiniteSet({t})
    BY FS_Singleton
  <2>3. 1 \in Int /\ TxSize[t] \in Int
    BY <2>1
  <2>4. IsFiniteSet(1..TxSize[t])
    BY <2>3, FS_Interval
  <2> QED
    BY <2>2, <2>4, FS_Product
<1> DEFINE parts == {{t} \X (1..TxSize[t]) : t \in S}
           f == [t \in S |-> {t} \X (1..TxSize[t])]
<1>3. IsFiniteSet(parts)
  <2>1. f \in [S -> parts] /\ \A A \in parts : \E t \in S : f[t] = A
    OBVIOUS
  <2> HIDE DEF f, parts
  <2>2. f \in Surjection(S, parts)
    BY <2>1 DEF Surjection
  <2> QED
    BY <1>1, <2>2, FS_Surjection
<1>4. \A A \in parts : IsFiniteSet(A)
  BY <1>2
<1>5. IsFiniteSet(UNION parts)
  <2> HIDE DEF parts
  <2> QED
    BY <1>3, <1>4, FS_UNION
<1> QED
  BY <1>1, <1>5, FS_CardinalityType DEF Bytes, SumSize

LEMMA BytesOf == ASSUME NEW S, NEW x PROVE x \in Bytes(S) <=> \E t \in S : x \in {t} \X (1..TxSize[t])
BY DEF Bytes

LEMMA SizesAdd ==
  ASSUME NEW S, NEW T, S \subseteq PoolTx, T \subseteq PoolTx, S \cap T = {}, NEW U, U = S \cup T
  PROVE  SumSize(U) = SumSize(S) + SumSize(T)
<1>1. \A x : x \in Bytes(U) <=> x \in Bytes(S) \/ x \in Bytes(T)
  BY BytesOf
<1>2. ASSUME NEW x, x \in Bytes(S), x \in Bytes(T) PROVE FALSE
  <2>1. PICK s \in S : x \in {s} \X (1..TxSize[s])
    BY <1>2, BytesOf
  <2>2. PICK t \in T : x \in {t} \X (1..TxSize[t])
    BY <1>2, BytesOf
  <2>3. x[1] = s /\ x[1] = t
    BY <2>1, <2>2
  <2> QED
    BY <2>3
<1> PICK A, B, C : A = Bytes(S) /\ B = Bytes(T) /\ C = Bytes(U)
  OBVIOUS
<1>3. C = A \cup B /\ A \cap B = {}
  BY <1>1, <1>2
<1>4. IsFiniteSet(A) /\ IsFiniteSet(B)
  BY BytesFinite
<1>5. Cardinality(A \cup B) = Cardinality(A) + Cardinality(B) - Cardinality(A \cap B)
  BY <1>4, FS_Union
<1>6. Cardinality(A \cap B) = 0 /\ Cardinality(A) \in Nat /\ Cardinality(B) \in Nat
  BY <1>3, <1>4, FS_EmptySet, FS_CardinalityType
<1>7. Cardinality(C) = Cardinality(A) + Cardinality(B)
  <2> PICK a, b, i, u : /\ a = Cardinality(A) /\ b = Cardinality(B)
                        /\ i = Cardinality(A \cap B) /\ u = Cardinality(A \cup B)
    OBVIOUS
  <2>1. Cardinality(C) = u
    BY <1>3
  <2> QED
    BY <1>5, <1>6, <2>1
<1> QED
  BY <1>7 DEF SumSize

LEMMA SizeOfOne == ASSUME NEW t \in PoolTx PROVE SumSize({t}) = TxSize[t] /\ SumSize({}) = 0
<1>1. TxSize[t] \in Nat
  BY MempoolAssumption
<1>2. Bytes({t}) = {t} \X (1..TxSize[t]) /\ Bytes({}) = {}
  BY DEF Bytes
<1>3. IsFiniteSet({t}) /\ Cardinality({t}) = 1
  BY FS_Singleton
<1>4. IsFiniteSet(1..TxSize[t]) /\ Cardinality(1..TxSize[t]) = TxSize[t]
  BY <1>1, FS_Interval
<1>5. Cardinality({t} \X (1..TxSize[t])) = 1 * TxSize[t]
  BY <1>3, <1>4, FS_Product, ZenonT(60)
<1> QED
  BY <1>1, <1>2, <1>5, FS_EmptySet DEF SumSize

-----------------------------------------------------------------------------
(* The operations on the pool                                              *)

LEMMA RemoveTxsKeeps ==
  ASSUME NEW p, IsPool(p), NEW S, S \subseteq p.txs, NEW q, q = RemoveTxs(p, S)
  PROVE  /\ IsPool(q) /\ q.txs = p.txs \ S
         /\ q.orphans = p.orphans /\ q.waiting = p.waiting
<1>1. /\ DOMAIN q = DOMAIN p /\ q.txs = p.txs \ S
      /\ q.orphans = p.orphans /\ q.waiting = p.waiting
      /\ q.bytes = p.bytes - SumSize(S)
      /\ q.spentBy = [o \in {x \in DOMAIN p.spentBy : p.spentBy[x] \notin S} |-> p.spentBy[o]]
  BY DEF RemoveTxs, IsPool
<1>2. q.bytes = SumSize(q.txs)
  <2>1. p.txs = S \cup q.txs /\ S \cap q.txs = {}
    BY <1>1
  <2>2. S \subseteq PoolTx /\ q.txs \subseteq PoolTx
    BY <1>1 DEF IsPool
  <2>3. SumSize(p.txs) = SumSize(S) + SumSize(q.txs)
    BY <2>1, <2>2, SizesAdd
  <2>4. SumSize(S) \in Nat /\ SumSize(q.txs) \in Nat
    BY <2>2, BytesFinite
  <2> QED
    BY <1>1, <2>3, <2>4 DEF IsPool
<1>3. p.spentBy \in [SpendsOf(p.txs) -> p.txs] /\ \A t \in p.txs : \A o \in TxSpends[t] : p.spentBy[o] = t
  BY DEF IsPool, Booked
<1>4. ASSUME NEW o PROVE o \in SpendsOf(q.txs) <=> o \in SpendsOf(p.txs) /\ p.spentBy[o] \notin S
  BY <1>1, <1>3 DEF SpendsOf
<1>5. Booked(q)
  <2> PICK P, Q : P = SpendsOf(p.txs) /\ Q = SpendsOf(q.txs)
    OBVIOUS
  <2>1. Q = {x \in P : p.spentBy[x] \notin S}
    BY <1>4
  <2>2. q.spentBy = [o \in Q |-> p.spentBy[o]] /\ \A o \in Q : p.spentBy[o] \in q.txs
    BY <1>1, <1>3, <2>1
  <2>3. q.spentBy \in [Q -> q.txs]
    BY <2>2
  <2>4. \A t \in q.txs : \A o \in TxSpends[t] : o \in Q
    BY DEF SpendsOf
  <2>5. \A t \in q.txs : \A o \in TxSpends[t] : q.spentBy[o] = t
    BY <1>1, <1>3, <2>2, <2>4
  <2> QED
    BY <2>3, <2>5 DEF Booked
<1> QED
  BY <1>1, <1>2, <1>5 DEF IsPool, Stored

\* trim_to_limits_unlocked ends within the limits, at the latest with an empty pool.
LEMMA TrimKeeps ==
  ASSUME NEW p, IsPool(p), NEW q, q = Trim(p)
  PROVE  /\ IsPool(q) /\ WithinLimits(q) /\ q.txs \subseteq p.txs
         /\ q.orphans = p.orphans /\ q.waiting = p.waiting
<1> DEFINE n == Cardinality(p.txs)
           fits(k) == WithinLimits(RemoveTxs(p, Lowest(p, k)))
           S == {k \in 0..n : fits(k)}
<1>1. IsFiniteSet(p.txs) /\ n \in Nat
  BY BytesFinite, FS_CardinalityType DEF IsPool
<1>2. \A k : Lowest(p, k) \subseteq p.txs
  BY DEF Lowest
<1>3. Lowest(p, n) = p.txs
  <2>1. ASSUME NEW t \in p.txs
        PROVE  Cardinality({u \in p.txs : TxRank[u] < TxRank[t]}) < n
    <3> DEFINE L == {u \in p.txs : TxRank[u] < TxRank[t]}
    <3>1. TxRank[t] \in Nat
      BY MempoolAssumption DEF IsPool
    <3>2. L \in SUBSET p.txs /\ t \notin L
      BY <3>1
    <3>3. IsFiniteSet(L) /\ Cardinality(L) <= n /\ (Cardinality(L) = n => L = p.txs)
      BY <1>1, <3>2, FS_Subset
    <3>4. Cardinality(L) \in Nat
      BY <3>3, FS_CardinalityType
    <3> QED
      BY <1>1, <3>2, <3>3, <3>4
  <2> QED
    BY <2>1 DEF Lowest
<1>4. fits(n)
  <2> PICK r : r = RemoveTxs(p, Lowest(p, n))
    OBVIOUS
  <2>1. IsPool(r) /\ r.txs = {}
    BY <1>2, <1>3, RemoveTxsKeeps
  <2>2. r.bytes = 0 /\ Cardinality(r.txs) = 0
    BY <2>1, FS_EmptySet DEF IsPool, SumSize, Bytes
  <2> QED
    BY <2>2, MempoolAssumption DEF WithinLimits
<1>5. S \subseteq Nat /\ n \in S
  BY <1>1, <1>4
<1>6. Min(S) \in S
  <2> HIDE DEF S
  <2>1. \E k \in S : \A j \in S : k <= j
    BY <1>5, LeastNumber
  <2> QED
    BY <2>1 DEF Min
<1>7. q = RemoveTxs(p, Lowest(p, Min(S)))
  BY DEF Trim
<1>8. WithinLimits(q)
  BY <1>6, <1>7
<1> HIDE DEF S
<1> QED
  BY <1>2, <1>7, <1>8, RemoveTxsKeeps

LEMMA InsertKeeps ==
  ASSUME NEW p, IsPool(p), NEW tx \in PoolTx, tx \notin p.txs, tx \notin Values(p.orphans),
         ~DoubleSpends(p, tx), NEW q, q = Insert(p, tx)
  PROVE  /\ IsPool(q) /\ q.txs = p.txs \cup {tx}
         /\ q.orphans = p.orphans /\ q.waiting = p.waiting
<1>1. /\ DOMAIN q = DOMAIN p /\ q.txs = p.txs \cup {tx}
      /\ q.orphans = p.orphans /\ q.waiting = p.waiting
      /\ q.bytes = p.bytes + TxSize[tx]
      /\ q.spentBy = [o \in TxSpends[tx] \cup DOMAIN p.spentBy |->
                        IF o \in TxSpends[tx] THEN tx ELSE p.spentBy[o]]
  BY DEF Insert, IsPool
<1>2. q.bytes = SumSize(q.txs)
  <2>1. SumSize(q.txs) = SumSize(p.txs) + SumSize({tx})
    BY <1>1, SizesAdd DEF IsPool
  <2> QED
    BY <1>1, <2>1, SizeOfOne DEF IsPool
<1>3. p.spentBy \in [SpendsOf(p.txs) -> p.txs] /\ \A t \in p.txs : \A o \in TxSpends[t] : p.spentBy[o] = t
  BY DEF IsPool, Booked
<1>4. Booked(q)
  <2> PICK P, Q : P = SpendsOf(p.txs) /\ Q = SpendsOf(q.txs)
    OBVIOUS
  <2>1. Q = TxSpends[tx] \cup P
    BY <1>1 DEF SpendsOf
  <2>2. /\ DOMAIN p.spentBy = P
        /\ q.spentBy = [o \in Q |-> IF o \in TxSpends[tx] THEN tx ELSE p.spentBy[o]]
    BY <1>1, <1>3, <2>1
  <2>3. \A o \in Q : o \notin TxSpends[tx] => p.spentBy[o] \in p.txs
    BY <1>3, <2>1
  <2>4. q.spentBy \in [Q -> q.txs]
    BY <1>1, <2>2, <2>3
  <2>5. \A t \in p.txs : \A o \in TxSpends[t] : o \in P /\ o \notin TxSpends[tx]
    BY <2>2 DEF SpendsOf, DoubleSpends
  <2>6. \A t \in q.txs : \A o \in TxSpends[t] : q.spentBy[o] = t
    BY <1>1, <1>3, <2>1, <2>2, <2>5
  <2> QED
    BY <2>4, <2>6 DEF Booked
<1> QED
  BY <1>1, <1>2, <1>4 DEF IsPool, Stored

LEMMA InValues == ASSUME NEW s, NEW v PROVE v \in Values(s) <=> \E i \in DOMAIN s : s[i] = v
BY DEF Values

\* remove_orphan_unlocked forgets the orphans of S everywhere.
KeptAt(p, S) == {i \in DOMAIN p.orphans : p.orphans[i] \notin S}
Forgotten(p, S, q) ==
  /\ IsPool(q) /\ q.txs = p.txs /\ q.bytes = p.bytes
  /\ Values(q.orphans) = Values(p.orphans) \ S
  /\ \A w : w \in q.waiting <=> w \in p.waiting /\ w[2] \notin S
  /\ Len(q.orphans) = Cardinality(KeptAt(p, S))

LEMMA RemoveOrphansKeeps ==
  ASSUME NEW p, IsPool(p), NEW S
  PROVE  Forgotten(p, S, RemoveOrphans(p, S))
<1> DEFINE I == KeptAt(p, S)
<1> PICK q : q = RemoveOrphans(p, S)
  OBVIOUS
<1>1. /\ DOMAIN q = DOMAIN p /\ q.txs = p.txs /\ q.spentBy = p.spentBy /\ q.bytes = p.bytes
      /\ q.orphans = AtPositions(p.orphans, I)
      /\ q.waiting = {w \in p.waiting : w[2] \notin S}
  BY DEF RemoveOrphans, OrphansBut, IsPool, KeptAt
<1>2. /\ p.orphans \in Seq(PoolTx) /\ NoneTwice(p.orphans)
      /\ {w[2] : w \in p.waiting} = Values(p.orphans)
  BY DEF IsPool, Stored
<1>3. I \subseteq DOMAIN p.orphans /\ \A i \in DOMAIN p.orphans : i \in I <=> p.orphans[i] \notin S
  BY DEF KeptAt
<1> HIDE DEF I
<1>4. q.orphans \in Seq(PoolTx) /\ KeptOf(q.orphans, p.orphans, I)
  BY <1>1, <1>2, <1>3, KeptValues
<1>5. /\ q.orphans \in Seq(PoolTx)
      /\ \A k \in DOMAIN q.orphans : \E i \in I : q.orphans[k] = p.orphans[i]
      /\ \A i \in I : \E k \in DOMAIN q.orphans : q.orphans[k] = p.orphans[i]
      /\ NoneTwice(q.orphans) /\ Len(q.orphans) = Cardinality(I)
  BY <1>2, <1>4 DEF KeptOf
<1>6. Values(q.orphans) = Values(p.orphans) \ S
  BY <1>3, <1>5 DEF Values
<1>7. {w[2] : w \in q.waiting} = Values(q.orphans)
  BY <1>1, <1>2, <1>6
<1>8. Stored(q) /\ Booked(q)
  BY <1>1, <1>5, <1>7 DEF Stored, Booked, IsPool
<1>9. IsPool(q)
  BY <1>1, <1>6, <1>8 DEF IsPool
<1> QED
  BY <1>1, <1>5, <1>6, <1>9 DEF Forgotten, I

\* add_orphan_unlocked: the oldest orphan makes room for the new one.
OrphanAdded(p, tx, parents, q) ==
  /\ IsPool(q) /\ InLimits(q) /\ q.txs = p.txs
  /\ Values(q.orphans) \subseteq Values(p.orphans) \cup {tx}
  /\ \A w \in p.waiting : w[2] \in Values(q.orphans) => w \in q.waiting
  /\ \A a \in parents : <<a, tx>> \in q.waiting

LEMMA AddOrphanKeeps ==
  ASSUME NEW p, IsPool(p), InLimits(p), NEW tx \in PoolTx,
         tx \notin p.txs, tx \notin Values(p.orphans), NEW parents, parents # {}
  PROVE  OrphanAdded(p, tx, parents, AddOrphan(p, tx, parents))
<1> DEFINE n == Len(p.orphans)
<1> PICK gone : gone = {p.orphans[i] : i \in 1..(n - OrphanLimit + 1)}
  OBVIOUS
<1> PICK q, r : q = AddOrphan(p, tx, parents) /\ r = RemoveOrphans(p, gone)
  OBVIOUS
<1>1. /\ p.orphans \in Seq(PoolTx) /\ n \in Nat /\ DOMAIN p.orphans = 1..n /\ n <= OrphanLimit
      /\ OrphanLimit \in Nat \ {0}
  BY MempoolAssumption DEF IsPool, Stored, InLimits
<1>2. /\ IsPool(r) /\ r.txs = p.txs /\ r.bytes = p.bytes
      /\ Values(r.orphans) = Values(p.orphans) \ gone
      /\ \A w : w \in r.waiting <=> w \in p.waiting /\ w[2] \notin gone
      /\ Len(r.orphans) = Cardinality(KeptAt(p, gone))
  BY RemoveOrphansKeeps DEF Forgotten
<1>3. /\ DOMAIN q = DOMAIN r /\ q.txs = r.txs /\ q.spentBy = r.spentBy /\ q.bytes = r.bytes
      /\ q.orphans = Append(r.orphans, tx)
      /\ q.waiting = r.waiting \cup (parents \X {tx})
  BY <1>2 DEF AddOrphan, IsPool
<1>4. Len(r.orphans) \in Nat /\ Len(r.orphans) < OrphanLimit
  <2> PICK J : J = KeptAt(p, gone)
    OBVIOUS
  <2>1. CASE n < OrphanLimit
    <3>1. J \in SUBSET (1..n)
      BY <1>1 DEF KeptAt
    <3>2. IsFiniteSet(1..n) /\ Cardinality(1..n) = n
      BY <1>1, FS_Interval
    <3>3. IsFiniteSet(J) /\ Cardinality(J) <= n
      BY <3>1, <3>2, FS_Subset
    <3>4. Cardinality(J) \in Nat
      BY <3>3, FS_CardinalityType
    <3> QED
      BY <1>1, <1>2, <2>1, <3>3, <3>4
  <2>2. CASE n = OrphanLimit
    <3>1. p.orphans[1] \in gone
      BY <1>1, <2>2
    <3>2. J \in SUBSET (2..n)
      BY <1>1, <3>1 DEF KeptAt
    <3>3. IsFiniteSet(2..n) /\ Cardinality(2..n) = n - 1
      <4>1. 2 \in Int /\ n \in Int /\ n >= 1
        BY <1>1, <2>2
      <4>2. IsFiniteSet(2..n) /\ Cardinality(2..n) = IF 2 > n THEN 0 ELSE n - 2 + 1
        BY <4>1, FS_Interval
      <4> QED
        BY <4>1, <4>2
    <3>4. IsFiniteSet(J) /\ Cardinality(J) <= n - 1
      BY <3>2, <3>3, FS_Subset
    <3>5. Cardinality(J) \in Nat
      BY <3>4, FS_CardinalityType
    <3> QED
      BY <1>1, <1>2, <2>2, <3>4, <3>5
  <2> QED
    BY <1>1, <2>1, <2>2
<1> HIDE DEF n
<1>5. /\ r.orphans \in Seq(PoolTx) /\ NoneTwice(r.orphans)
      /\ {w[2] : w \in r.waiting} = Values(r.orphans) /\ tx \notin Values(r.orphans)
  BY <1>2 DEF IsPool, Stored
<1>6. /\ q.orphans \in Seq(PoolTx) /\ Len(q.orphans) = Len(r.orphans) + 1
      /\ DOMAIN q.orphans = 1..(Len(r.orphans) + 1) /\ DOMAIN r.orphans = 1..Len(r.orphans)
      /\ q.orphans[Len(r.orphans) + 1] = tx
      /\ \A i \in DOMAIN r.orphans : q.orphans[i] = r.orphans[i]
  <2> PICK s, t : s = r.orphans /\ t = Append(s, tx)
    OBVIOUS
  <2>1. s \in Seq(PoolTx) /\ q.orphans = t
    BY <1>3, <1>5
  <2>2. /\ t \in Seq(PoolTx) /\ Len(t) = Len(s) + 1
        /\ DOMAIN t = 1..(Len(s) + 1) /\ DOMAIN s = 1..Len(s) /\ Len(s) \in Nat
    BY <2>1
  <2>3. t[Len(s) + 1] = tx /\ \A i \in DOMAIN s : t[i] = s[i]
    BY <2>1, AppendProperties
  <2> QED
    BY <2>1, <2>2, <2>3
<1>7. Values(q.orphans) = Values(r.orphans) \cup {tx}
  <2>1. ASSUME NEW i \in DOMAIN q.orphans
        PROVE  q.orphans[i] = tx \/ i \in DOMAIN r.orphans
    BY <1>4, <1>6
  <2>2. \A i \in DOMAIN r.orphans : i \in DOMAIN q.orphans
    BY <1>4, <1>6
  <2>3. Len(r.orphans) + 1 \in DOMAIN q.orphans
    BY <1>4, <1>6
  <2>4. ASSUME NEW v PROVE v \in Values(q.orphans) <=> v \in Values(r.orphans) \/ v = tx
    <3>1. v \in Values(q.orphans) => v \in Values(r.orphans) \/ v = tx
      BY <1>6, <2>1, InValues
    <3>2. v \in Values(r.orphans) => v \in Values(q.orphans)
      BY <1>6, <2>2, InValues
    <3>3. tx \in Values(q.orphans)
      BY <1>6, <2>3, InValues
    <3> QED
      BY <3>1, <3>2, <3>3
  <2> QED
    BY <2>4
<1>8. NoneTwice(q.orphans)
  <2>1. ASSUME NEW i \in DOMAIN q.orphans
        PROVE  i = Len(r.orphans) + 1 \/ i \in DOMAIN r.orphans
    BY <1>4, <1>6
  <2>2. \A i \in DOMAIN r.orphans : r.orphans[i] # tx
    BY <1>5 DEF Values
  <2>3. \A i \in DOMAIN r.orphans : q.orphans[i] = r.orphans[i] /\ q.orphans[i] # tx
    BY <1>6, <2>2
  <2>4. \A i, j \in DOMAIN r.orphans : r.orphans[i] = r.orphans[j] => i = j
    BY <1>5 DEF NoneTwice
  <2>5. ASSUME NEW i \in DOMAIN q.orphans, NEW j \in DOMAIN q.orphans,
               q.orphans[i] = q.orphans[j]
        PROVE  i = j
    <3>1. CASE i \in DOMAIN r.orphans /\ j \in DOMAIN r.orphans
      BY <2>3, <2>4, <2>5, <3>1
    <3>2. q.orphans[Len(r.orphans) + 1] = tx
      BY <1>6
    <3>3. CASE i \notin DOMAIN r.orphans \/ j \notin DOMAIN r.orphans
      BY <2>1, <2>3, <2>5, <3>2, <3>3
    <3> QED
      BY <3>1, <3>3
  <2> QED
    BY <2>5 DEF NoneTwice
<1>9. {w[2] : w \in q.waiting} = Values(q.orphans)
  <2>1. \A w \in parents \X {tx} : w[2] = tx
    OBVIOUS
  <2>2. PICK a \in parents : <<a, tx>> \in parents \X {tx}
    OBVIOUS
  <2>3. \A w \in q.waiting : w[2] \in Values(q.orphans)
    BY <1>3, <1>5, <1>7, <2>1
  <2>4. \A o \in Values(q.orphans) : \E w \in q.waiting : w[2] = o
    BY <1>3, <1>5, <1>7, <2>1, <2>2
  <2> QED
    BY <2>3, <2>4
<1>10. Stored(q) /\ Booked(q)
  <2>1. Stored(q)
    BY <1>6, <1>8, <1>9 DEF Stored
  <2>2. Booked(r)
    BY <1>2 DEF IsPool
  <2> QED
    BY <1>3, <2>1, <2>2 DEF Booked
<1>11. IsPool(q)
  <2>1. r.txs \cap Values(r.orphans) = {} /\ r.txs \subseteq PoolTx /\ r.bytes = SumSize(r.txs)
        /\ DOMAIN r = {"txs", "spentBy", "bytes", "orphans", "waiting"}
    BY <1>2 DEF IsPool
  <2>2. q.txs = r.txs /\ tx \notin q.txs
    BY <1>2, <1>3
  <2>3. q.txs \cap Values(q.orphans) = {}
    BY <1>7, <2>1, <2>2
  <2> QED
    BY <1>3, <1>10, <2>1, <2>3 DEF IsPool
<1>12. InLimits(q)
  <2>1. q.bytes = p.bytes /\ q.txs = p.txs
    BY <1>2, <1>3
  <2>2. WithinLimits(q)
    <3>1. WithinLimits(p)
      BY DEF InLimits
    <3> QED
      BY <2>1, <3>1 DEF WithinLimits
  <2>3. Len(q.orphans) <= OrphanLimit
    BY <1>1, <1>2, <1>4, <1>6
  <2> QED
    BY <2>2, <2>3 DEF InLimits
<1>13. \A w \in p.waiting : w[2] \in Values(q.orphans) => w \in q.waiting
  <2> SUFFICES ASSUME NEW w \in p.waiting, w[2] \in Values(q.orphans) PROVE w \in q.waiting
    OBVIOUS
  <2>1. w[2] \in Values(p.orphans)
    BY DEF IsPool, Stored
  <2>2. w[2] \notin gone
    BY <1>2, <1>7, <2>1
  <2> QED
    BY <1>2, <1>3, <2>2
<1> QED
  BY <1>2, <1>3, <1>7, <1>11, <1>12, <1>13 DEF OrphanAdded

-----------------------------------------------------------------------------
(* add_transaction_unlocked                                                *)

\* What a call leaves: a pool that agrees; an entry only with its inputs resolved; and
\* orphans that wait, or are in the list of the new entry, or did not wait before.
Ready(p, q, tx, o) == Accepted(p, q, tx) /\ o \in ReadyFor(q, tx)
Left(p, q, tx) ==
  /\ IsPool(q) /\ InLimits(q)
  /\ q.txs \subseteq p.txs \cup {tx}
  /\ Accepted(p, q, tx) => MissingParents(p, tx) = {}
  /\ \A o \in Values(q.orphans) :
       \/ Waits(q, o) \/ Ready(p, q, tx, o)
       \/ o \in Values(p.orphans) /\ ~Waits(p, o)

LEMMA ToSetValues == ASSUME NEW s PROVE ToSet(s) = Values(s)
BY DEF ToSet, Values

LEMMA AddEffect ==
  ASSUME NEW p, IsPool(p), InLimits(p), NEW tx \in PoolTx, NEW h, NEW q, q = AfterAdd(p, tx, h)
  PROVE  Left(p, q, tx)
<1>1. CASE q = p
  BY <1>1 DEF Left, Accepted
<1>2. CASE q # p
  <2>1. /\ ~Known(p, tx) /\ ~DoubleSpends(p, tx)
        /\ \/ MissingParents(p, tx) # {} /\ q = AddOrphan(p, tx, MissingParents(p, tx))
           \/ MissingParents(p, tx) = {} /\ q = Trim(Insert(p, tx))
    BY <1>2 DEF AfterAdd
  <2>2. tx \notin p.txs /\ tx \notin Values(p.orphans)
    BY <2>1, ToSetValues DEF Known
  <2>3. CASE MissingParents(p, tx) # {}
    <3> PICK parents : parents = MissingParents(p, tx)
      OBVIOUS
    <3>1. OrphanAdded(p, tx, parents, q)
      BY <2>1, <2>2, <2>3, AddOrphanKeeps
    <3>2. /\ IsPool(q) /\ InLimits(q) /\ q.txs = p.txs
          /\ Values(q.orphans) \subseteq Values(p.orphans) \cup {tx}
          /\ \A w \in p.waiting : w[2] \in Values(q.orphans) => w \in q.waiting
          /\ \A a \in parents : <<a, tx>> \in q.waiting
      BY <3>1 DEF OrphanAdded
    <3>3. Waits(q, tx)
      <4>1. PICK x \in TxSpends[tx] : x \notin DOMAIN coins /\ x[1] \notin p.txs
        BY <2>3 DEF MissingParents
      <4>2. x[1] \in parents
        BY <4>1 DEF MissingParents
      <4> QED
        BY <3>2, <4>1, <4>2 DEF Waits
    <3>4. ASSUME NEW o \in Values(q.orphans), Waits(p, o) PROVE Waits(q, o)
      <4>1. PICK x \in TxSpends[o] :
              <<x[1], o>> \in p.waiting /\ x \notin DOMAIN coins /\ x[1] \notin p.txs
        BY <3>4 DEF Waits
      <4>2. <<x[1], o>>[2] = o
        OBVIOUS
      <4>3. <<x[1], o>> \in q.waiting
        BY <3>2, <4>1, <4>2
      <4> QED
        BY <3>2, <4>1, <4>3 DEF Waits
    <3>5. \A o \in Values(q.orphans) : Waits(q, o) \/ (o \in Values(p.orphans) /\ ~Waits(p, o))
      BY <3>2, <3>3, <3>4
    <3> QED
      BY <3>2, <3>5 DEF Left, Accepted
  <2>4. CASE MissingParents(p, tx) = {}
    <3> PICK r : r = Insert(p, tx)
      OBVIOUS
    <3>1. /\ IsPool(r) /\ r.txs = p.txs \cup {tx}
          /\ r.orphans = p.orphans /\ r.waiting = p.waiting
      BY <2>1, <2>2, InsertKeeps
    <3>2. /\ IsPool(q) /\ WithinLimits(q) /\ q.txs \subseteq r.txs
          /\ q.orphans = p.orphans /\ q.waiting = p.waiting
      BY <2>1, <2>4, <3>1, TrimKeeps
    <3>3. ASSUME NEW o \in Values(q.orphans), Waits(p, o) PROVE Waits(q, o) \/ Ready(p, q, tx, o)
      <4>1. PICK x \in TxSpends[o] :
              <<x[1], o>> \in p.waiting /\ x \notin DOMAIN coins /\ x[1] \notin p.txs
        BY <3>3 DEF Waits
      <4>2. CASE x[1] \notin q.txs
        BY <3>2, <4>1, <4>2 DEF Waits
      <4>3. CASE x[1] \in q.txs
        <5>1. x[1] = tx
          BY <3>1, <3>2, <4>1, <4>3
        <5>2. Accepted(p, q, tx)
          BY <2>2, <4>3, <5>1 DEF Accepted
        <5>3. <<x[1], o>>[1] = tx /\ <<x[1], o>>[2] = o
          BY <5>1
        <5>4. o \in ReadyFor(q, tx)
          BY <3>2, <4>1, <5>3 DEF ReadyFor
        <5> QED
          BY <5>2, <5>4 DEF Ready
      <4> QED
        BY <4>2, <4>3
    <3>4. InLimits(q)
      BY <3>2 DEF InLimits
    <3>5. \A o \in Values(q.orphans) :
            \/ Waits(q, o) \/ Ready(p, q, tx, o)
            \/ o \in Values(p.orphans) /\ ~Waits(p, o)
      BY <3>2, <3>3
    <3> QED
      BY <2>4, <3>1, <3>2, <3>4, <3>5 DEF Left
  <2> QED
    BY <2>3, <2>4
<1> QED
  BY <1>1, <1>2
\* What was resolved against the active chain or an entry is on the active chain.
LEMMA Admission ==
  ASSUME NEW p, NEW q, NEW tx, p.txs = mp.txs, Left(p, q, tx), mp.txs \subseteq admitted,
         PoolOnActiveChain, mp' = q, admitted' = admitted \cup (q.txs \ mp.txs),
         UNCHANGED <<coins, activating>>
  PROVE  mp'.txs \subseteq admitted' /\ PoolOnActiveChain'
<1>1. q.txs \subseteq admitted'
  OBVIOUS
<1>2. ASSUME activating.phase # "clear", NEW t \in q.txs, NEW o \in TxSpends[t]
      PROVE  o \in DOMAIN coins \/ o[1] \in admitted'
  <2>1. CASE t \in mp.txs
    BY <1>2, <2>1 DEF PoolOnActiveChain
  <2>2. CASE t \notin mp.txs
    <3>1. t = tx /\ Accepted(p, q, tx)
      BY <1>2, <2>2 DEF Left, Accepted
    <3>2. MissingParents(p, tx) = {}
      BY <3>1 DEF Left
    <3>3. o \in DOMAIN coins \/ o[1] \in p.txs
      BY <1>2, <3>1, <3>2 DEF MissingParents
    <3> QED
      BY <3>3
  <2> QED
    BY <2>1, <2>2
<1> QED
  BY <1>1, <1>2 DEF PoolOnActiveChain

-----------------------------------------------------------------------------
(* The loops over orphans                                                  *)

Lists == Seq(SUBSET PoolTx)

LEMMA DueInPending ==
  ASSUME NEW s \in Lists
  PROVE  Pending(s) \in Lists /\ \A o : Due(Pending(s), o) <=> Due(s, o)
<1> PICK I : I = {i \in DOMAIN s : s[i] # {}}
  OBVIOUS
<1>1. I \subseteq DOMAIN s /\ \A i \in DOMAIN s : i \notin I => s[i] = {}
  OBVIOUS
<1> PICK r : r = AtPositions(s, I)
  OBVIOUS
<1>2. r \in Lists /\ KeptOf(r, s, I)
  BY <1>1, KeptValues DEF Lists
<1>3. r = Pending(s)
  BY DEF Pending
<1>4. ASSUME NEW o PROVE Due(r, o) <=> Due(s, o)
  BY <1>1, <1>2 DEF Due, KeptOf
<1> QED
  BY <1>2, <1>3, <1>4

LEMMA DueInConcat ==
  ASSUME NEW s \in Lists, NEW t \in Lists
  PROVE  s \o t \in Lists /\ \A o : Due(s, o) \/ Due(t, o) => Due(s \o t, o)
<1>1. /\ Len(s) \in Nat /\ Len(t) \in Nat /\ DOMAIN s = 1..Len(s) /\ DOMAIN t = 1..Len(t)
      /\ s \o t \in Lists /\ DOMAIN (s \o t) = 1..(Len(s) + Len(t))
      /\ \A i \in DOMAIN (s \o t) : (s \o t)[i] = IF i <= Len(s) THEN s[i] ELSE t[i - Len(s)]
  BY DEF Lists
<1> PICK r : r = s \o t
  OBVIOUS
<1>2. \A i \in DOMAIN s : i \in DOMAIN r /\ r[i] = s[i]
  BY <1>1
<1>3. \A i \in DOMAIN t : i + Len(s) \in DOMAIN r /\ r[i + Len(s)] = t[i]
  BY <1>1
<1>4. \A o : Due(s, o) \/ Due(t, o) => Due(r, o)
  BY <1>2, <1>3 DEF Due
<1> QED
  BY <1>1, <1>4

LEMMA DueInOne == ASSUME NEW S PROVE \A o : (Due(<<S>>, o) <=> o \in S) /\ ~Due(<< >>, o)
<1>1. DOMAIN <<S>> = {1} /\ <<S>>[1] = S /\ DOMAIN << >> = {}
  OBVIOUS
<1> QED
  BY <1>1 DEF Due

LEMMA DueInHead ==
  ASSUME NEW s \in Lists, s # << >>, NEW o, Due(s, o)
  PROVE  o \in Head(s) \/ Due(Tail(s), o)
<1>1. /\ Len(s) \in Nat \ {0} /\ DOMAIN s = 1..Len(s) /\ Head(s) = s[1]
      /\ DOMAIN Tail(s) = 1..(Len(s) - 1)
      /\ \A i \in DOMAIN Tail(s) : Tail(s)[i] = s[i + 1]
  BY DEF Lists
<1>2. PICK k \in DOMAIN s : o \in s[k]
  BY DEF Due
<1>3. CASE k = 1
  BY <1>1, <1>2, <1>3
<1>4. CASE k # 1
  <2>1. k - 1 \in DOMAIN Tail(s) /\ Tail(s)[k - 1] = s[k]
    BY <1>1, <1>4
  <2> QED
    BY <1>2, <2>1 DEF Due
<1> QED
  BY <1>3, <1>4

LEMMA OneList == ASSUME NEW S \in SUBSET PoolTx PROVE <<S>> \in Lists /\ << >> \in Lists
  BY DEF Lists

LEMMA ReadyTyped == ASSUME NEW q, IsPool(q), NEW tx PROVE ReadyFor(q, tx) \in SUBSET PoolTx
<1>1. ASSUME NEW o \in ReadyFor(q, tx) PROVE o \in PoolTx
  <2>1. o \in Values(q.orphans)
    BY <1>1 DEF ReadyFor, IsPool, Stored
  <2> QED
    BY <2>1, InValues DEF IsPool, Stored
<1> QED
  BY <1>1

-----------------------------------------------------------------------------
(* The steps                                                               *)

LEMMA AddKeeps ==
  ASSUME MempoolInv, NEW s \in Submitters, Add(s)
  PROVE  MempoolInv'
<1> PICK tx, h, q : tx = calls[s][1] /\ h = calls[s][2] /\ q = AfterAdd(mp, tx, h)
  OBVIOUS
<1> PICK ready : ready = IF Accepted(mp, q, tx) THEN <<ReadyFor(q, tx)>> ELSE << >>
  OBVIOUS
<1> PICK todo : todo = Pending(ready)
  OBVIOUS
<1>1. /\ calls[s] # << >> /\ work.stack = << >>
      /\ mp' = q /\ admitted' = admitted \cup (q.txs \ mp.txs)
      /\ work' = IF todo = << >> THEN NoCall ELSE [height |-> h, stack |-> todo]
      /\ calls' = [calls EXCEPT ![s] = << >>]
      /\ UNCHANGED <<coins, height, activating, job>>
  BY DEF Add, Unlocked
<1>2. tx \in PoolTx /\ IsPool(mp) /\ InLimits(mp)
  BY <1>1 DEF MempoolInv, CallsTyped
<1>3. Left(mp, q, tx)
  BY <1>2, AddEffect
<1>4. IsPool(q) /\ InLimits(q)
  BY <1>3 DEF Left
<1>5. mp'.txs \subseteq admitted' /\ PoolOnActiveChain'
  BY <1>1, <1>3, Admission DEF MempoolInv
<1>6. ready \in Lists
  <2>1. ReadyFor(q, tx) \in SUBSET PoolTx
    BY <1>4, ReadyTyped
  <2>2. CASE Accepted(mp, q, tx)
    BY <2>1, <2>2, OneList
  <2>3. CASE ~Accepted(mp, q, tx)
    BY <2>1, <2>3, OneList
  <2> QED
    BY <2>2, <2>3
<1>7. todo \in Lists /\ \A o : Due(todo, o) <=> Due(ready, o)
  BY <1>6, DueInPending
<1>8. DOMAIN work' = {"height", "stack"} /\ work'.stack = todo
  BY <1>1 DEF NoCall
<1>9. CallsTyped'
  BY <1>1, <1>7, <1>8 DEF MempoolInv, CallsTyped, Lists
<1>10. ASSUME activating.phase # "clear", NEW o \in Values(q.orphans)
       PROVE  Waits(q, o) \/ Due(todo, o)
  <2>1. o \in Values(mp.orphans) => Waits(mp, o)
    BY <1>1, <1>10, DueInOne DEF MempoolInv, OrphansHandled
  <2>2. Waits(q, o) \/ Ready(mp, q, tx, o)
    BY <1>3, <1>10, <2>1 DEF Left
  <2>3. Ready(mp, q, tx, o) => Due(ready, o)
    BY DueInOne DEF Ready
  <2> QED
    BY <1>7, <2>2, <2>3
<1>11. OrphansHandled'
  BY <1>1, <1>8, <1>10 DEF OrphansHandled, Waits
<1>12. IsPool(mp)' /\ InLimits(mp)'
  BY <1>1, <1>4 DEF IsPool, InLimits, WithinLimits, Booked, Stored
<1> QED
  BY <1>5, <1>9, <1>11, <1>12 DEF MempoolInv

LEMMA WithoutOrphan ==
  ASSUME IsPool(mp), InLimits(mp), NEW o, NEW p, p = RemoveOrphans(mp, {o})
  PROVE  /\ IsPool(p) /\ InLimits(p) /\ p.txs = mp.txs
         /\ Values(p.orphans) = Values(mp.orphans) \ {o}
<1>1. /\ IsPool(p) /\ p.txs = mp.txs /\ p.bytes = mp.bytes
      /\ Len(p.orphans) = Cardinality(KeptAt(mp, {o}))
      /\ Values(p.orphans) = Values(mp.orphans) \ {o}
  BY RemoveOrphansKeeps DEF Forgotten
<1>2. Len(mp.orphans) \in Nat /\ DOMAIN mp.orphans = 1..Len(mp.orphans)
  BY DEF IsPool, Stored
<1>3. KeptAt(mp, {o}) \in SUBSET (1..Len(mp.orphans))
  BY <1>2 DEF KeptAt
<1>4. IsFiniteSet(1..Len(mp.orphans)) /\ Cardinality(1..Len(mp.orphans)) = Len(mp.orphans)
  BY <1>2, FS_Interval
<1>5. IsFiniteSet(KeptAt(mp, {o})) /\ Cardinality(KeptAt(mp, {o})) <= Len(mp.orphans)
  BY <1>3, <1>4, FS_Subset
<1>6. Cardinality(KeptAt(mp, {o})) \in Nat
  BY <1>5, FS_CardinalityType
<1>7. Len(p.orphans) <= OrphanLimit
  BY <1>1, <1>2, <1>5, <1>6, MempoolAssumption DEF InLimits
<1> QED
  BY <1>1, <1>7 DEF InLimits, WithinLimits

LEMMA RetryKeeps ==
  ASSUME MempoolInv, RetryOrphan
  PROVE  MempoolInv'
<1>1. PICK o \in Head(work.stack \o <<{}>>) :
        LET there == o \in ToSet(mp.orphans)
            p == RemoveOrphans(mp, {o})
            q == IF there THEN AfterAdd(p, o, work.height) ELSE mp
            nested == IF there /\ Accepted(p, q, o) THEN <<ReadyFor(q, o)>> ELSE << >>
            todo == Pending(nested \o <<Head(work.stack) \ {o}>> \o Tail(work.stack))
        IN /\ mp' = q
           /\ admitted' = admitted \cup (q.txs \ mp.txs)
           /\ work' = IF todo = << >> THEN NoCall ELSE [work EXCEPT !.stack = todo]
           /\ UNCHANGED <<coins, height, activating, calls, job>>
  BY DEF RetryOrphan
<1>2. /\ work.stack \in Lists /\ DOMAIN work = {"height", "stack"}
      /\ IsPool(mp) /\ InLimits(mp)
  BY DEF MempoolInv, CallsTyped, Lists
<1>3. /\ work.stack # << >> /\ o \in Head(work.stack) /\ o \in PoolTx
      /\ Head(work.stack) \in SUBSET PoolTx /\ Tail(work.stack) \in Lists
  <2>1. CASE work.stack = << >>
    <3>1. Head(<< >> \o <<{}>>) = {}
      OBVIOUS
    <3> QED
      BY <1>1, <2>1, <3>1
  <2>2. CASE work.stack # << >>
    <3>1. /\ Head(work.stack \o <<{}>>) = Head(work.stack)
          /\ Head(work.stack) \in SUBSET PoolTx /\ Tail(work.stack) \in Lists
      BY <1>2, <2>2 DEF Lists
    <3> QED
      BY <1>1, <2>2, <3>1
  <2> QED
    BY <2>1, <2>2
<1> PICK p, q : /\ p = RemoveOrphans(mp, {o})
                /\ q = IF o \in Values(mp.orphans) THEN AfterAdd(p, o, work.height) ELSE mp
  OBVIOUS
<1> PICK nested : nested = IF o \in Values(mp.orphans) /\ Accepted(p, q, o)
                           THEN <<ReadyFor(q, o)>> ELSE << >>
  OBVIOUS
<1> PICK rest, left, todo : /\ rest = <<Head(work.stack) \ {o}>>
                            /\ left = nested \o rest \o Tail(work.stack)
                            /\ todo = Pending(left)
  OBVIOUS
<1>4. /\ mp' = q /\ admitted' = admitted \cup (q.txs \ mp.txs)
      /\ work' = IF todo = << >> THEN NoCall ELSE [work EXCEPT !.stack = todo]
      /\ UNCHANGED <<coins, height, activating, calls, job>>
  BY <1>1, ToSetValues
<1>5. Forgotten(mp, {o}, p)
  BY <1>2, RemoveOrphansKeeps
<1>6. IsPool(p) /\ InLimits(p) /\ p.txs = mp.txs /\ Values(p.orphans) = Values(mp.orphans) \ {o}
  BY <1>2, WithoutOrphan
<1>7. o \in Values(mp.orphans) => Left(p, q, o)
  BY <1>3, <1>6, AddEffect
<1>8. IsPool(q) /\ InLimits(q)
  BY <1>2, <1>7 DEF Left
<1>9. nested \in Lists /\ rest \in Lists
  <2>1. ReadyFor(q, o) \in SUBSET PoolTx
    BY <1>8, ReadyTyped
  <2>2. Head(work.stack) \ {o} \in SUBSET PoolTx
    BY <1>3
  <2>3. rest \in Lists
    BY <2>2, OneList
  <2>4. CASE o \in Values(mp.orphans) /\ Accepted(p, q, o)
    BY <2>1, <2>3, <2>4, OneList
  <2>5. CASE ~(o \in Values(mp.orphans) /\ Accepted(p, q, o))
    BY <2>1, <2>3, <2>5, OneList
  <2> QED
    BY <2>4, <2>5
<1>10. todo \in Lists
       /\ \A x : Due(nested, x) \/ Due(rest, x) \/ Due(Tail(work.stack), x) => Due(todo, x)
  <2>1. nested \o rest \in Lists /\ \A x : Due(nested, x) \/ Due(rest, x) => Due(nested \o rest, x)
    BY <1>9, DueInConcat
  <2>2. left \in Lists
        /\ \A x : Due(nested \o rest, x) \/ Due(Tail(work.stack), x) => Due(left, x)
    BY <1>3, <2>1, DueInConcat
  <2>3. todo \in Lists /\ \A x : Due(todo, x) <=> Due(left, x)
    BY <2>2, DueInPending
  <2> QED
    BY <2>1, <2>2, <2>3
<1>11. DOMAIN work' = {"height", "stack"} /\ work'.stack = todo
  BY <1>2, <1>4 DEF NoCall
<1>12. CallsTyped'
  BY <1>4, <1>10, <1>11 DEF MempoolInv, CallsTyped, Lists
<1>13. mp'.txs \subseteq admitted' /\ PoolOnActiveChain'
  <2>1. CASE o \in Values(mp.orphans)
    BY <1>4, <1>6, <1>7, <2>1, Admission DEF MempoolInv
  <2>2. CASE o \notin Values(mp.orphans)
    <3>1. mp' = mp /\ admitted' = admitted
      BY <1>4, <2>2
    <3> QED
      BY <1>4, <3>1 DEF MempoolInv, PoolOnActiveChain
  <2> QED
    BY <2>1, <2>2
<1>14. ASSUME activating.phase # "clear", NEW x \in Values(mp.orphans), x # o, ~Waits(mp, x)
       PROVE  Due(todo, x)
  <2>1. Due(work.stack, x)
    BY <1>14 DEF MempoolInv, OrphansHandled
  <2>2. x \in Head(work.stack) \/ Due(Tail(work.stack), x)
    BY <1>2, <1>3, <2>1, DueInHead
  <2>3. x \in Head(work.stack) => Due(rest, x)
    BY <1>14, DueInOne
  <2> QED
    BY <1>10, <2>2, <2>3
<1>15. ASSUME activating.phase # "clear", NEW x \in Values(q.orphans)
       PROVE  Waits(q, x) \/ Due(todo, x)
  <2>1. CASE o \in Values(mp.orphans)
    <3>1. \/ Waits(q, x) \/ Ready(p, q, o, x)
          \/ x \in Values(p.orphans) /\ ~Waits(p, x)
      BY <1>7, <1>15, <2>1 DEF Left
    <3>2. Ready(p, q, o, x) => Due(nested, x)
      BY <2>1, DueInOne DEF Ready
    <3>3. ASSUME x \in Values(p.orphans), Waits(mp, x) PROVE Waits(p, x)
      <4>1. PICK y \in TxSpends[x] :
              <<y[1], x>> \in mp.waiting /\ y \notin DOMAIN coins /\ y[1] \notin mp.txs
        BY <3>3 DEF Waits
      <4>2. <<y[1], x>>[2] = x /\ x # o
        BY <1>6, <3>3
      <4>3. <<y[1], x>> \in p.waiting
        BY <1>5, <4>1, <4>2 DEF Forgotten
      <4> QED
        BY <1>6, <4>1, <4>3 DEF Waits
    <3>4. x \in Values(p.orphans) /\ ~Waits(p, x) => Due(todo, x)
      BY <1>6, <1>14, <1>15, <3>3
    <3> QED
      BY <1>10, <3>1, <3>2, <3>4
  <2>2. CASE o \notin Values(mp.orphans)
    BY <1>14, <1>15, <2>2
  <2> QED
    BY <2>1, <2>2
<1>16. OrphansHandled'
  BY <1>4, <1>11, <1>15 DEF OrphansHandled, Waits
<1>17. IsPool(mp)' /\ InLimits(mp)'
  BY <1>4, <1>8 DEF IsPool, InLimits, WithinLimits, Booked, Stored
<1> QED
  BY <1>12, <1>13, <1>16, <1>17 DEF MempoolInv

LEMMA EmptyIsPool == IsPool(EmptyPool) /\ InLimits(EmptyPool)
<1> PICK p : p = EmptyPool
  OBVIOUS
<1>1. /\ DOMAIN p = {"txs", "spentBy", "bytes", "orphans", "waiting"}
      /\ p.txs = {} /\ p.spentBy = << >> /\ p.bytes = 0 /\ p.orphans = << >> /\ p.waiting = {}
  BY DEF EmptyPool
<1>2. SumSize({}) = 0 /\ Cardinality({}) = 0
  BY FS_EmptySet DEF SumSize, Bytes
<1>3. SpendsOf({}) = {} /\ << >> \in [{} -> {}]
  BY DEF SpendsOf
<1>4. Values(<< >>) = {} /\ NoneTwice(<< >>) /\ << >> \in Seq(PoolTx) /\ Len(<< >>) = 0
  BY DEF Values, NoneTwice
<1>5. Booked(p) /\ Stored(p)
  BY <1>1, <1>3, <1>4 DEF Booked, Stored
<1>6. IsPool(p)
  BY <1>1, <1>2, <1>4, <1>5 DEF IsPool
<1>7. InLimits(p)
  BY <1>1, <1>2, <1>4, MempoolAssumption DEF InLimits, WithinLimits
<1> QED
  BY <1>6, <1>7

\* An activation clears the pool in the end, and the orphans with it.
LEMMA ClearKeeps == ASSUME MempoolInv, ClearPool PROVE MempoolInv'
<1>1. /\ mp' = EmptyPool /\ admitted' = {} /\ work.stack = << >>
      /\ UNCHANGED <<coins, height, calls, work, job>>
  BY DEF ClearPool, Unlocked
<1>2. CallsTyped'
  BY <1>1 DEF MempoolInv, CallsTyped
<1>3. IsPool(mp)' /\ InLimits(mp)'
  BY <1>1, EmptyIsPool DEF IsPool, InLimits, WithinLimits, Booked, Stored
<1>4. /\ mp'.txs = {} /\ \A x : x \notin Values(mp'.orphans)
  BY <1>1 DEF EmptyPool, Values
<1> QED
  BY <1>1, <1>2, <1>3, <1>4 DEF MempoolInv, PoolOnActiveChain, OrphansHandled

LEMMA MempoolInvIsKept == MempoolInv /\ [MempoolNext]_mempoolVars => MempoolInv'
<1> SUFFICES ASSUME MempoolInv, [MempoolNext]_mempoolVars PROVE MempoolInv'
  OBVIOUS
\* A step that leaves the pool, and does not start to use another chain.
<1>1. ASSUME UNCHANGED <<mp, work, admitted>>, CallsTyped',
             activating'.phase = "clear" \/ (activating.phase # "clear" /\ coins' = coins)
      PROVE  MempoolInv'
  <2>1. IsPool(mp)' /\ InLimits(mp)' /\ mp'.txs \subseteq admitted'
    BY <1>1 DEF MempoolInv, IsPool, InLimits, WithinLimits, Booked, Stored
  <2>2. PoolOnActiveChain' /\ OrphansHandled'
    BY <1>1 DEF MempoolInv, PoolOnActiveChain, OrphansHandled, Waits
  <2> QED
    BY <1>1, <2>1, <2>2 DEF MempoolInv
<1>2. UNCHANGED <<calls, work>> => CallsTyped'
  BY DEF MempoolInv, CallsTyped
<1>3. ASSUME UNCHANGED <<mp, coins, activating, calls, work, admitted>> PROVE MempoolInv'
  <2>1. CASE activating.phase = "clear"
    BY <1>1, <1>2, <1>3, <2>1
  <2>2. CASE activating.phase # "clear"
    BY <1>1, <1>2, <1>3, <2>2
  <2> QED
    BY <2>1, <2>2
<1>4. ASSUME NEW s \in Submitters, NEW tx \in PoolTx, Submit(s, tx) PROVE MempoolInv'
  <2>1. CallsTyped'
    BY <1>4 DEF Submit, MempoolInv, CallsTyped
  <2>2. CASE activating.phase = "clear"
    BY <1>1, <1>4, <2>1, <2>2 DEF Submit
  <2>3. CASE activating.phase # "clear"
    BY <1>1, <1>4, <2>1, <2>3 DEF Submit
  <2> QED
    BY <2>2, <2>3
<1>5. ASSUME NEW t \in Tips, ActivateHeight(t) PROVE MempoolInv'
  BY <1>1, <1>2, <1>5 DEF ActivateHeight, NoTask
<1>6. ASSUME ActivateCoins PROVE MempoolInv'
  BY <1>1, <1>2, <1>6 DEF ActivateCoins
<1>7. MinerReadsHeight \/ MinerReadsPool \/ MinerSelects \/ MinerDone => MempoolInv'
  BY <1>3 DEF MinerReadsHeight, MinerReadsPool, MinerSelects, MinerDone
<1>8. UNCHANGED mempoolVars => MempoolInv'
  BY <1>3 DEF mempoolVars
<1> QED
  BY <1>4, <1>5, <1>6, <1>7, <1>8, AddKeeps, RetryKeeps, ClearKeeps DEF MempoolNext

LEMMA InvAtStart == MempoolInit => MempoolInv
<1> SUFFICES ASSUME MempoolInit PROVE MempoolInv
  OBVIOUS
<1>1. CallsTyped
  <2>1. work.stack = << >> /\ DOMAIN work = {"height", "stack"} /\ << >> \in Seq(SUBSET PoolTx)
    BY DEF MempoolInit, NoCall
  <2> QED
    BY <2>1 DEF MempoolInit, CallsTyped
<1>2. IsPool(mp) /\ InLimits(mp)
  BY EmptyIsPool DEF MempoolInit
<1>3. mp.txs = {} /\ \A x : x \notin Values(mp.orphans)
  BY DEF MempoolInit, EmptyPool, Values
<1> QED
  BY <1>1, <1>2, <1>3 DEF MempoolInv, PoolOnActiveChain, OrphansHandled

-----------------------------------------------------------------------------
(* The selection of a template                                             *)

LEMMA FeerateOrder ==
  ASSUME NEW S, S \subseteq PoolTx
  PROVE  ByFeerate(S) \in Seq(S) /\ NoneTwice(ByFeerate(S))
<1> DEFINE ranks == {TxRank[t] : t \in S}
           s == [r \in ranks |-> CHOOSE t \in S : TxRank[t] = r]
           rank == [t \in S |-> TxRank[t]]
<1>1. IsFiniteSet(S) /\ \A t \in S : TxRank[t] \in Nat
  BY BytesFinite, MempoolAssumption
<1>2. ranks \subseteq Nat
  BY <1>1
<1>3. IsFiniteSet(ranks)
  <2>1. rank \in [S -> ranks] /\ \A r \in ranks : \E t \in S : rank[t] = r
    OBVIOUS
  <2> HIDE DEF rank, ranks
  <2>2. rank \in Surjection(S, ranks)
    BY <2>1 DEF Surjection
  <2> QED
    BY <1>1, <2>2, FS_Surjection
<1>4. ASSUME NEW r \in ranks PROVE s[r] \in S /\ TxRank[s[r]] = r
  <2>1. \E t \in S : TxRank[t] = r
    OBVIOUS
  <2>2. s[r] = CHOOSE t \in S : TxRank[t] = r
    OBVIOUS
  <2> QED
    BY <2>1, <2>2
<1> PICK q : q = AtPositions(s, ranks)
  OBVIOUS
<1>5. ByFeerate(S) = Reverse(q)
  BY DEF ByFeerate
<1> HIDE DEF s, ranks
<1>6. q \in Seq(S) /\ \E e : Picks(q, s, ranks, e)
  BY <1>2, <1>3, <1>4, PositionsCounted
<1>7. PICK e : Picks(q, s, ranks, e)
  BY <1>6
<1>8. ASSUME NEW k \in DOMAIN q, NEW l \in DOMAIN q, q[k] = q[l] PROVE k = l
  <2>1. e[k] \in ranks /\ e[l] \in ranks /\ q[k] = s[e[k]] /\ q[l] = s[e[l]]
    BY <1>7 DEF Picks
  <2>2. e[k] = e[l]
    BY <1>4, <1>8, <2>1
  <2> QED
    BY <1>7, <2>2 DEF Picks
<1>9. /\ Len(q) \in Nat /\ DOMAIN q = 1..Len(q) /\ \A i \in DOMAIN q : q[i] \in S
  BY <1>6
<1> PICK r : r = Reverse(q)
  OBVIOUS
<1>10. DOMAIN r = 1..Len(q) /\ r \in Seq(S)
       /\ \A i \in DOMAIN r : Len(q) - i + 1 \in DOMAIN q /\ r[i] = q[Len(q) - i + 1]
  <2>1. \A i \in 1..Len(q) : (Len(q) - i) + 1 \in 1..Len(q)
    BY <1>9
  <2>2. r = [i \in 1..Len(q) |-> q[(Len(q) - i) + 1]]
    BY DEF Reverse
  <2>3. \A i \in 1..Len(q) : q[(Len(q) - i) + 1] \in S
    BY <1>9, <2>1
  <2> QED
    BY <1>9, <2>1, <2>2, <2>3
<1>11. NoneTwice(r)
  <2> SUFFICES ASSUME NEW i \in DOMAIN r, NEW j \in DOMAIN r, r[i] = r[j] PROVE i = j
    BY DEF NoneTwice
  <2>1. Len(q) - i + 1 = Len(q) - j + 1
    BY <1>8, <1>10
  <2> QED
    BY <1>9, <1>10, <2>1
<1> QED
  BY <1>5, <1>10, <1>11

\* What the entries of c say of a coinbase, when c comes from base: it is one of base.
FromBase(base, c) ==
  \A o \in DOMAIN c :
    \/ o \in DOMAIN base /\ c[o] = base[o]
    \/ ~c[o].coinbase /\ (o \in DOMAIN base => ~base[o].coinbase)
\* The entries of the ledger, and a transaction with nothing wrong with it.
IsLedger(c) ==
  \A o \in DOMAIN c :
    /\ c[o].height \in Nat
    /\ o[1] \in PoolTx /\ TxFlaw[o[1]] # "form" => ~c[o].coinbase
Flawless(t) == t \in PoolTx /\ TxFlaw[t] = "none"
IsNext(h) == h \in Nat /\ h < HeightModulus

\* A flawless transaction applies exactly if its inputs are there and mature; if not,
\* it leaves the outputs as they are.
Applies(c, tx, h) == TxSpends[tx] \subseteq DOMAIN c /\ \A o \in TxSpends[tx] : MatureAt(c[o], h)
AppliedTo(c, tx, h, r) ==
  /\ r.ok <=> Applies(c, tx, h)
  /\ ~r.ok => r.coins = c
  /\ r.ok => /\ DOMAIN r.coins = OutPoints(tx) \cup (DOMAIN c \ TxSpends[tx])
             /\ \A o \in OutPoints(tx) : ~r.coins[o].coinbase
             /\ \A o \in DOMAIN r.coins \ OutPoints(tx) : r.coins[o] = c[o]

LEMMA AppliedEffect ==
  ASSUME NEW c, NEW tx, Flawless(tx), NEW h
  PROVE  AppliedTo(c, tx, h, Applied(c, tx, h))
<1> DEFINE new == [o \in OutPoints(tx) \cup (DOMAIN c \ TxSpends[tx]) |->
                     IF o \in OutPoints(tx) THEN [height |-> h, coinbase |-> FALSE] ELSE c[o]]
           fails == \/ ~(TxSpends[tx] \subseteq DOMAIN c)
                    \/ \E o \in TxSpends[tx] : ~MatureAt(c[o], h)
<1> PICK r : r = Applied(c, tx, h)
  OBVIOUS
<1>1. r = IF fails THEN [ok |-> FALSE, coins |-> c] ELSE [ok |-> TRUE, coins |-> new]
  BY DEF Applied, Flawless
<1>2. fails <=> ~Applies(c, tx, h)
  BY DEF Applies
<1>3. /\ DOMAIN new = OutPoints(tx) \cup (DOMAIN c \ TxSpends[tx])
      /\ \A o \in OutPoints(tx) : new[o].coinbase = FALSE
      /\ \A o \in DOMAIN new \ OutPoints(tx) : new[o] = c[o]
  OBVIOUS
<1> HIDE DEF new, fails
<1>4. CASE fails
  BY <1>1, <1>2, <1>4 DEF AppliedTo
<1>5. CASE ~fails
  <2>1. r.ok = TRUE /\ r.coins = new
    BY <1>1, <1>5
  <2> QED
    BY <1>2, <1>3, <1>5, <2>1 DEF AppliedTo
<1> QED
  BY <1>4, <1>5

LEMMA UnspentBefore ==
  ASSUME NEW base, NEW s \in Seq(PoolTx), NEW tx \in PoolTx, NEW k \in 0..Len(s)
  PROVE  Unspent(base, Append(s, tx), k) = Unspent(base, s, k)
<1> PICK r : r = Append(s, tx)
  OBVIOUS
<1>1. Len(s) \in Nat /\ \A i \in 1..Len(s) : r[i] = s[i]
  OBVIOUS
<1>2. \A i \in 1..k : i \in 1..Len(s)
  BY <1>1
<1>3. \A i \in 1..k : \A j \in (i + 1)..k : j \in 1..Len(s)
  BY <1>1
<1>4. Unspent(base, r, k) = Unspent(base, s, k)
  <2>1. {o \in DOMAIN base : \A j \in 1..k : o \notin TxSpends[r[j]]}
        = {o \in DOMAIN base : \A j \in 1..k : o \notin TxSpends[s[j]]}
    BY <1>1, <1>2
  <2>2. ASSUME NEW i \in 1..k
        PROVE  {o \in OutPoints(r[i]) : \A j \in (i + 1)..k : o \notin TxSpends[r[j]]}
               = {o \in OutPoints(s[i]) : \A j \in (i + 1)..k : o \notin TxSpends[s[j]]}
    BY <1>1, <1>2, <1>3
  <2> QED
    BY <2>1, <2>2 DEF Unspent
<1> QED
  BY <1>4

AfterOneMore(base, s, tx, n) ==
  Unspent(base, Append(s, tx), n + 1) = OutPoints(tx) \cup (Unspent(base, s, n) \ TxSpends[tx])

LEMMA UnspentAfter ==
  ASSUME NEW base, NEW s \in Seq(PoolTx), NEW tx \in PoolTx, NEW n, n = Len(s)
  PROVE  AfterOneMore(base, s, tx, n)
<1> PICK r : r = Append(s, tx)
  OBVIOUS
<1>1. n \in Nat /\ r[n + 1] = tx /\ \A i \in 1..n : r[i] = s[i]
  OBVIOUS
<1>2. 1..(n + 1) = 1..n \cup {n + 1} /\ (n + 2)..(n + 1) = {}
      /\ \A i \in 1..n : (i + 1)..(n + 1) = (i + 1)..n \cup {n + 1} /\ (i + 1)..n \subseteq 1..n
  BY <1>1
<1> DEFINE Base(q, k) == {o \in DOMAIN base : \A j \in 1..k : o \notin TxSpends[q[j]]}
           Of(q, i, k) == {o \in OutPoints(q[i]) : \A j \in (i + 1)..k : o \notin TxSpends[q[j]]}
<1>3. Base(r, n + 1) = Base(s, n) \ TxSpends[tx]
  BY <1>1, <1>2
<1>4. ASSUME NEW i \in 1..n PROVE Of(r, i, n + 1) = Of(s, i, n) \ TxSpends[tx]
  <2>1. r[i] = s[i] /\ r[n + 1] = tx
    BY <1>1
  <2>2. /\ (i + 1)..(n + 1) = (i + 1)..n \cup {n + 1}
        /\ \A j \in (i + 1)..n : r[j] = s[j]
    BY <1>1, <1>2
  <2>3. ASSUME NEW o
        PROVE  (\A j \in (i + 1)..(n + 1) : o \notin TxSpends[r[j]])
                 <=> (\A j \in (i + 1)..n : o \notin TxSpends[s[j]]) /\ o \notin TxSpends[tx]
    BY <2>1, <2>2
  <2> QED
    BY <2>1, <2>3
<1>5. Of(r, n + 1, n + 1) = OutPoints(tx)
  <2>1. (n + 1) + 1 = n + 2
    BY <1>1
  <2> QED
    BY <1>1, <1>2, <2>1
<1>6. /\ Unspent(base, r, n + 1) = Base(r, n + 1) \cup UNION {Of(r, i, n + 1) : i \in 1..(n + 1)}
      /\ Unspent(base, s, n) = Base(s, n) \cup UNION {Of(s, i, n) : i \in 1..n}
  BY DEF Unspent
<1> HIDE DEF Base, Of
<1>7. UNION {Of(r, i, n + 1) : i \in 1..(n + 1)}
      = OutPoints(tx) \cup ((UNION {Of(s, i, n) : i \in 1..n}) \ TxSpends[tx])
  <2> SUFFICES ASSUME NEW o
               PROVE  (\E i \in 1..(n + 1) : o \in Of(r, i, n + 1))
                      <=> (o \in OutPoints(tx)
                           \/ (o \notin TxSpends[tx] /\ \E i \in 1..n : o \in Of(s, i, n)))
    OBVIOUS
  <2>1. \A i \in 1..n : o \in Of(r, i, n + 1) <=> o \in Of(s, i, n) /\ o \notin TxSpends[tx]
    BY <1>4
  <2>2. \A i \in 1..(n + 1) : i \in 1..n \/ i = n + 1
    BY <1>2
  <2>3. n + 1 \in 1..(n + 1) /\ \A i \in 1..n : i \in 1..(n + 1)
    BY <1>1
  <2> QED
    BY <1>5, <2>1, <2>2, <2>3
<1> QED
  BY <1>3, <1>6, <1>7 DEF AfterOneMore

\* Unspent outputs of base that are mature at h, seen through what is left of them.
LEMMA MaturityAgrees ==
  ASSUME NEW base, IsLedger(base), NEW c, FromBase(base, c), NEW h, IsNext(h), NEW tx,
         TxSpends[tx] \subseteq DOMAIN c
  PROVE  /\ Timely(base, h) /\ Applies(c, tx, h) => Mature(base, h, tx)
         /\ Mature(base, h, tx) => Applies(c, tx, h)
<1>1. HeightModulus \in Nat /\ Maturity \in Nat /\ h \in Nat /\ h < HeightModulus
  BY MempoolAssumption DEF IsNext
<1>2. \A x \in Int : 0 <= x /\ x <= h => x % HeightModulus = x
  BY <1>1
<1>3. ASSUME Timely(base, h), Applies(c, tx, h), NEW o \in TxSpends[tx] \cap DOMAIN base,
             base[o].coinbase
      PROVE  h - base[o].height >= Maturity
  <2>1. c[o] = base[o] /\ MatureAt(base[o], h)
    BY <1>3 DEF FromBase, Applies
  <2>2. base[o].height \in Nat /\ base[o].height < h
    BY <1>3 DEF IsLedger, Timely
  <2> PICK x : x = base[o].height
    OBVIOUS
  <2>3. (h - x) % HeightModulus >= Maturity
    BY <1>3, <2>1 DEF MatureAt
  <2>4. h - x \in Int /\ 0 <= h - x /\ h - x <= h
    BY <1>1, <2>2
  <2> QED
    BY <1>2, <2>3, <2>4
<1>4. ASSUME Mature(base, h, tx), NEW o \in TxSpends[tx], c[o].coinbase
      PROVE  (h - c[o].height) % HeightModulus >= Maturity
  <2>1. o \in DOMAIN base /\ c[o] = base[o]
    BY <1>4 DEF FromBase
  <2>2. h - base[o].height >= Maturity /\ base[o].height \in Nat
    BY <1>4, <2>1 DEF Mature, IsLedger
  <2> PICK x : x = c[o].height
    OBVIOUS
  <2>3. h - x \in Int /\ 0 <= h - x /\ h - x <= h /\ h - x >= Maturity
    BY <1>1, <2>1, <2>2
  <2> QED
    BY <1>2, <2>3
<1> QED
  BY <1>3, <1>4 DEF Mature, Applies, MatureAt

LEMMA TailOf ==
  ASSUME NEW s \in Seq(PoolTx), s # << >>, NoneTwice(s)
  PROVE  /\ Head(s) \in PoolTx /\ Tail(s) \in Seq(PoolTx) /\ Len(Tail(s)) = Len(s) - 1
         /\ Head(s) \in Values(s) /\ Values(Tail(s)) = Values(s) \ {Head(s)}
         /\ NoneTwice(Tail(s))
<1> PICK r : r = Tail(s)
  OBVIOUS
<1>1. /\ Len(s) \in Nat \ {0} /\ DOMAIN s = 1..Len(s) /\ Head(s) = s[1] /\ r \in Seq(PoolTx)
      /\ DOMAIN r = 1..(Len(s) - 1) /\ Len(r) = Len(s) - 1
      /\ \A i \in DOMAIN r : r[i] = s[i + 1] /\ i + 1 \in DOMAIN s
  OBVIOUS
<1>2. 1 \in DOMAIN s /\ \A i \in DOMAIN s : s[i] \in PoolTx
  BY <1>1
<1>3. ASSUME NEW v PROVE v \in Values(r) <=> v \in Values(s) /\ v # Head(s)
  <2>1. ASSUME v \in Values(r) PROVE v \in Values(s) /\ v # Head(s)
    <3>1. PICK i \in DOMAIN r : r[i] = v
      BY <2>1, InValues
    <3>2. s[i + 1] = v /\ i + 1 \in DOMAIN s /\ i + 1 # 1
      BY <1>1, <3>1
    <3>3. v # s[1]
      BY <1>2, <3>2 DEF NoneTwice
    <3> QED
      BY <1>1, <3>2, <3>3, InValues
  <2>2. ASSUME v \in Values(s), v # Head(s) PROVE v \in Values(r)
    <3>1. PICK i \in DOMAIN s : s[i] = v
      BY <2>2, InValues
    <3>2. i - 1 \in DOMAIN r /\ r[i - 1] = v
      BY <1>1, <2>2, <3>1
    <3> QED
      BY <3>2, InValues
  <2> QED
    BY <2>1, <2>2
<1>4. NoneTwice(r)
  <2> SUFFICES ASSUME NEW i \in DOMAIN r, NEW j \in DOMAIN r, r[i] = r[j] PROVE i = j
    BY DEF NoneTwice
  <2>1. i + 1 = j + 1
    BY <1>1 DEF NoneTwice
  <2> QED
    BY <1>1, <2>1
<1>5. Head(s) \in Values(s)
  BY <1>1, <1>2, InValues
<1>6. Values(r) = Values(s) \ {Head(s)}
  BY <1>3
<1> QED
  BY <1>1, <1>2, <1>4, <1>5, <1>6

LEMMA AppendOf ==
  ASSUME NEW s \in Seq(PoolTx), NEW t \in PoolTx
  PROVE  /\ Append(s, t) \in Seq(PoolTx) /\ Len(Append(s, t)) = Len(s) + 1
         /\ Values(Append(s, t)) = Values(s) \cup {t}
         /\ NoneTwice(s) /\ t \notin Values(s) => NoneTwice(Append(s, t))
<1> PICK r : r = Append(s, t)
  OBVIOUS
<1>1. /\ Len(s) \in Nat /\ DOMAIN s = 1..Len(s) /\ r \in Seq(PoolTx)
      /\ DOMAIN r = 1..(Len(s) + 1) /\ Len(r) = Len(s) + 1 /\ r[Len(s) + 1] = t
      /\ \A i \in DOMAIN s : r[i] = s[i]
  OBVIOUS
<1>2. DOMAIN r = DOMAIN s \cup {Len(s) + 1}
  BY <1>1
<1>3. ASSUME NEW v PROVE v \in Values(r) <=> v \in Values(s) \/ v = t
  <2>1. ASSUME v \in Values(r) PROVE v \in Values(s) \/ v = t
    <3>1. PICK i \in DOMAIN r : r[i] = v
      BY <2>1, InValues
    <3>2. i \in DOMAIN s => s[i] = v
      BY <1>1, <3>1
    <3> QED
      BY <1>1, <1>2, <3>1, <3>2, InValues
  <2>2. ASSUME v \in Values(s) PROVE v \in Values(r)
    <3>1. PICK i \in DOMAIN s : s[i] = v
      BY <2>2, InValues
    <3>2. i \in DOMAIN r /\ r[i] = v
      BY <1>1, <1>2, <3>1
    <3> QED
      BY <3>2, InValues
  <2>3. t \in Values(r)
    <3>1. Len(s) + 1 \in DOMAIN r
      BY <1>2
    <3> QED
      BY <1>1, <3>1, InValues
  <2> QED
    BY <2>1, <2>2, <2>3
<1>4. Values(r) = Values(s) \cup {t}
  BY <1>3
<1>5. ASSUME NoneTwice(s), t \notin Values(s), NEW i \in DOMAIN r, NEW j \in DOMAIN r, r[i] = r[j]
      PROVE  i = j
  <2>1. \A k \in DOMAIN s : s[k] # t
    BY <1>5, InValues
  <2> QED
    BY <1>1, <1>2, <1>5, <2>1 DEF NoneTwice
<1> QED
  BY <1>1, <1>4, <1>5 DEF NoneTwice

\* The state of the loops after some turns, for the entries of list, of which none is
\* there twice, and the outputs base.
IsList(list) == list \in Seq(PoolTx) /\ NoneTwice(list) /\ \A t \in Values(list) : Flawless(t)
LoopTyped(st) ==
  /\ DOMAIN st = {"coins", "txs", "bytes", "pending", "later", "progress"}
  /\ st.txs \in Seq(PoolTx) /\ st.pending \in Seq(PoolTx) /\ st.later \in Seq(PoolTx)
  /\ st.progress \in BOOLEAN
Apart(st) ==
  /\ NoneTwice(st.pending) /\ NoneTwice(st.later)
  /\ Values(st.pending) \cap Values(st.later) = {}
  /\ Values(st.txs) \cap (Values(st.pending) \cup Values(st.later)) = {}
\* Every entry is selected, or is to be tried, or does not fit any more.
Sorted(list, st) ==
  LET met == Values(st.txs) \cup Values(st.pending) \cup Values(st.later)
  IN  /\ met \subseteq Values(list)
      /\ \A t \in Values(list) \ met : st.bytes + TxSize[t] > BlockSpace
Weighed(st) == st.bytes = SumSize(Values(st.txs)) /\ st.bytes <= BlockSpace
InLedger(base, st) ==
  DOMAIN st.coins = Unspent(base, st.txs, Len(st.txs)) /\ FromBase(base, st.coins)
InPlace(base, h, s, k) ==
  /\ TxSpends[s[k]] \subseteq Unspent(base, s, k - 1)
  /\ Timely(base, h) => Mature(base, h, s[k])
AllInPlace(base, h, s) == \A k \in 1..Len(s) : InPlace(base, h, s, k)
\* A pass that has selected nothing so far has met only what does not apply.
Idle(h, st) == ~st.progress => \A t \in Values(st.later) : ~Applies(st.coins, t, h)
LoopInv(list, base, h, st) ==
  /\ LoopTyped(st) /\ Apart(st) /\ Sorted(list, st) /\ Weighed(st)
  /\ InLedger(base, st) /\ AllInPlace(base, h, st.txs) /\ Idle(h, st)

\* What the turn of an entry makes of the state.
Dropped(st, tx, new) ==
  /\ st.bytes + TxSize[tx] > BlockSpace
  /\ new.coins = st.coins /\ new.txs = st.txs /\ new.bytes = st.bytes
  /\ new.later = st.later /\ new.progress = st.progress
Selected(st, tx, h, new) ==
  /\ st.bytes + TxSize[tx] <= BlockSpace /\ Applies(st.coins, tx, h)
  /\ DOMAIN new.coins = OutPoints(tx) \cup (DOMAIN st.coins \ TxSpends[tx])
  /\ \A o \in OutPoints(tx) : ~new.coins[o].coinbase
  /\ \A o \in DOMAIN new.coins \ OutPoints(tx) : new.coins[o] = st.coins[o]
  /\ new.txs = Append(st.txs, tx) /\ new.bytes = st.bytes + TxSize[tx]
  /\ new.later = st.later /\ new.progress = TRUE
Postponed(st, tx, h, new) ==
  /\ ~Applies(st.coins, tx, h)
  /\ new.coins = st.coins /\ new.txs = st.txs /\ new.bytes = st.bytes
  /\ new.later = Append(st.later, tx) /\ new.progress = st.progress

LEMMA TurnOfEntry ==
  ASSUME NEW st, LoopTyped(st), st.bytes \in Nat, st.pending # << >>, NEW h, NEW tx,
         tx = Head(st.pending), Flawless(tx), NEW new, new = Turn(st, h)
  PROVE  /\ DOMAIN new = DOMAIN st /\ new.pending = Tail(st.pending)
         /\ Dropped(st, tx, new) \/ Selected(st, tx, h, new) \/ Postponed(st, tx, h, new)
<1> PICK e : e = TryEntry(st, tx, h)
  OBVIOUS
<1> PICK r : r = Applied(st.coins, tx, h)
  OBVIOUS
<1>1. new = [e EXCEPT !.pending = Tail(@)]
  BY DEF Turn
<1>2. AppliedTo(st.coins, tx, h, r)
  BY AppliedEffect
<1>3. TxSize[tx] \in Nat /\ BlockSpace \in Nat
  BY MempoolAssumption DEF Flawless
<1>4. e = IF st.bytes + TxSize[tx] > BlockSpace THEN st
          ELSE IF r.ok THEN [st EXCEPT !.coins = r.coins, !.txs = Append(@, tx),
                                       !.bytes = @ + TxSize[tx], !.progress = TRUE]
          ELSE [st EXCEPT !.coins = r.coins, !.later = Append(@, tx)]
  BY DEF TryEntry
<1>5. DOMAIN st = {"coins", "txs", "bytes", "pending", "later", "progress"}
  BY DEF LoopTyped
<1>6. CASE st.bytes + TxSize[tx] > BlockSpace
  <2>1. e = st
    BY <1>4, <1>6
  <2> QED
    BY <1>1, <1>5, <1>6, <2>1 DEF Dropped
<1>7. CASE ~(st.bytes + TxSize[tx] > BlockSpace) /\ r.ok
  <2>1. e = [st EXCEPT !.coins = r.coins, !.txs = Append(@, tx),
                       !.bytes = @ + TxSize[tx], !.progress = TRUE]
    BY <1>4, <1>7
  <2>2. /\ DOMAIN e = DOMAIN st /\ e.coins = r.coins /\ e.txs = Append(st.txs, tx)
        /\ e.bytes = st.bytes + TxSize[tx] /\ e.progress = TRUE
        /\ e.later = st.later /\ e.pending = st.pending
    BY <1>5, <2>1
  <2>3. /\ DOMAIN new = DOMAIN st /\ new.coins = r.coins /\ new.txs = Append(st.txs, tx)
        /\ new.bytes = st.bytes + TxSize[tx] /\ new.progress = TRUE
        /\ new.later = st.later /\ new.pending = Tail(st.pending)
    BY <1>1, <1>5, <2>2
  <2>4. st.bytes + TxSize[tx] <= BlockSpace
    BY <1>3, <1>7
  <2>5. Selected(st, tx, h, new)
    BY <1>2, <1>7, <2>3, <2>4 DEF AppliedTo, Selected
  <2> QED
    BY <2>3, <2>5
<1>8. CASE ~(st.bytes + TxSize[tx] > BlockSpace) /\ ~r.ok
  <2>1. e = [st EXCEPT !.coins = r.coins, !.later = Append(@, tx)]
    BY <1>4, <1>8
  <2>2. /\ DOMAIN e = DOMAIN st /\ e.coins = r.coins /\ e.txs = st.txs
        /\ e.bytes = st.bytes /\ e.progress = st.progress
        /\ e.later = Append(st.later, tx) /\ e.pending = st.pending
    BY <1>5, <2>1
  <2>3. /\ DOMAIN new = DOMAIN st /\ new.coins = r.coins /\ new.txs = st.txs
        /\ new.bytes = st.bytes /\ new.progress = st.progress
        /\ new.later = Append(st.later, tx) /\ new.pending = Tail(st.pending)
    BY <1>1, <1>5, <2>2
  <2>4. Postponed(st, tx, h, new)
    BY <1>2, <1>8, <2>3 DEF AppliedTo, Postponed
  <2> QED
    BY <2>3, <2>4
<1> QED
  BY <1>6, <1>7, <1>8

LEMMA TurnKeeps ==
  ASSUME NEW list, IsList(list), NEW base, IsLedger(base), NEW h, IsNext(h),
         NEW st, LoopInv(list, base, h, st)
  PROVE  LoopInv(list, base, h, Turn(st, h))
<1> PICK new : new = Turn(st, h)
  OBVIOUS
<1> PICK S, P, L : S = Values(st.txs) /\ P = Values(st.pending) /\ L = Values(st.later)
  OBVIOUS
<1>1. /\ LoopTyped(st) /\ Apart(st) /\ Sorted(list, st) /\ Weighed(st)
      /\ InLedger(base, st) /\ AllInPlace(base, h, st.txs) /\ Idle(h, st)
  BY DEF LoopInv
<1>2. /\ S \cup P \cup L \subseteq Values(list)
      /\ \A t \in Values(list) \ (S \cup P \cup L) : st.bytes + TxSize[t] > BlockSpace
  BY <1>1 DEF Sorted
<1>3. /\ NoneTwice(st.pending) /\ NoneTwice(st.later)
      /\ P \cap L = {} /\ S \cap (P \cup L) = {}
  BY <1>1 DEF Apart
<1>4. \A t \in Values(list) : Flawless(t) /\ t \in PoolTx /\ TxSize[t] \in Nat
  BY MempoolAssumption DEF IsList, Flawless
<1>5. S \subseteq PoolTx
  BY <1>2, <1>4
<1>6. st.bytes \in Nat /\ st.bytes = SumSize(S) /\ st.bytes <= BlockSpace /\ BlockSpace \in Nat
  BY <1>1, <1>5, BytesFinite, MempoolAssumption DEF Weighed
<1>7. CASE st.pending # << >>
  <2> PICK tx : tx = Head(st.pending)
    OBVIOUS
  <2>1. /\ Tail(st.pending) \in Seq(PoolTx) /\ tx \in P /\ Values(Tail(st.pending)) = P \ {tx}
        /\ NoneTwice(Tail(st.pending))
    BY <1>1, <1>3, <1>7, TailOf DEF LoopTyped
  <2>2. tx \in Values(list) /\ Flawless(tx) /\ tx \in PoolTx /\ tx \notin S /\ tx \notin L
    BY <1>2, <1>3, <1>4, <2>1
  <2>3. /\ DOMAIN new = DOMAIN st /\ new.pending = Tail(st.pending)
        /\ Dropped(st, tx, new) \/ Selected(st, tx, h, new) \/ Postponed(st, tx, h, new)
    BY <1>1, <1>6, <1>7, <2>2, TurnOfEntry
  <2>4. CASE Dropped(st, tx, new)
    <3>1. /\ new.coins = st.coins /\ new.txs = st.txs /\ new.bytes = st.bytes
          /\ new.later = st.later /\ new.progress = st.progress
          /\ st.bytes + TxSize[tx] > BlockSpace
      BY <2>4 DEF Dropped
    <3>2. LoopTyped(new)
      BY <1>1, <2>1, <2>3, <3>1 DEF LoopTyped
    <3>3. Values(new.txs) = S /\ Values(new.later) = L /\ Values(new.pending) = P \ {tx}
      BY <2>1, <2>3, <3>1
    <3>4. Apart(new)
      BY <1>3, <2>1, <2>3, <3>1, <3>3 DEF Apart
    <3>5. Sorted(list, new)
      BY <1>2, <3>1, <3>3 DEF Sorted
    <3>6. Weighed(new) /\ InLedger(base, new) /\ AllInPlace(base, h, new.txs) /\ Idle(h, new)
      BY <1>1, <3>1 DEF Weighed, InLedger, Idle
    <3> QED
      BY <3>2, <3>4, <3>5, <3>6 DEF LoopInv
  <2>5. CASE Postponed(st, tx, h, new)
    <3>1. /\ new.coins = st.coins /\ new.txs = st.txs /\ new.bytes = st.bytes
          /\ new.later = Append(st.later, tx) /\ new.progress = st.progress
          /\ ~Applies(st.coins, tx, h)
      BY <2>5 DEF Postponed
    <3>2. /\ new.later \in Seq(PoolTx) /\ Values(new.later) = L \cup {tx}
          /\ NoneTwice(new.later)
      BY <1>1, <1>3, <2>2, <3>1, AppendOf DEF LoopTyped
    <3>3. LoopTyped(new)
      BY <1>1, <2>1, <2>3, <3>1, <3>2 DEF LoopTyped
    <3>4. Values(new.txs) = S /\ Values(new.pending) = P \ {tx}
      BY <2>1, <2>3, <3>1
    <3>5. Apart(new)
      BY <1>3, <2>1, <2>2, <2>3, <3>1, <3>2, <3>4 DEF Apart
    <3>6. Values(new.txs) \cup Values(new.pending) \cup Values(new.later) = S \cup P \cup L
      BY <2>1, <3>2, <3>4
    <3>7. Sorted(list, new)
      BY <1>2, <3>1, <3>6 DEF Sorted
    <3>8. Weighed(new) /\ InLedger(base, new) /\ AllInPlace(base, h, new.txs)
      BY <1>1, <3>1 DEF Weighed, InLedger
    <3>9. Idle(h, new)
      <4> SUFFICES ASSUME ~new.progress, NEW t \in Values(new.later)
                   PROVE  ~Applies(new.coins, t, h)
        BY DEF Idle
      <4>1. t \in L => ~Applies(st.coins, t, h)
        BY <1>1, <3>1 DEF Idle
      <4> QED
        BY <3>1, <3>2, <4>1
    <3> QED
      BY <3>3, <3>5, <3>7, <3>8, <3>9 DEF LoopInv
  <2>6. CASE Selected(st, tx, h, new)
    <3>1. /\ new.txs = Append(st.txs, tx) /\ new.bytes = st.bytes + TxSize[tx]
          /\ new.later = st.later /\ new.progress = TRUE
          /\ st.bytes + TxSize[tx] <= BlockSpace /\ Applies(st.coins, tx, h)
      BY <2>6 DEF Selected
    <3> PICK s, n : s = st.txs /\ n = Len(st.txs)
      OBVIOUS
    <3>2. s \in Seq(PoolTx) /\ n = Len(s) /\ n \in Nat
      BY <1>1 DEF LoopTyped
    <3>3. new.txs \in Seq(PoolTx) /\ Values(new.txs) = S \cup {tx} /\ Len(new.txs) = n + 1
      BY <2>2, <3>1, <3>2, AppendOf
    <3>4. LoopTyped(new)
      BY <1>1, <2>1, <2>3, <3>1, <3>3 DEF LoopTyped
    <3>5. Values(new.later) = L /\ Values(new.pending) = P \ {tx}
      BY <2>1, <2>3, <3>1
    <3>6. Apart(new)
      BY <1>3, <2>1, <2>2, <2>3, <3>1, <3>3, <3>5 DEF Apart
    <3>7. Values(new.txs) \cup Values(new.pending) \cup Values(new.later) = S \cup P \cup L
      BY <2>1, <3>3, <3>5
    <3>8. Sorted(list, new)
      <4>1. \A t \in Values(list) : st.bytes + TxSize[t] > BlockSpace
                                    => new.bytes + TxSize[t] > BlockSpace
        <5> SUFFICES ASSUME NEW t \in Values(list), st.bytes + TxSize[t] > BlockSpace
                     PROVE  new.bytes + TxSize[t] > BlockSpace
          OBVIOUS
        <5>1. TxSize[t] \in Nat /\ TxSize[tx] \in Nat
          BY <1>4, <2>2
        <5> QED
          BY <1>6, <3>1, <5>1
      <4> QED
        BY <1>2, <3>7, <4>1 DEF Sorted
    <3>9. Weighed(new)
      <4>1. SumSize(S \cup {tx}) = SumSize(S) + SumSize({tx})
        BY <1>5, <2>2, SizesAdd
      <4>2. SumSize({tx}) = TxSize[tx]
        BY <2>2, SizeOfOne
      <4> QED
        BY <1>6, <3>1, <3>3, <4>1, <4>2 DEF Weighed
    <3>10. DOMAIN st.coins = Unspent(base, s, n) /\ FromBase(base, st.coins)
      BY <1>1 DEF InLedger
    <3>11. /\ DOMAIN new.coins = OutPoints(tx) \cup (DOMAIN st.coins \ TxSpends[tx])
           /\ \A o \in OutPoints(tx) : ~new.coins[o].coinbase
           /\ \A o \in DOMAIN new.coins \ OutPoints(tx) : new.coins[o] = st.coins[o]
      BY <2>6 DEF Selected
    <3>12. DOMAIN new.coins = Unspent(base, new.txs, n + 1)
      <4>1. Unspent(base, Append(s, tx), n + 1)
            = OutPoints(tx) \cup (Unspent(base, s, n) \ TxSpends[tx])
        <5>1. s \in Seq(PoolTx) /\ tx \in PoolTx
          BY <2>2, <3>2
        <5>2. AfterOneMore(base, s, tx, n)
          BY <3>2, <5>1, UnspentAfter
        <5> QED
          BY <5>2 DEF AfterOneMore
      <4>2. new.txs = Append(s, tx)
        BY <3>1
      <4> QED
        BY <3>10, <3>11, <4>1, <4>2
    <3>13. FromBase(base, new.coins)
      <4> SUFFICES ASSUME NEW o \in DOMAIN new.coins
                   PROVE  \/ o \in DOMAIN base /\ new.coins[o] = base[o]
                          \/ ~new.coins[o].coinbase /\ (o \in DOMAIN base => ~base[o].coinbase)
        BY DEF FromBase
      <4>1. CASE o \in OutPoints(tx)
        <5>1. o[1] = tx
          BY <4>1 DEF OutPoints
        <5>2. o \in DOMAIN base => ~base[o].coinbase
          BY <2>2, <5>1 DEF IsLedger, Flawless
        <5> QED
          BY <3>11, <4>1, <5>2
      <4>2. CASE o \notin OutPoints(tx)
        <5>1. o \in DOMAIN st.coins /\ new.coins[o] = st.coins[o]
          BY <3>11, <4>2
        <5> QED
          BY <3>10, <5>1 DEF FromBase
      <4> QED
        BY <4>1, <4>2
    <3>14. InLedger(base, new)
      BY <3>3, <3>12, <3>13 DEF InLedger
    <3>15. ASSUME NEW k \in 1..(n + 1) PROVE InPlace(base, h, new.txs, k)
      <4>1. k - 1 \in 0..n
        BY <3>2
      <4>2. Unspent(base, new.txs, k - 1) = Unspent(base, s, k - 1)
        BY <2>2, <3>1, <3>2, <4>1, UnspentBefore
      <4>3. CASE k \in 1..n
        <5>1. InPlace(base, h, s, k)
          BY <1>1, <4>3 DEF AllInPlace
        <5>2. new.txs[k] = s[k]
          BY <3>1, <3>2, <4>3
        <5> QED
          BY <4>2, <5>1, <5>2 DEF InPlace
      <4>4. CASE k = n + 1
        <5>1. new.txs[k] = tx /\ k - 1 = n
          BY <3>1, <3>2, <4>4
        <5>2. TxSpends[tx] \subseteq DOMAIN st.coins
          BY <3>1 DEF Applies
        <5>3. Timely(base, h) => Mature(base, h, tx)
          BY <3>1, <3>10, <5>2, MaturityAgrees
        <5> QED
          BY <3>10, <4>2, <5>1, <5>2, <5>3 DEF InPlace
      <4> QED
        BY <3>2, <4>3, <4>4
    <3>16. AllInPlace(base, h, new.txs)
      BY <3>3, <3>15 DEF AllInPlace
    <3>17. Idle(h, new)
      BY <3>1 DEF Idle
    <3> QED
      BY <3>4, <3>6, <3>8, <3>9, <3>14, <3>16, <3>17 DEF LoopInv
  <2> QED
    BY <2>3, <2>4, <2>5, <2>6
<1>8. CASE st.pending = << >> /\ st.progress
  <2>1. new = [st EXCEPT !.pending = st.later, !.later = << >>, !.progress = FALSE]
    BY <1>8 DEF Turn
  <2>2. /\ DOMAIN new = DOMAIN st /\ new.coins = st.coins /\ new.txs = st.txs
        /\ new.bytes = st.bytes /\ new.pending = st.later /\ new.later = << >>
        /\ new.progress = FALSE
    BY <1>1, <2>1 DEF LoopTyped
  <2>3. << >> \in Seq(PoolTx) /\ Values(<< >>) = {} /\ NoneTwice(<< >>)
    BY DEF Values, NoneTwice
  <2>4. LoopTyped(new)
    BY <1>1, <2>2, <2>3 DEF LoopTyped
  <2>5. P = {}
    BY <1>8, <2>3
  <2>6. Apart(new) /\ Sorted(list, new)
    BY <1>2, <1>3, <2>2, <2>3, <2>5 DEF Apart, Sorted
  <2>7. Weighed(new) /\ InLedger(base, new) /\ AllInPlace(base, h, new.txs) /\ Idle(h, new)
    BY <1>1, <2>2, <2>3 DEF Weighed, InLedger, Idle
  <2> QED
    BY <2>4, <2>6, <2>7 DEF LoopInv
<1>9. CASE st.pending = << >> /\ ~st.progress
  <2>1. new = st
    BY <1>9 DEF Turn
  <2> QED
    BY <2>1
<1> QED
  BY <1>7, <1>8, <1>9

\* The loops end: each turn costs something, a pass that selected something pays for
\* the next.
Unsettled(st) == Len(st.pending) + Len(st.later)
Credit(st) == IF st.progress THEN 1 ELSE 0
Cost(list, st) == (Unsettled(st) + Credit(st)) * (Len(list) + 2) + Len(st.pending)
Ended(st) == st.pending = << >> /\ ~st.progress

LEMMA CheaperEntry ==
  ASSUME NEW W \in Nat, NEW n \in Nat, NEW p \in Nat, NEW l \in Nat, NEW q \in Nat,
         NEW p2 \in Nat, NEW l2 \in Nat, NEW q2 \in Nat, p = p2 + 1, p + l <= n,
         (l2 = l /\ q2 = q) \/ (l2 = l /\ q2 = 1) \/ (l2 = l + 1 /\ q2 = q)
  PROVE  p2 + l2 <= n /\ (p2 + l2 + q2) * W + p2 + 1 <= (p + l + q) * W + p
<1> DEFINE x == p + l + q
           y == p2 + l2 + q2
<1>1. x \in Nat /\ y \in Nat /\ y <= x /\ p2 + l2 <= n
  OBVIOUS
<1> HIDE DEF x, y
<1>2. y * W <= x * W
  BY <1>1
<1>3. x * W \in Int /\ y * W \in Int
  BY <1>1
<1>4. y * W + p2 + 1 <= x * W + p
  BY <1>2, <1>3
<1> QED
  BY <1>1, <1>4 DEF x, y

LEMMA CheaperPass ==
  ASSUME NEW W \in Nat, NEW n \in Nat, W = n + 2, NEW l \in Nat, l <= n
  PROVE  0 + l <= n /\ (l + 0 + 0) * W + l + 1 <= (0 + l + 1) * W + 0
<1>1. l + 0 + 0 = l /\ 0 + l + 1 = l + 1
  OBVIOUS
<1>2. (l + 1) * W = l * W + W /\ l * W \in Int
  OBVIOUS
<1> QED
  BY <1>1, <1>2

LEMMA TurnCosts ==
  ASSUME NEW list, list \in Seq(PoolTx), NEW st, LoopTyped(st), st.bytes \in Nat,
         NoneTwice(st.pending), \A t \in Values(st.pending) : Flawless(t),
         Unsettled(st) <= Len(list), ~Ended(st), NEW h, NEW new, new = Turn(st, h)
  PROVE  Unsettled(new) <= Len(list) /\ Cost(list, new) + 1 <= Cost(list, st)
<1>0. PICK W, n, p, l, q : /\ W = Len(list) + 2 /\ n = Len(list) /\ p = Len(st.pending)
                           /\ l = Len(st.later) /\ q = Credit(st)
  OBVIOUS
<1>1. W \in Nat /\ W = n + 2 /\ n \in Nat /\ p \in Nat /\ l \in Nat /\ q \in Nat /\ p + l <= n
  BY <1>0 DEF LoopTyped, Unsettled, Credit
<1>2. PICK p2, l2, q2 : p2 = Len(new.pending) /\ l2 = Len(new.later) /\ q2 = Credit(new)
  OBVIOUS
<1>3. ASSUME p2 + l2 <= n, (p2 + l2 + q2) * W + p2 + 1 <= (p + l + q) * W + p
      PROVE  Unsettled(new) <= Len(list) /\ Cost(list, new) + 1 <= Cost(list, st)
  <2>1. Cost(list, st) = (p + l + q) * W + p
    BY <1>0 DEF Cost, Unsettled
  <2>2. Cost(list, new) = (p2 + l2 + q2) * W + p2
    BY <1>0, <1>2 DEF Cost, Unsettled
  <2>3. Unsettled(new) = p2 + l2
    BY <1>2 DEF Unsettled
  <2> QED
    BY <1>0, <1>3, <2>1, <2>2, <2>3
<1>4. CASE st.pending # << >>
  <2>0. PICK tx : tx = Head(st.pending)
    OBVIOUS
  <2>1. Tail(st.pending) \in Seq(PoolTx) /\ Len(Tail(st.pending)) = Len(st.pending) - 1
        /\ tx \in Values(st.pending)
    BY <1>4, <2>0, TailOf DEF LoopTyped
  <2>2. Flawless(tx) /\ tx \in PoolTx
    BY <2>1 DEF Flawless
  <2>3. /\ new.pending = Tail(st.pending)
        /\ Dropped(st, tx, new) \/ Selected(st, tx, h, new) \/ Postponed(st, tx, h, new)
    BY <1>4, <2>0, <2>2, TurnOfEntry
  <2>4. p2 \in Nat /\ p = p2 + 1
    <3>1. Len(Tail(st.pending)) \in Nat
      BY <2>1
    <3>2. p2 = Len(Tail(st.pending))
      BY <1>2, <2>3
    <3> QED
      BY <1>0, <1>1, <2>1, <3>1, <3>2
  <2>5. (l2 = l /\ q2 = q) \/ (l2 = l /\ q2 = 1) \/ (l2 = l + 1 /\ q2 = q)
    <3>1. CASE Dropped(st, tx, new)
      BY <1>0, <1>2, <3>1 DEF Dropped, Credit
    <3>2. CASE Selected(st, tx, h, new)
      BY <1>0, <1>2, <3>2 DEF Selected, Credit
    <3>3. CASE Postponed(st, tx, h, new)
      <4>1. Len(Append(st.later, tx)) = Len(st.later) + 1
        BY <2>2, AppendOf DEF LoopTyped
      <4> QED
        BY <1>0, <1>2, <3>3, <4>1 DEF Postponed, Credit
    <3> QED
      BY <2>3, <3>1, <3>2, <3>3
  <2>6. l2 \in Nat /\ q2 \in Nat
    BY <1>1, <2>5
  <2> QED
    BY <1>1, <1>3, <2>4, <2>5, <2>6, CheaperEntry
<1>5. CASE st.pending = << >>
  <2>1. st.progress /\ p = 0 /\ q = 1
    BY <1>0, <1>5 DEF Ended, Credit
  <2>2. new = [st EXCEPT !.pending = st.later, !.later = << >>, !.progress = FALSE]
    BY <1>5, <2>1 DEF Turn
  <2>3. new.pending = st.later /\ new.later = << >> /\ new.progress = FALSE
    BY <2>2 DEF LoopTyped
  <2>4. p2 = l /\ l2 = 0 /\ q2 = 0
    BY <1>0, <1>2, <2>3 DEF Credit
  <2>5. l <= n
    BY <1>1, <2>1
  <2>6. 0 + l <= n /\ (l + 0 + 0) * W + l + 1 <= (0 + l + 1) * W + 0
    BY <1>1, <2>5, CheaperPass
  <2>7. p2 + l2 <= n
    BY <1>1, <2>4, <2>5
  <2> QED
    BY <1>3, <2>1, <2>4, <2>6, <2>7
<1> QED
  BY <1>4, <1>5

\* Turns is what its definition says: there is such a function, of any length.
LEMMA TurnsDefined ==
  ASSUME NEW list \in Seq(PoolTx), NEW c, NEW h
  PROVE  /\ MaxTurns(list) \in Nat
         /\ Turns(list, c, h) =
              [k \in 0..MaxTurns(list) |->
                 IF k = 0 THEN Start(list, c) ELSE Turn(Turns(list, c, h)[k - 1], h)]
<1> PICK B : B = MaxTurns(list)
  OBVIOUS
<1>1. B \in Nat
  <2>1. Len(list) \in Nat
    OBVIOUS
  <2> QED
    BY <2>1 DEF MaxTurns
<1> DEFINE Step(g, k) == IF k = 0 THEN Start(list, c) ELSE Turn(g[k - 1], h)
           IsRun(g, n) == g = [k \in 0..n |-> Step(g, k)]
           none == {n \in Nat : ~\E g : IsRun(g, n)}
<1>2. none = {}
  <2> SUFFICES ASSUME none # {} PROVE FALSE
    OBVIOUS
  <2> HIDE DEF IsRun
  <2>1. none \subseteq Nat
    OBVIOUS
  <2>2. PICK n \in none : \A j \in none : n <= j
    BY <2>1, LeastNumber
  <2>3. n \in Nat /\ ~\E g : IsRun(g, n)
    OBVIOUS
  <2>4. CASE n = 0
    <3> PICK g : g = [k \in 0..0 |-> Start(list, c)]
      OBVIOUS
    <3>1. \A k \in 0..0 : k = 0
      OBVIOUS
    <3>2. IsRun(g, 0)
      BY <3>1 DEF IsRun
    <3> QED
      BY <2>3, <2>4, <3>2
  <2>5. CASE n # 0
    <3>1. n - 1 \in Nat /\ n - 1 \notin none
      BY <2>2, <2>3, <2>5
    <3>2. PICK g : IsRun(g, n - 1)
      BY <3>1
    <3>3. g = [k \in 0..(n - 1) |-> Step(g, k)]
      BY <3>2 DEF IsRun
    <3> PICK f : f = [k \in 0..n |-> IF k = n THEN Turn(g[n - 1], h) ELSE g[k]]
      OBVIOUS
    <3>4. \A k \in 0..(n - 1) : k \in 0..n /\ k # n
      BY <2>3
    <3>5. \A k \in 0..(n - 1) : f[k] = g[k]
      BY <3>4
    <3>6. ASSUME NEW k \in 0..n PROVE f[k] = Step(f, k)
      <4>1. CASE k = n
        <5>1. n - 1 \in 0..(n - 1)
          BY <3>1
        <5>2. f[n - 1] = g[n - 1] /\ f[n] = Turn(g[n - 1], h)
          BY <2>3, <3>5, <5>1
        <5> QED
          BY <2>5, <4>1, <5>2
      <4>2. CASE k # n
        <5>1. k \in 0..(n - 1) /\ (k # 0 => k - 1 \in 0..(n - 1))
          BY <2>3, <4>2
        <5>2. g[k] = Step(g, k)
          BY <3>3, <5>1
        <5>3. f[k] = g[k] /\ (k # 0 => f[k - 1] = g[k - 1])
          BY <3>5, <5>1
        <5> QED
          BY <5>2, <5>3
      <4> QED
        BY <4>1, <4>2
    <3>7. IsRun(f, n)
      <4>1. f = [k \in 0..n |-> f[k]]
        OBVIOUS
      <4> HIDE DEF Step
      <4> QED
        BY <3>6, <4>1 DEF IsRun
    <3> QED
      BY <2>3, <3>7
  <2> QED
    BY <2>4, <2>5
<1>3. \E g : IsRun(g, B)
  BY <1>1, <1>2
<1>4. Turns(list, c, h) = CHOOSE g : IsRun(g, B)
  BY DEF Turns
<1>5. IsRun(Turns(list, c, h), B)
  <2> HIDE DEF IsRun
  <2> QED
    BY <1>3, <1>4
<1> QED
  BY <1>1, <1>5

LEMMA StartHolds ==
  ASSUME NEW list, IsList(list), NEW base, IsLedger(base), NEW h, NEW st, st = Start(list, base)
  PROVE  /\ LoopInv(list, base, h, st) /\ Unsettled(st) <= Len(list)
         /\ Cost(list, st) \in Nat /\ Cost(list, st) < MaxTurns(list)
<1>1. /\ DOMAIN st = {"coins", "txs", "bytes", "pending", "later", "progress"}
      /\ st.coins = base /\ st.txs = << >> /\ st.bytes = 0 /\ st.pending = list
      /\ st.later = << >> /\ st.progress = FALSE
  BY DEF Start
<1>2. << >> \in Seq(PoolTx) /\ Values(<< >>) = {} /\ NoneTwice(<< >>) /\ Len(<< >>) = 0
  BY DEF Values, NoneTwice
<1>3. LoopTyped(st)
  BY <1>1, <1>2 DEF LoopTyped, IsList
<1>4. Apart(st) /\ Sorted(list, st) /\ Idle(h, st)
  BY <1>1, <1>2 DEF Apart, Sorted, Idle, IsList
<1>5. Weighed(st)
  <2>1. SumSize({}) = 0
    BY FS_EmptySet DEF SumSize, Bytes
  <2>2. 0 <= BlockSpace
    BY MempoolAssumption
  <2>3. Values(st.txs) = {}
    BY <1>1, <1>2
  <2> QED
    BY <1>1, <2>1, <2>2, <2>3 DEF Weighed
<1>6. InLedger(base, st)
  <2>1. Unspent(base, << >>, 0) = DOMAIN base
    <3>1. 1..0 = {}
      OBVIOUS
    <3> QED
      BY <3>1 DEF Unspent
  <2>2. FromBase(base, base)
    BY DEF FromBase
  <2> QED
    BY <1>1, <1>2, <2>1, <2>2 DEF InLedger
<1>7. AllInPlace(base, h, st.txs)
  BY <1>1, <1>2 DEF AllInPlace
<1>8. PICK n : n = Len(list)
  OBVIOUS
<1>9. n \in Nat
  BY <1>8 DEF IsList
<1>10. Unsettled(st) = n /\ Cost(list, st) = n * (n + 2) + n /\ MaxTurns(list) = (n + 1) * (n + 2)
  <2>1. Unsettled(st) = n + 0
    BY <1>1, <1>2, <1>8 DEF Unsettled
  <2>2. Credit(st) = 0
    BY <1>1 DEF Credit
  <2>3. Cost(list, st) = (n + 0 + 0) * (n + 2) + n
    BY <1>1, <1>8, <2>1, <2>2 DEF Cost
  <2> QED
    BY <1>8, <1>9, <2>1, <2>3 DEF MaxTurns
<1>11. n * (n + 2) + n \in Nat /\ n * (n + 2) + n < (n + 1) * (n + 2)
  BY <1>9
<1>12. /\ Unsettled(st) <= Len(list) /\ Cost(list, st) \in Nat
       /\ Cost(list, st) < MaxTurns(list)
  BY <1>8, <1>9, <1>10, <1>11
<1> QED
  BY <1>3, <1>4, <1>5, <1>6, <1>7, <1>12 DEF LoopInv

\* After k turns the loops have ended or used up that much.
Running(list, base, h, st, k) ==
  /\ LoopInv(list, base, h, st) /\ Unsettled(st) <= Len(list)
  /\ Ended(st) \/ Cost(list, st) + k < MaxTurns(list)

LEMMA CostIsNatural ==
  ASSUME NEW list \in Seq(PoolTx), NEW st, LoopTyped(st)
  PROVE  Cost(list, st) \in Nat
<1>1. PICK u, q, n, p : u = Unsettled(st) /\ q = Credit(st) /\ n = Len(list) /\ p = Len(st.pending)
  OBVIOUS
<1>2. u \in Nat /\ q \in Nat /\ n \in Nat /\ p \in Nat
  BY <1>1 DEF LoopTyped, Unsettled, Credit
<1>3. (u + q) * (n + 2) + p \in Nat
  BY <1>2
<1>4. Cost(list, st) = (u + q) * (n + 2) + p
  BY <1>1 DEF Cost
<1> QED
  BY <1>3, <1>4

LEMMA TurnRuns ==
  ASSUME NEW list, IsList(list), NEW base, IsLedger(base), NEW h, IsNext(h),
         NEW st, NEW k \in Nat, Running(list, base, h, st, k)
  PROVE  Running(list, base, h, Turn(st, h), k + 1)
<1> PICK new : new = Turn(st, h)
  OBVIOUS
<1>1. LoopInv(list, base, h, st) /\ LoopTyped(st) /\ list \in Seq(PoolTx)
      /\ Unsettled(st) <= Len(list)
  BY DEF Running, LoopInv, IsList
<1>2. LoopInv(list, base, h, new)
  BY <1>1, TurnKeeps
<1>3. CASE Ended(st)
  <2>1. new = st
    BY <1>3 DEF Turn, Ended
  <2> QED
    BY <1>1, <1>3, <2>1 DEF Running
<1>4. CASE ~Ended(st)
  <2>1. NoneTwice(st.pending) /\ \A t \in Values(st.pending) : Flawless(t)
    BY <1>1 DEF LoopInv, Apart, Sorted, IsList
  <2>2. st.bytes \in Nat
    <3>1. Values(st.txs) \subseteq PoolTx
      BY <1>1 DEF LoopInv, Sorted, IsList, Flawless
    <3> QED
      BY <1>1, <3>1, BytesFinite DEF LoopInv, Weighed
  <2>3. Unsettled(new) <= Len(list) /\ Cost(list, new) + 1 <= Cost(list, st)
    BY <1>1, <1>4, <2>1, <2>2, TurnCosts
  <2>4. Cost(list, new) \in Nat /\ Cost(list, st) \in Nat
    BY <1>1, <1>2, CostIsNatural DEF LoopInv
  <2>5. Cost(list, st) + k < MaxTurns(list)
    BY <1>4 DEF Running
  <2>6. MaxTurns(list) \in Nat
    BY <1>1, TurnsDefined
  <2>7. PICK a, b, m : a = Cost(list, new) /\ b = Cost(list, st) /\ m = MaxTurns(list)
    OBVIOUS
  <2>8. a + (k + 1) < m
    BY <2>3, <2>4, <2>5, <2>6, <2>7
  <2> QED
    BY <1>2, <2>3, <2>7, <2>8 DEF Running
<1> QED
  BY <1>3, <1>4

\* Where the loops end.
SelectionEnds(list, base, h) ==
  \E st : /\ LoopInv(list, base, h, st) /\ Ended(st)
          /\ Selection(list, base, h) = st.txs

LEMMA SelectionHolds ==
  ASSUME NEW list, IsList(list), NEW base, IsLedger(base), NEW h, IsNext(h)
  PROVE  SelectionEnds(list, base, h)
<1>1. PICK f, m : f = Turns(list, base, h) /\ m = MaxTurns(list)
  OBVIOUS
<1>2. /\ m \in Nat
      /\ f = [k \in 0..m |-> IF k = 0 THEN Start(list, base) ELSE Turn(f[k - 1], h)]
  BY <1>1, TurnsDefined DEF IsList
<1>3. f[0] = Start(list, base)
  <2>1. 0 \in 0..m
    BY <1>2
  <2> QED
    BY <1>2, <2>1
<1>4. ASSUME NEW k \in 1..m PROVE f[k] = Turn(f[k - 1], h)
  <2>1. k \in 0..m /\ k # 0
    BY <1>2
  <2> QED
    BY <1>2, <2>1
<1> DEFINE fails == {k \in 0..m : ~Running(list, base, h, f[k], k)}
<1>5. fails = {}
  <2> SUFFICES ASSUME fails # {} PROVE FALSE
    OBVIOUS
  <2>1. fails \subseteq Nat
    BY <1>2
  <2>2. PICK k \in fails : \A j \in fails : k <= j
    BY <2>1, LeastNumber
  <2>3. k \in 0..m /\ ~Running(list, base, h, f[k], k)
    OBVIOUS
  <2>4. CASE k = 0
    <3>1. PICK st : st = Start(list, base)
      OBVIOUS
    <3>2. /\ LoopInv(list, base, h, st) /\ Unsettled(st) <= Len(list)
          /\ Cost(list, st) \in Nat /\ Cost(list, st) < MaxTurns(list)
      BY <3>1, StartHolds
    <3>3. Cost(list, st) + 0 < MaxTurns(list)
      BY <3>2
    <3>4. Running(list, base, h, st, 0)
      BY <3>2, <3>3 DEF Running
    <3> QED
      BY <1>3, <2>3, <2>4, <3>1, <3>4
  <2>5. CASE k # 0
    <3>1. k \in 1..m /\ k - 1 \in 0..m /\ k - 1 \in Nat /\ ~(k <= k - 1) /\ (k - 1) + 1 = k
      BY <1>2, <2>3, <2>5
    <3>2. Running(list, base, h, f[k - 1], k - 1)
      BY <2>2, <3>1
    <3>3. Running(list, base, h, Turn(f[k - 1], h), (k - 1) + 1)
      BY <3>1, <3>2, TurnRuns
    <3> QED
      BY <1>4, <2>3, <3>1, <3>3
  <2> QED
    BY <2>4, <2>5
<1>6. PICK st : st = f[m]
  OBVIOUS
<1>7. Running(list, base, h, st, m)
  <2>1. m \in 0..m
    BY <1>2
  <2> QED
    BY <1>5, <1>6, <2>1
<1>8. LoopInv(list, base, h, st) /\ (Ended(st) \/ Cost(list, st) + m < m)
  BY <1>1, <1>7 DEF Running
<1>9. Cost(list, st) \in Nat
  BY <1>8, CostIsNatural DEF LoopInv, IsList
<1>10. Ended(st)
  <2>1. PICK a : a = Cost(list, st)
    OBVIOUS
  <2> QED
    BY <1>2, <1>8, <1>9, <2>1
<1>11. Selection(list, base, h) = st.txs
  BY <1>1, <1>6 DEF Selection
<1> QED
  BY <1>8, <1>10, <1>11 DEF SelectionEnds

\* What is in the pool is flawless, and the miner works with the height and the
\* outputs of some tip; its template is valid.
AtTips ==
  /\ \E t \in Tips : height = t.height
  /\ \E t \in Tips : coins = t.coins
  /\ activating.phase = "coins" => activating.tip \in Tips
PoolFlawless == \A t \in mp.txs : Flawless(t)
JobReady ==
  /\ job.phase \in {"height", "pool"} => IsNext(job.next)
  /\ job.phase = "pool" => IsList(job.list)
TemplateInv == AtTips /\ PoolFlawless /\ JobReady /\ TemplateValid

LEMMA AddedIsFlawless ==
  ASSUME NEW p, IsPool(p), InLimits(p), NEW tx \in PoolTx, NEW h, NEW q, q = AfterAdd(p, tx, h),
         \A t \in p.txs : Flawless(t)
  PROVE  \A t \in q.txs : Flawless(t)
<1>1. Left(p, q, tx)
  BY AddEffect
<1>2. SUFFICES ASSUME NEW t \in q.txs, t \notin p.txs PROVE Flawless(t)
  OBVIOUS
<1>3. t = tx /\ Accepted(p, q, tx)
  BY <1>1, <1>2 DEF Left, Accepted
<1>4. q # p /\ MissingParents(p, tx) = {}
  BY <1>1, <1>2, <1>3 DEF Left
<1>5. TxFlaw[tx] # "form" /\ ~Rejected(tx, h)
  BY <1>4 DEF AfterAdd
<1>6. TxFlaw[tx] \in {"none", "form", "signature", "overspend"}
  BY MempoolAssumption DEF Flaws
<1> QED
  BY <1>3, <1>5, <1>6 DEF Rejected, Flawless

\* A template whose selection has ended is valid.
ValidBody(list, base, h, s) ==
  /\ AllInPlace(base, h, s)
  /\ SumSize(ToSet(s)) <= BlockSpace
  /\ \A t \in ToSet(list) \ ToSet(s) :
       \/ ~(TxSpends[t] \subseteq Unspent(base, s, Len(s))) \/ ~Mature(base, h, t)
       \/ SumSize(ToSet(s)) + TxSize[t] > BlockSpace

LEMMA EndedIsValid ==
  ASSUME NEW list, IsList(list), NEW base, IsLedger(base), NEW h, IsNext(h)
  PROVE  ValidBody(list, base, h, Selection(list, base, h))
<1>1. PICK st : /\ LoopInv(list, base, h, st) /\ Ended(st)
                /\ Selection(list, base, h) = st.txs
  BY SelectionHolds DEF SelectionEnds
<1>2. PICK s, n : s = st.txs /\ n = Len(s)
  OBVIOUS
<1>3. /\ LoopTyped(st) /\ Sorted(list, st) /\ Weighed(st)
      /\ InLedger(base, st) /\ AllInPlace(base, h, s) /\ Idle(h, st)
      /\ st.pending = << >> /\ ~st.progress
  BY <1>1, <1>2 DEF LoopInv, Ended
<1>4. Selection(list, base, h) = s /\ ToSet(s) = Values(s) /\ ToSet(list) = Values(list)
  BY <1>1, <1>2, ToSetValues
<1>5. SumSize(ToSet(s)) = st.bytes /\ st.bytes <= BlockSpace
  BY <1>2, <1>3, <1>4 DEF Weighed
<1>6. ASSUME NEW t \in ToSet(list) \ ToSet(s)
      PROVE  \/ ~(TxSpends[t] \subseteq Unspent(base, s, n)) \/ ~Mature(base, h, t)
             \/ SumSize(ToSet(s)) + TxSize[t] > BlockSpace
  <2>1. Values(st.pending) = {}
    BY <1>3 DEF Values
  <2>2. t \in Values(st.later) \/ st.bytes + TxSize[t] > BlockSpace
    BY <1>2, <1>3, <1>4, <1>6, <2>1 DEF Sorted
  <2>3. CASE t \in Values(st.later)
    <3>1. ~Applies(st.coins, t, h)
      BY <1>3, <2>3 DEF Idle
    <3>2. DOMAIN st.coins = Unspent(base, s, n) /\ FromBase(base, st.coins)
      BY <1>2, <1>3 DEF InLedger
    <3>3. TxSpends[t] \subseteq DOMAIN st.coins => ~Mature(base, h, t)
      BY <3>1, <3>2, MaturityAgrees
    <3> QED
      BY <3>2, <3>3
  <2> QED
    BY <1>5, <2>2, <2>3
<1> QED
  BY <1>2, <1>3, <1>4, <1>5, <1>6 DEF ValidBody

LEMMA TipsAreLedgers ==
  ASSUME AtTips
  PROVE  IsLedger(coins) /\ IsNext(height + 1)
<1>1. PICK t \in Tips : coins = t.coins
  BY DEF AtTips
<1>2. PICK u \in Tips : height = u.height
  BY DEF AtTips
<1>3. u.height \in Nat /\ u.height + 1 < HeightModulus
  BY MempoolAssumption
<1>4. IsNext(height + 1)
  BY <1>2, <1>3 DEF IsNext
<1> QED
  BY <1>1, <1>4, CoinsAssumption DEF IsLedger

LEMMA TemplateInvIsKept ==
  MempoolInv /\ TemplateInv /\ [MempoolNext]_mempoolVars => TemplateInv'
<1> SUFFICES ASSUME MempoolInv, TemplateInv, [MempoolNext]_mempoolVars PROVE TemplateInv'
  OBVIOUS
<1>1. IsPool(mp) /\ InLimits(mp)
  BY DEF MempoolInv
<1>2. UNCHANGED <<coins, height, activating>> => AtTips'
  BY DEF TemplateInv, AtTips
<1>3. UNCHANGED job => JobReady' /\ TemplateValid'
  BY DEF TemplateInv, JobReady, TemplateValid
<1>4. UNCHANGED mp => PoolFlawless'
  BY DEF TemplateInv, PoolFlawless
<1>5. \A t \in mp.txs : Flawless(t)
  BY DEF TemplateInv, PoolFlawless
<1>6. ASSUME NEW s \in Submitters, NEW tx \in PoolTx, Submit(s, tx) PROVE TemplateInv'
  BY <1>2, <1>3, <1>4, <1>6 DEF Submit, TemplateInv
<1>7. ASSUME NEW s \in Submitters, Add(s) PROVE TemplateInv'
  <2>1. PICK tx, h, q : tx = calls[s][1] /\ h = calls[s][2] /\ q = AfterAdd(mp, tx, h)
    OBVIOUS
  <2>2. mp' = q /\ calls[s] # << >> /\ UNCHANGED <<coins, height, activating, job>>
    BY <1>7, <2>1 DEF Add
  <2>3. tx \in PoolTx
    BY <2>1, <2>2 DEF MempoolInv, CallsTyped
  <2>4. \A t \in q.txs : Flawless(t)
    BY <1>1, <1>5, <2>1, <2>3, AddedIsFlawless
  <2>5. PoolFlawless'
    BY <2>2, <2>4 DEF PoolFlawless, Flawless
  <2> QED
    BY <1>2, <1>3, <2>2, <2>5 DEF TemplateInv
<1>8. ASSUME RetryOrphan PROVE TemplateInv'
  <2>1. PICK o : \E p, q :
          /\ p = RemoveOrphans(mp, {o})
          /\ q = IF o \in ToSet(mp.orphans) THEN AfterAdd(p, o, work.height) ELSE mp
          /\ mp' = q /\ UNCHANGED <<coins, height, activating, job>>
    BY <1>8 DEF RetryOrphan
  <2>2. PICK p, q :
          /\ p = RemoveOrphans(mp, {o})
          /\ q = IF o \in ToSet(mp.orphans) THEN AfterAdd(p, o, work.height) ELSE mp
          /\ mp' = q /\ UNCHANGED <<coins, height, activating, job>>
    BY <2>1
  <2>3. \A t \in q.txs : Flawless(t)
    <3>1. CASE o \in ToSet(mp.orphans)
      <4>1. o \in PoolTx
        BY <1>1, <3>1, ToSetValues, InValues DEF IsPool, Stored
      <4>2. Forgotten(mp, {o}, p)
        BY <1>1, <2>2, RemoveOrphansKeeps
      <4>3. IsPool(p) /\ InLimits(p) /\ p.txs = mp.txs
        BY <1>1, <2>2, <4>2, WithoutOrphan
      <4> QED
        BY <1>5, <2>2, <3>1, <4>1, <4>3, AddedIsFlawless
    <3>2. CASE o \notin ToSet(mp.orphans)
      BY <1>5, <2>2, <3>2
    <3> QED
      BY <3>1, <3>2
  <2>4. PoolFlawless'
    BY <2>2, <2>3 DEF PoolFlawless, Flawless
  <2> QED
    BY <1>2, <1>3, <2>2, <2>4 DEF TemplateInv
<1>9. ASSUME NEW t \in Tips, ActivateHeight(t) PROVE TemplateInv'
  <2>1. AtTips'
    BY <1>9 DEF ActivateHeight, TemplateInv, AtTips
  <2> QED
    BY <1>3, <1>4, <1>9, <2>1 DEF ActivateHeight, TemplateInv
<1>10. ASSUME ActivateCoins PROVE TemplateInv'
  <2>1. AtTips'
    BY <1>10 DEF ActivateCoins, TemplateInv, AtTips
  <2> QED
    BY <1>3, <1>4, <1>10, <2>1 DEF ActivateCoins, TemplateInv
<1>11. ASSUME ClearPool PROVE TemplateInv'
  <2>1. AtTips'
    BY <1>11 DEF ClearPool, NoTask, TemplateInv, AtTips
  <2>2. PoolFlawless'
    BY <1>11 DEF ClearPool, EmptyPool, PoolFlawless
  <2> QED
    BY <1>3, <1>11, <2>1, <2>2 DEF ClearPool, TemplateInv
<1>12. ASSUME MinerReadsHeight PROVE TemplateInv'
  <2>1. job'.phase = "height" /\ job'.next = height + 1
    BY <1>12 DEF MinerReadsHeight
  <2>2. IsNext(height + 1)
    BY TipsAreLedgers DEF TemplateInv
  <2>3. JobReady' /\ TemplateValid'
    BY <2>1, <2>2 DEF JobReady, TemplateValid, IsNext
  <2> QED
    BY <1>2, <1>4, <1>12, <2>3 DEF MinerReadsHeight, TemplateInv
<1>13. ASSUME MinerReadsPool PROVE TemplateInv'
  <2>1. /\ job.phase = "height" /\ job'.phase = "pool" /\ job'.next = job.next
        /\ job'.list = ByFeerate(mp.txs)
    BY <1>13 DEF MinerReadsPool
  <2>2. IsList(ByFeerate(mp.txs))
    <3>1. PICK r : r = ByFeerate(mp.txs)
      OBVIOUS
    <3>2. r \in Seq(mp.txs) /\ NoneTwice(r) /\ mp.txs \subseteq PoolTx
      BY <1>1, <3>1, FeerateOrder DEF IsPool
    <3>3. r \in Seq(PoolTx) /\ \A i \in DOMAIN r : r[i] \in mp.txs
      BY <3>2
    <3>4. \A t \in Values(r) : Flawless(t)
      BY <1>5, <3>3, InValues
    <3> QED
      BY <3>1, <3>2, <3>3, <3>4 DEF IsList
  <2>3. IsNext(job.next)
    BY <2>1 DEF TemplateInv, JobReady
  <2>4. JobReady' /\ TemplateValid'
    BY <2>1, <2>2, <2>3 DEF JobReady, TemplateValid, IsNext, IsList, Flawless, Values
  <2> QED
    BY <1>2, <1>4, <1>13, <2>4 DEF MinerReadsPool, TemplateInv
<1>14. ASSUME MinerSelects PROVE TemplateInv'
  <2>1. PICK l, c, h : l = job.list /\ c = coins /\ h = job.next
    OBVIOUS
  <2>2. /\ job.phase = "pool"
        /\ job' = [phase |-> "block", next |-> h, list |-> l, base |-> c,
                   txs |-> Selection(l, c, h)]
        /\ UNCHANGED <<mp, coins, height, activating>>
    BY <1>14, <2>1 DEF MinerSelects
  <2>3. IsList(l) /\ IsLedger(c) /\ IsNext(h)
    BY <2>1, <2>2, TipsAreLedgers DEF TemplateInv, JobReady
  <2>4. JobReady'
    BY <2>2 DEF JobReady
  <2>5. TemplateValid'
    <3>1. PICK s : s = Selection(l, c, h)
      OBVIOUS
    <3>2. ValidBody(l, c, h, s)
      BY <2>3, <3>1, EndedIsValid
    <3>3. /\ job'.phase = "block" /\ job'.next = h /\ job'.list = l /\ job'.base = c
          /\ job'.txs = s
      BY <2>2, <3>1
    <3> QED
      BY <3>2, <3>3 DEF TemplateValid, ValidBody, AllInPlace, InPlace
  <2> QED
    BY <1>2, <1>4, <2>2, <2>4, <2>5 DEF TemplateInv
<1>15. ASSUME MinerDone PROVE TemplateInv'
  <2>1. job'.phase = "none"
    BY <1>15 DEF MinerDone, NoTask
  <2> QED
    BY <1>2, <1>4, <1>15, <2>1 DEF MinerDone, TemplateInv, JobReady, TemplateValid
<1>16. UNCHANGED mempoolVars => TemplateInv'
  BY <1>2, <1>3, <1>4 DEF mempoolVars, TemplateInv
<1> QED
  BY <1>6, <1>7, <1>8, <1>9, <1>10, <1>11, <1>12, <1>13, <1>14, <1>15, <1>16 DEF MempoolNext

-----------------------------------------------------------------------------
(* Theorems                                                                *)

\* The inductive invariant of the pool: its containers agree within their limits, its
\* entries are admitted on the active chain, and each orphan waits or is in the list of
\* a loop that is still to try it.
THEOREM MempoolInvariance == MempoolSpec => []MempoolInv
BY InvAtStart, MempoolInvIsKept, PTL DEF MempoolSpec

\* For any transactions and limits the pool's indices agree and its limits hold.
THEOREM PoolIsConsistent == MempoolSpec => []PoolConsistent
<1>1. MempoolInv => PoolConsistent
  <2> SUFFICES ASSUME MempoolInv PROVE PoolConsistent
    OBVIOUS
  <2>1. IsPool(mp) /\ InLimits(mp)
    BY DEF MempoolInv
  <2>2. /\ mp.spentBy \in [SpendsOf(mp.txs) -> mp.txs]
        /\ \A t \in mp.txs : \A o \in TxSpends[t] : mp.spentBy[o] = t
    BY <2>1 DEF IsPool, Booked
  <2>3. \A a, b \in mp.txs : a # b => TxSpends[a] \cap TxSpends[b] = {}
    BY <2>2
  <2>4. ASSUME NEW o \in SpendsOf(mp.txs)
        PROVE  mp.spentBy[o] = CHOOSE t \in mp.txs : o \in TxSpends[t]
    <3> PICK c : c = CHOOSE t \in mp.txs : o \in TxSpends[t]
      OBVIOUS
    <3>1. \E t \in mp.txs : o \in TxSpends[t]
      BY <2>4 DEF SpendsOf
    <3>2. c \in mp.txs /\ o \in TxSpends[c]
      BY <3>1
    <3> QED
      BY <2>2, <3>2
  <2>5. mp.spentBy = [o \in SpendsOf(mp.txs) |-> CHOOSE t \in mp.txs : o \in TxSpends[t]]
    BY <2>2, <2>4
  <2>6. mp.bytes = SumSize(mp.txs) /\ mp.txs \cap ToSet(mp.orphans) = {}
    BY <2>1, ToSetValues DEF IsPool
  <2>7. IsInjective(mp.orphans)
    BY <2>1 DEF IsPool, Stored, NoneTwice, IsInjective
  <2> QED
    BY <2>1, <2>3, <2>5, <2>6, <2>7 DEF PoolConsistent, InLimits, SpendsOf
<1> QED
  BY <1>1, MempoolInvariance, PTL

\* No orphan is stuck once the lock is free: each waits for a parent that is missing.
THEOREM NoOrphanIsStuck == MempoolSpec => []OrphansWaitForMissing
<1>1. MempoolInv => OrphansWaitForMissing
  <2> SUFFICES ASSUME MempoolInv, Unlocked, activating.phase # "clear"
               PROVE  /\ {w[2] : w \in mp.waiting} = ToSet(mp.orphans)
                      /\ \A o \in ToSet(mp.orphans) : Waits(mp, o)
    BY DEF OrphansWaitForMissing, Waits
  <2>1. {w[2] : w \in mp.waiting} = ToSet(mp.orphans)
    BY ToSetValues DEF MempoolInv, IsPool, Stored
  <2>2. ASSUME NEW o \in Values(mp.orphans) PROVE Waits(mp, o)
    <3>1. Waits(mp, o) \/ Due(work.stack, o)
      BY <2>2 DEF MempoolInv, OrphansHandled
    <3>2. work.stack = << >>
      BY DEF Unlocked
    <3> QED
      BY <3>1, <3>2, DueInOne
  <2> QED
    BY <2>1, <2>2, ToSetValues
<1> QED
  BY <1>1, MempoolInvariance, PTL

\* Nothing in the pool depends on a chain that an activation has left.
THEOREM PoolFollowsChain == MempoolSpec => []PoolOnActiveChain
<1>1. MempoolInv => PoolOnActiveChain
  BY DEF MempoolInv
<1> QED
  BY <1>1, MempoolInvariance, PTL

LEMMA TemplateInvariance == MempoolSpec => [](MempoolInv /\ TemplateInv)
<1>1. MempoolInit => TemplateInv
  <2> SUFFICES ASSUME MempoolInit PROVE TemplateInv
    OBVIOUS
  <2>1. AtTips
    BY DEF MempoolInit, AtTips, NoTask
  <2>2. PoolFlawless
    BY DEF MempoolInit, EmptyPool, PoolFlawless
  <2>3. JobReady /\ TemplateValid
    BY DEF MempoolInit, NoTask, JobReady, TemplateValid
  <2> QED
    BY <2>1, <2>2, <2>3 DEF TemplateInv
<1>2. MempoolInit => MempoolInv
  BY InvAtStart
<1> QED
  BY <1>1, <1>2, MempoolInvIsKept, TemplateInvIsKept, PTL DEF MempoolSpec

\* Whatever the pool holds and the chain does meanwhile, a template is a valid body on the
\* outputs it was built from and leaves nobody out who would apply and fit.
THEOREM TemplatesAreValid == MempoolSpec => []TemplateValid
<1>1. TemplateInv => TemplateValid
  BY DEF TemplateInv
<1> QED
  BY <1>1, TemplateInvariance, PTL

PhasesTyped ==
  /\ admitted \subseteq PoolTx
  /\ activating.phase \in {"none", "coins", "clear"}
  /\ job.phase \in {"none", "height", "pool", "block"}

LEMMA PhasesAreKept ==
  MempoolInv' /\ PhasesTyped /\ [MempoolNext]_mempoolVars => PhasesTyped'
<1> SUFFICES ASSUME MempoolInv', PhasesTyped, [MempoolNext]_mempoolVars PROVE PhasesTyped'
  OBVIOUS
<1>1. mp'.txs \subseteq PoolTx
  BY DEF MempoolInv, IsPool
<1>2. ASSUME UNCHANGED <<activating, job>>,
             admitted' = admitted \/ admitted' = admitted \cup (mp'.txs \ mp.txs)
      PROVE  PhasesTyped'
  BY <1>1, <1>2 DEF PhasesTyped
<1>3. ASSUME NEW s \in Submitters, Add(s) \/ \E tx \in PoolTx : Submit(s, tx) PROVE PhasesTyped'
  <2>1. Add(s) => PhasesTyped'
    BY <1>2 DEF Add
  <2> QED
    BY <1>2, <1>3, <2>1 DEF Submit
<1>4. RetryOrphan => PhasesTyped'
  BY <1>2 DEF RetryOrphan
<1>5. (\E t \in Tips : ActivateHeight(t)) \/ ActivateCoins \/ ClearPool => PhasesTyped'
  BY DEF ActivateHeight, ActivateCoins, ClearPool, NoTask, PhasesTyped
<1>6. MinerReadsHeight \/ MinerReadsPool \/ MinerSelects \/ MinerDone => PhasesTyped'
  BY DEF MinerReadsHeight, MinerReadsPool, MinerSelects, MinerDone, NoTask, PhasesTyped
<1>7. UNCHANGED mempoolVars => PhasesTyped'
  BY <1>2 DEF mempoolVars
<1> QED
  BY <1>3, <1>4, <1>5, <1>6, <1>7 DEF MempoolNext

\* The pool, the stack of the recursion and the ledger it reads have their types, and what
\* is in the pool was admitted, whatever activation it is caught in (activate_path, clear).
THEOREM MempoolTypes == MempoolSpec => []MempoolTypeOK
<1>1. MempoolInit => PhasesTyped
  BY DEF MempoolInit, PhasesTyped, NoTask
<1>2. ASSUME MempoolInv, AtTips, PhasesTyped PROVE MempoolTypeOK
  <2>1. IsPool(mp) /\ CallsTyped /\ mp.txs \subseteq admitted
    BY <1>2 DEF MempoolInv
  <2>2. mp.txs \subseteq PoolTx /\ mp.orphans \in Seq(PoolTx)
    BY <2>1 DEF IsPool, Stored
  <2>3. mp.bytes \in Int
    BY <2>1, <2>2, BytesFinite DEF IsPool
  <2>4. ASSUME NEW w \in mp.waiting PROVE w[2] \in PoolTx
    <3>1. w[2] \in Values(mp.orphans)
      BY <2>1 DEF IsPool, Stored
    <3> QED
      BY <2>2, <3>1, InValues
  <2>5. height \in {t.height : t \in Tips} /\ coins \in {t.coins : t \in Tips}
    BY <1>2 DEF AtTips
  <2>6. \A i \in 1..Len(work.stack) : work.stack[i] \in SUBSET PoolTx
    <3>1. work.stack \in Seq(SUBSET PoolTx)
      BY <2>1 DEF CallsTyped
    <3> QED
      BY <3>1
  <2> QED
    BY <1>2, <2>1, <2>2, <2>3, <2>4, <2>5, <2>6 DEF PhasesTyped, MempoolTypeOK
<1>3. TemplateInv => AtTips
  BY DEF TemplateInv
<1> QED
  BY <1>1, <1>2, <1>3, TemplateInvariance, PhasesAreKept, PTL DEF MempoolSpec
=============================================================================
