---------------------------- MODULE PeerSyncProofs ----------------------------
(***************************************************************************)
(* For any peers, heights, batches and slots: a block is on its way once   *)
(* and booked, a booked one is on its way as long as no session was lost,  *)
(* the queue waits for slots only, and the wallet opens on a chain that    *)
(* has every announced height.                                             *)
(***************************************************************************)
EXTENDS PeerSync, PositionsTheorems

\* What a peer with a chain of t blocks is asked for, and what it sends.
Asked(t) == [type : {"version"}] \cup [type : {"getheaders"}, height : Nat]
              \cup [type : {"getblock"}, height : 1..t]
Distinct(s) == \A i, j \in DOMAIN s : s[i] = s[j] => i = j
Sent(t) == [type : {"version"}, height : 0..t] \cup [type : {"block", "inv"}, height : 1..t]
             \cup [type : {"headers"}, batch : {b \in Seq(1..t) : Distinct(b)}]

Entry == [block : 1..MaxHeight, peer : Peer \cup {NoPeer}]
\* An entry that is still somebody's is for an open session, and within its chain.
Deliverable(e) == e.peer # NoPeer => e.peer \in sessions /\ e.block <= peerTip[e.peer]

SyncTyped ==
  /\ peerTip \in [Peer -> 0..MaxHeight]
  /\ sessions \subseteq Peer /\ validated \subseteq sessions
  /\ DOMAIN toPeer = Peer /\ DOMAIN fromPeer = Peer
  /\ \A p \in Peer : toPeer[p] \in Seq(Asked(peerTip[p]))
                     /\ fromPeer[p] \in Seq(Sent(peerTip[p]))
  /\ \A p \in Peer \ sessions : toPeer[p] = << >> /\ fromPeer[p] = << >>
  /\ have \subseteq 0..MaxHeight /\ 0 \in have
  /\ peerHeights \in [Peer -> 0..MaxHeight \cup {NoHeight}]
  /\ queue \in Seq(Entry) /\ \A i \in DOMAIN queue : Deliverable(queue[i])
  /\ queued \subseteq 1..MaxHeight /\ inflight \subseteq 1..MaxHeight
  /\ approval \in [approved : BOOLEAN, height : Nat]
  /\ drops \in Nat

\* The queue that is given to pump_block_downloads, with its hashes and the slots taken.
BlocksOf(q) == {q[i].block : i \in DOMAIN q}
QueueFits(q, waiting, busy) ==
  /\ \A i, j \in DOMAIN q : q[i].block = q[j].block => i = j
  /\ waiting = BlocksOf(q)
  /\ waiting \cap busy = {}
  /\ Cardinality(busy) <= MaxParallel
QueueInv == QueueFits(queue, queued, inflight) /\ QueueWaitsForSlot

\* A block is on its way in at most one channel, once.
GetBlock(h) == [type |-> "getblock", height |-> h]
Block(h) == [type |-> "block", height |-> h]
Has(s, m) == \E i \in DOMAIN s : s[i] = m
Once(s, m) == \A i, j \in DOMAIN s : s[i] = m /\ s[j] = m => i = j
Coming(p, h) == Has(toPeer[p], GetBlock(h)) \/ Has(fromPeer[p], Block(h))
OneWay ==
  \A h \in 1..MaxHeight :
    /\ \A p \in Peer :
         /\ Once(toPeer[p], GetBlock(h)) /\ Once(fromPeer[p], Block(h))
         /\ ~(Has(toPeer[p], GetBlock(h)) /\ Has(fromPeer[p], Block(h)))
    /\ \A p, r \in Peer : Coming(p, h) /\ Coming(r, h) => p = r
Booking ==
  /\ \A h \in 1..MaxHeight : \A p \in Peer : Coming(p, h) => h \in inflight
  /\ drops = 0 => \A h \in inflight : \E p \in Peer : Coming(p, h)

SyncInv == SyncTyped /\ QueueInv /\ OneWay /\ Booking

-----------------------------------------------------------------------------
(* Sequences                                                               *)

\* What a sequence has after a step that reads its head or appends to it.
LEMMA HasHead ==
  ASSUME NEW T, NEW s \in Seq(T), s # << >>, NEW m
  PROVE  /\ Has(Tail(s), m) => Has(s, m)
         /\ Has(s, m) => Head(s) = m \/ Has(Tail(s), m)
         /\ Once(s, m) => Once(Tail(s), m)
         /\ Once(s, m) /\ Head(s) = m => ~Has(Tail(s), m)
<1>1. /\ Len(s) \in Nat \ {0} /\ Len(Tail(s)) = Len(s) - 1 /\ Head(s) = s[1]
      /\ DOMAIN s = 1..Len(s) /\ DOMAIN Tail(s) = 1..(Len(s) - 1)
      /\ \A i \in DOMAIN Tail(s) : Tail(s)[i] = s[i + 1]
  OBVIOUS
<1>2. ASSUME NEW i \in DOMAIN s, s[i] = m PROVE Head(s) = m \/ Has(Tail(s), m)
  <2>1. CASE i = 1
    BY <1>1, <1>2, <2>1
  <2>2. CASE i # 1
    <3>1. i - 1 \in DOMAIN Tail(s) /\ Tail(s)[i - 1] = s[i]
      BY <1>1, <1>2, <2>2
    <3> QED
      BY <1>2, <3>1 DEF Has
  <2> QED
    BY <2>1, <2>2
<1>3. ASSUME NEW i \in DOMAIN Tail(s) PROVE i + 1 \in DOMAIN s /\ i + 1 # 1 /\ Tail(s)[i] = s[i + 1]
  BY <1>1
<1>4. Once(s, m) => Once(Tail(s), m)
  <2> SUFFICES ASSUME Once(s, m), NEW i \in DOMAIN Tail(s), NEW j \in DOMAIN Tail(s),
                      Tail(s)[i] = m, Tail(s)[j] = m
               PROVE  i = j
    BY DEF Once
  <2>1. i + 1 = j + 1
    BY <1>3 DEF Once
  <2> QED
    BY <1>1, <2>1
<1>5. Once(s, m) /\ Head(s) = m => ~Has(Tail(s), m)
  <2>1. 1 \in DOMAIN s /\ s[1] = Head(s)
    BY <1>1
  <2> QED
    BY <1>3, <2>1 DEF Once, Has
<1> QED
  BY <1>2, <1>3, <1>4, <1>5 DEF Has

LEMMA HasConcat ==
  ASSUME NEW T, NEW s \in Seq(T), NEW t \in Seq(T), NEW m
  PROVE  /\ Has(s \o t, m) <=> Has(s, m) \/ Has(t, m)
         /\ Once(s, m) /\ Once(t, m) /\ ~(Has(s, m) /\ Has(t, m)) => Once(s \o t, m)
<1>1. /\ Len(s) \in Nat /\ Len(t) \in Nat /\ DOMAIN s = 1..Len(s) /\ DOMAIN t = 1..Len(t)
      /\ DOMAIN (s \o t) = 1..(Len(s) + Len(t))
      /\ \A i \in DOMAIN (s \o t) :
           (s \o t)[i] = IF i <= Len(s) THEN s[i] ELSE t[i - Len(s)]
  OBVIOUS
<1> PICK r : r = s \o t
  OBVIOUS
<1>2. ASSUME NEW i \in DOMAIN r
      PROVE  \/ i \in DOMAIN s /\ r[i] = s[i]
             \/ i - Len(s) \in DOMAIN t /\ r[i] = t[i - Len(s)] /\ i \notin DOMAIN s
  BY <1>1
<1>3. ASSUME NEW i \in DOMAIN s PROVE i \in DOMAIN r /\ r[i] = s[i]
  BY <1>1
<1>4. ASSUME NEW i \in DOMAIN t PROVE i + Len(s) \in DOMAIN r /\ r[i + Len(s)] = t[i]
  BY <1>1
<1>5. Has(r, m) <=> Has(s, m) \/ Has(t, m)
  BY <1>2, <1>3, <1>4 DEF Has
<1>6. ASSUME Once(s, m), Once(t, m), ~(Has(s, m) /\ Has(t, m)),
             NEW i \in DOMAIN r, NEW j \in DOMAIN r, r[i] = m, r[j] = m
      PROVE  i = j
  <2>1. CASE i \in DOMAIN s /\ j \in DOMAIN s
    BY <1>2, <1>3, <1>6, <2>1 DEF Once
  <2>2. CASE i \notin DOMAIN s /\ j \notin DOMAIN s
    <3>1. i - Len(s) = j - Len(s)
      BY <1>2, <1>6, <2>2 DEF Once
    <3> QED
      BY <1>1, <3>1
  <2> QED
    BY <1>2, <1>3, <1>6, <2>1, <2>2 DEF Has
<1> QED
  BY <1>5, <1>6 DEF Once

\* Requests among other messages.
LEMMA HasAmong ==
  ASSUME NEW T, NEW s \in Seq(T), NEW first \in Seq(T), NEW t \in Seq(T), NEW last \in Seq(T),
         NEW m, ~Has(first, m), ~Has(last, m),
         Once(s, m), Once(t, m), ~(Has(s, m) /\ Has(t, m))
  PROVE  /\ Has(s \o first \o t \o last, m) <=> Has(s, m) \/ Has(t, m)
         /\ Once(s \o first \o t \o last, m)
<1>1. Once(first, m) /\ Once(last, m)
  BY DEF Has, Once
<1>2. PICK x \in Seq(T) : x = s \o first
  BY ConcatProperties
<1>3. (Has(x, m) <=> Has(s, m)) /\ Once(x, m)
  BY <1>1, <1>2, HasConcat
<1>4. PICK y \in Seq(T) : y = x \o t
  BY ConcatProperties
<1>5. (Has(y, m) <=> Has(s, m) \/ Has(t, m)) /\ Once(y, m)
  BY <1>3, <1>4, HasConcat
<1>6. (Has(y \o last, m) <=> Has(s, m) \/ Has(t, m)) /\ Once(y \o last, m)
  BY <1>1, <1>5, HasConcat
<1> QED
  BY <1>2, <1>4, <1>6

LEMMA HasOne ==
  ASSUME NEW x, NEW m
  PROVE  /\ Has(<<x>>, m) <=> x = m
         /\ Once(<<x>>, m)
         /\ ~Has(<< >>, m) /\ Once(<< >>, m)
BY DEF Has, Once

-----------------------------------------------------------------------------
(* The chain and the pump                                                  *)

\* There is a last block without a gap below it.
LEMMA BestIsThere ==
  ASSUME MaxHeight \in Nat, NEW B, B \subseteq 0..MaxHeight, 0 \in B
  PROVE  Best(B) \in B /\ Best(B) \in 0..MaxHeight /\ 0..Best(B) \subseteq B
<1> DEFINE Gaps == {h \in Nat : h + 1 \notin B}
<1>1. MaxHeight \in Gaps
  OBVIOUS
<1>2. PICK h \in Gaps : \A j \in Gaps : h <= j
  <2>1. Gaps \subseteq Nat /\ Gaps # {}
    BY <1>1
  <2> HIDE DEF Gaps
  <2> QED
    BY <2>1, LeastNumber
<1>3. ASSUME NEW j \in 0..h PROVE j \in B
  <2>1. CASE j = 0
    BY <2>1
  <2>2. CASE j # 0
    <3>1. j - 1 \in Nat /\ ~(h <= j - 1) /\ (j - 1) + 1 = j
      BY <1>3, <2>2
    <3>2. j - 1 \notin Gaps
      BY <1>2, <3>1
    <3> QED
      BY <3>1, <3>2
  <2> QED
    BY <2>1, <2>2
<1>4. h \in B /\ h + 1 \notin B /\ 0..h \subseteq B
  BY <1>3
<1>5. \E g \in B : g + 1 \notin B /\ 0..g \subseteq B
  BY <1>4
<1>6. Best(B) \in B /\ 0..Best(B) \subseteq B
  BY <1>5 DEF Best
<1> QED
  BY <1>6

\* The loop of pump_block_downloads pops until the queue is empty or the slots are full.
FirstBlocks(q, n) == {q[i].block : i \in 1..n}
WantedIn(q, blocks, n) == {i \in 1..n : Wanted(q[i], blocks)}
CountsUp(q, busy, blocks, n) ==
  Cardinality(busy \cup Booked(q, n, blocks))
    = Cardinality(busy) + Cardinality(WantedIn(q, blocks, n))
FilledBy(q, busy, blocks, n) ==
  Cardinality(busy) + Cardinality(WantedIn(q, blocks, n)) >= MaxParallel

LEMMA PopsUntilFull ==
  ASSUME NEW q \in Seq(Entry), NEW busy, NEW blocks
  PROVE  LET n == Popped(q, busy, blocks)
         IN  /\ n \in 0..Len(q)
             /\ n = Len(q) \/ FilledBy(q, busy, blocks, n)
             /\ \A m \in 0..(n - 1) : ~FilledBy(q, busy, blocks, m)
<1> DEFINE Stops(n) == n = Len(q) \/ FilledBy(q, busy, blocks, n)
           S == {n \in 0..Len(q) : Stops(n)}
<1>1. Len(q) \in S /\ S \subseteq Nat
  <2>1. Len(q) \in Nat
    OBVIOUS
  <2> QED
    BY <2>1
<1>2. PICK k \in S : \A j \in S : k <= j
  <2>1. S # {}
    BY <1>1
  <2> HIDE DEF S
  <2> QED
    BY <1>1, <2>1, LeastNumber
<1>3. ASSUME NEW m \in 0..(k - 1) PROVE ~FilledBy(q, busy, blocks, m)
  <2>1. m \notin S
    BY <1>1, <1>2
  <2>2. m \in 0..Len(q)
    BY <1>2
  <2> QED
    BY <2>1, <2>2
<1>4. \E n \in 0..Len(q) :
        /\ n = Len(q) \/ FilledBy(q, busy, blocks, n)
        /\ \A m \in 0..(n - 1) : ~FilledBy(q, busy, blocks, m)
  BY <1>2, <1>3
<1>5. Popped(q, busy, blocks) =
        CHOOSE n \in 0..Len(q) :
          /\ n = Len(q) \/ FilledBy(q, busy, blocks, n)
          /\ \A m \in 0..(n - 1) : ~FilledBy(q, busy, blocks, m)
  BY Zenon DEF Popped, FilledBy, WantedIn
<1> QED
  BY <1>4, <1>5

\* The entries that become requests are as many as the blocks they name.
LEMMA BookedCount ==
  ASSUME NEW q \in Seq(Entry), NEW waiting, NEW busy, busy \subseteq 1..MaxHeight,
         MaxHeight \in Nat, QueueFits(q, waiting, busy), NEW blocks, NEW n \in 0..Len(q)
  PROVE  /\ IsFiniteSet(WantedIn(q, blocks, n)) /\ Cardinality(WantedIn(q, blocks, n)) \in Nat
         /\ Booked(q, n, blocks) \subseteq waiting
         /\ Booked(q, n, blocks) \subseteq FirstBlocks(q, n)
         /\ IsFiniteSet(busy) /\ Cardinality(busy) \in Nat
         /\ CountsUp(q, busy, blocks, n)
<1> DEFINE W == WantedIn(q, blocks, n)
           B == Booked(q, n, blocks)
           f == [i \in W |-> q[i].block]
<1>1. W \subseteq 1..n /\ 1..n \subseteq DOMAIN q /\ n \in Nat
  BY DEF WantedIn
<1>2. IsFiniteSet(W) /\ Cardinality(W) \in Nat
  <2>1. IsFiniteSet(1..n) /\ W \in SUBSET (1..n)
    BY <1>1, FS_Interval
  <2>2. IsFiniteSet(W)
    BY <2>1, FS_Subset
  <2> QED
    BY <2>2, FS_CardinalityType
<1>3. B = {q[i].block : i \in W}
  BY DEF Booked, WantedIn
<1>4. B \subseteq waiting /\ B \subseteq FirstBlocks(q, n)
  BY <1>1, <1>3 DEF QueueFits, BlocksOf, FirstBlocks
<1>5. IsFiniteSet(busy) /\ Cardinality(busy) \in Nat
  <2>1. IsFiniteSet(1..MaxHeight) /\ busy \in SUBSET (1..MaxHeight)
    BY FS_Interval
  <2>2. IsFiniteSet(busy)
    BY <2>1, FS_Subset
  <2> QED
    BY <2>2, FS_CardinalityType
<1>6. f \in Surjection(W, B) /\ f \in Injection(W, B)
  <2>1. f \in [W -> B] /\ \A b \in B : \E i \in W : f[i] = b
    BY <1>3
  <2>2. \A i, j \in W : f[i] = f[j] => i = j
    BY <1>1 DEF QueueFits
  <2> HIDE DEF f, B, W
  <2> QED
    BY <2>1, <2>2 DEF Surjection, Injection, IsInjective
<1>7. IsFiniteSet(B) /\ Cardinality(B) = Cardinality(W)
  BY <1>2, <1>6, FS_Surjection
<1>8. busy \cap B = {}
  BY <1>4 DEF QueueFits
<1>9. Cardinality(busy \cup B) = Cardinality(busy) + Cardinality(B)
  <2>1. Cardinality(busy \cap B) = 0
    BY <1>8, FS_EmptySet
  <2>2. Cardinality(busy \cup B) = Cardinality(busy) + Cardinality(B) - Cardinality(busy \cap B)
    BY <1>5, <1>7, FS_Union
  <2> QED
    BY <1>2, <1>5, <1>7, <2>1, <2>2
<1> QED
  BY <1>2, <1>4, <1>5, <1>7, <1>9 DEF CountsUp

LEMMA PumpEffect ==
  ASSUME NEW q \in Seq(Entry), NEW waiting, NEW busy, waiting \subseteq 1..MaxHeight,
         busy \subseteq 1..MaxHeight, MaxHeight \in Nat, MaxParallel \in Nat \ {0},
         QueueFits(q, waiting, busy), Pump(q, waiting, busy)
  PROVE  LET n == Popped(q, busy, have')
         IN  /\ n \in 0..Len(q)
             /\ queue' \in Seq(Entry)
             /\ \A i \in DOMAIN queue' : \E j \in DOMAIN q : queue'[i] = q[j]
             /\ queued' \subseteq 1..MaxHeight /\ inflight' \subseteq 1..MaxHeight
             /\ inflight' = busy \cup Booked(q, n, have')
             /\ QueueInv'
<1> PICK n : n = Popped(q, busy, have')
  OBVIOUS
<1> DEFINE W(m) == WantedIn(q, have', m)
<1>1. /\ n \in 0..Len(q) /\ Len(q) \in Nat
      /\ n = Len(q) \/ FilledBy(q, busy, have', n)
      /\ \A m \in 0..(n - 1) : ~FilledBy(q, busy, have', m)
  BY PopsUntilFull
<1>2. /\ queue' = SubSeq(q, n + 1, Len(q))
      /\ queued' = waiting \ {q[i].block : i \in 1..n}
      /\ inflight' = busy \cup Booked(q, n, have')
  BY DEF Pump
<1>3. /\ Len(queue') = Len(q) - n /\ DOMAIN queue' = 1..(Len(q) - n)
      /\ \A i \in 1..(Len(q) - n) : queue'[i] = q[i + n] /\ i + n \in DOMAIN q
  BY <1>1, <1>2
<1>4. queue' \in Seq(Entry)
  <2>1. n + 1 \in Int /\ Len(q) \in Int /\ \A i \in (n + 1)..Len(q) : i \in 1..Len(q)
    BY <1>1
  <2>2. \A i \in 1..Len(q) : q[i] \in Entry
    BY Elements
  <2>3. SubSeq(q, n + 1, Len(q)) \in Seq(Entry)
    BY <2>1, <2>2, SubSeqProperties
  <2> QED
    BY <1>2, <2>3
<1>5. \A m \in 0..Len(q) :
        /\ IsFiniteSet(W(m)) /\ Cardinality(W(m)) \in Nat
        /\ Booked(q, m, have') \subseteq waiting
        /\ Booked(q, m, have') \subseteq FirstBlocks(q, m)
        /\ IsFiniteSet(busy) /\ Cardinality(busy) \in Nat
        /\ CountsUp(q, busy, have', m)
  BY BookedCount
<1>6. inflight' \subseteq 1..MaxHeight /\ queued' \subseteq 1..MaxHeight
  BY <1>1, <1>2, <1>5
<1>7. Cardinality(inflight') = Cardinality(busy) + Cardinality(W(n))
      /\ Cardinality(inflight') \in Nat /\ Cardinality(W(n)) \in Nat
  <2>1. Cardinality(inflight') = Cardinality(busy) + Cardinality(W(n))
    BY <1>1, <1>2, <1>5 DEF CountsUp
  <2> HIDE DEF W
  <2> QED
    BY <1>1, <1>5, <2>1
<1>8. Cardinality(inflight') <= MaxParallel
  <2>1. CASE n = 0
    <3>1. W(n) = {}
      BY <2>1 DEF WantedIn
    <3>2. Cardinality(W(n)) = 0
      BY <3>1, FS_EmptySet
    <3> HIDE DEF W
    <3>3. Cardinality(busy) \in Nat
      BY <1>1, <1>5
    <3> QED
      BY <1>7, <3>2, <3>3 DEF QueueFits
  <2>2. CASE n # 0
    <3>1. n - 1 \in 0..(n - 1) /\ n - 1 \in 0..Len(q)
      BY <1>1, <2>2
    <3>2. Cardinality(busy) + Cardinality(W(n - 1)) < MaxParallel
      <4>1. ~FilledBy(q, busy, have', n - 1)
        BY <1>1, <3>1
      <4>2. ~(Cardinality(busy) + Cardinality(W(n - 1)) >= MaxParallel)
        BY <4>1 DEF FilledBy
      <4>3. Cardinality(busy) \in Nat /\ Cardinality(W(n - 1)) \in Nat
        BY <1>5, <3>1
      <4> HIDE DEF W
      <4> QED
        BY <4>2, <4>3
    <3>3. W(n) \in SUBSET (W(n - 1) \cup {n})
      BY <1>1, <2>2 DEF WantedIn
    <3>4. IsFiniteSet(W(n - 1)) /\ Cardinality(W(n - 1)) \in Nat /\ Cardinality(busy) \in Nat
      BY <1>5, <3>1
    <3>5. /\ IsFiniteSet(W(n - 1) \cup {n})
          /\ Cardinality(W(n - 1) \cup {n}) \in {Cardinality(W(n - 1)), Cardinality(W(n - 1)) + 1}
      BY <3>4, FS_AddElement
    <3>6. Cardinality(W(n)) <= Cardinality(W(n - 1) \cup {n})
      BY <3>3, <3>5, FS_Subset
    <3> HIDE DEF W
    <3> QED
      BY <1>7, <3>2, <3>4, <3>5, <3>6
  <2> QED
    BY <2>1, <2>2
<1>9. queue' # << >> => Cardinality(inflight') = MaxParallel
  <2> SUFFICES ASSUME queue' # << >> PROVE Cardinality(inflight') = MaxParallel
    OBVIOUS
  <2>1. n # Len(q)
    BY <1>1, <1>2
  <2>2. Cardinality(busy) + Cardinality(W(n)) >= MaxParallel
    BY <1>1, <2>1 DEF FilledBy
  <2> HIDE DEF W
  <2> QED
    BY <1>7, <1>8, <2>2
<1>10. \A i, j \in DOMAIN queue' : queue'[i].block = queue'[j].block => i = j
  <2> SUFFICES ASSUME NEW i \in DOMAIN queue', NEW j \in DOMAIN queue',
                      queue'[i].block = queue'[j].block
               PROVE  i = j
    OBVIOUS
  <2>1. i + n = j + n
    BY <1>3 DEF QueueFits
  <2> QED
    BY <1>1, <1>3, <2>1
<1>11. queued' = {queue'[i].block : i \in DOMAIN queue'}
  <2>1. ASSUME NEW h \in queued' PROVE \E i \in DOMAIN queue' : queue'[i].block = h
    <3>1. PICK j \in DOMAIN q : q[j].block = h
      BY <1>2, <2>1 DEF QueueFits, BlocksOf
    <3>2. j \notin 1..n /\ j \in 1..Len(q)
      BY <1>2, <2>1, <3>1
    <3>3. j - n \in DOMAIN queue' /\ (j - n) + n = j
      BY <1>1, <1>3, <3>2
    <3> QED
      BY <1>3, <3>1, <3>3
  <2>2. ASSUME NEW i \in DOMAIN queue' PROVE queue'[i].block \in queued'
    <3>1. i + n \in DOMAIN q /\ queue'[i] = q[i + n] /\ i + n \notin 1..n
      BY <1>1, <1>3
    <3>2. q[i + n].block \in waiting
      BY <3>1 DEF QueueFits, BlocksOf
    <3>3. ASSUME NEW j \in 1..n PROVE q[j].block # q[i + n].block
      BY <1>1, <3>1 DEF QueueFits
    <3> QED
      BY <1>2, <3>1, <3>2, <3>3
  <2> QED
    BY <2>1, <2>2
<1>12. queued' \cap inflight' = {}
  <2>1. Booked(q, n, have') \subseteq {q[i].block : i \in 1..n} /\ waiting \cap busy = {}
    BY <1>1, <1>5 DEF QueueFits, FirstBlocks
  <2> QED
    BY <1>2, <2>1
<1>13. QueueInv'
  BY <1>8, <1>9, <1>10, <1>11, <1>12 DEF QueueInv, QueueFits, QueueWaitsForSlot, BlocksOf
<1>14. \A i \in DOMAIN queue' : \E j \in DOMAIN q : queue'[i] = q[j]
  BY <1>3
<1> QED
  BY <1>1, <1>2, <1>4, <1>6, <1>13, <1>14

\* The requests for p are those of its entries, each once.
Asking(r, q, n, blocks, p) ==
  /\ r \in Seq([type : {"getblock"}, height : 1..MaxHeight])
  /\ \A i \in DOMAIN r : \E j \in 1..n : q[j].peer = p /\ Wanted(q[j], blocks)
                                       /\ r[i] = GetBlock(q[j].block)
  /\ \A i \in 1..n : q[i].peer = p /\ Wanted(q[i], blocks) => Has(r, GetBlock(q[i].block))
  /\ \A h : Once(r, GetBlock(h))

LEMMA RequestsFor ==
  ASSUME NEW q \in Seq(Entry), NEW n \in 0..Len(q), NEW blocks, NEW p,
         \A i, j \in DOMAIN q : q[i].block = q[j].block => i = j,
         NEW r, r = Requests(q, n, blocks, p)
  PROVE  Asking(r, q, n, blocks, p)
<1> PICK I : I = {i \in 1..n : Wanted(q[i], blocks) /\ q[i].peer = p}
  OBVIOUS
<1>1. I \subseteq DOMAIN q /\ 1..n \subseteq DOMAIN q
  OBVIOUS
<1> PICK mine : mine = AtPositions(q, I)
  OBVIOUS
<1> PICK c : c = Len(mine)
  OBVIOUS
<1>2. mine \in Seq(Entry)
  BY <1>1, PositionsTaken
<1>3. c \in Nat /\ DOMAIN mine = 1..c
  BY <1>2
<1>4. PICK e : Picks(mine, q, I, e)
  BY <1>1, PositionsTaken
<1>5. /\ e \in [1..c -> I]
      /\ \A k \in 1..c : mine[k] = q[e[k]]
      /\ \A k, l \in 1..c : e[k] = e[l] => k = l
      /\ \A i \in I : \E k \in 1..c : e[k] = i
  <2>1. /\ e \in [DOMAIN mine -> I] /\ \A k \in DOMAIN mine : mine[k] = q[e[k]]
        /\ \A k, l \in DOMAIN mine : e[k] = e[l] => k = l
        /\ \A i \in I : \E k \in DOMAIN mine : e[k] = i
    BY <1>4, Zenon DEF Picks
  <2>2. DOMAIN mine = 1..c
    BY <1>3
  <2>3. e \in [1..c -> I]
    BY <2>1, <2>2
  <2>4. ASSUME NEW k \in 1..c
        PROVE  mine[k] = q[e[k]] /\ \A l \in 1..c : e[k] = e[l] => k = l
    <3>1. k \in DOMAIN mine /\ \A l \in 1..c : l \in DOMAIN mine
      BY <2>2
    <3> QED
      BY <2>1, <3>1, Zenon
  <2>5. \A i \in I : \E k \in 1..c : e[k] = i
    BY <2>1, <2>2
  <2> QED
    BY <2>3, <2>4, <2>5, Zenon
<1>6. r = [i \in 1..Len(mine) |-> [type |-> "getblock", height |-> mine[i].block]]
  BY DEF Requests
<1>7. Len(mine) = c /\ \A k \in 1..c : mine[k] = q[e[k]]
  BY <1>5
<1>8. r = [k \in 1..c |-> GetBlock(q[e[k]].block)]
  BY <1>6, <1>7 DEF GetBlock
<1>9. \A k \in 1..c : e[k] \in 1..n /\ e[k] \in DOMAIN q /\ q[e[k]] \in Entry
                      /\ q[e[k]].peer = p /\ Wanted(q[e[k]], blocks)
  BY <1>1, <1>5
<1>10. r \in Seq([type : {"getblock"}, height : 1..MaxHeight])
  <2>1. \A k \in 1..c : GetBlock(q[e[k]].block) \in [type : {"getblock"}, height : 1..MaxHeight]
    BY <1>9 DEF GetBlock, Entry
  <2> QED
    BY <1>3, <1>8, <2>1
<1>11. \A h, g : GetBlock(h) = GetBlock(g) => h = g
  BY DEF GetBlock
<1>12. \A h : Once(r, GetBlock(h))
  <2>1. ASSUME NEW h, NEW k \in 1..c, NEW l \in 1..c, r[k] = GetBlock(h), r[l] = GetBlock(h)
        PROVE  k = l
    <3>1. q[e[k]].block = q[e[l]].block
      BY <1>8, <1>11, <2>1
    <3>2. e[k] = e[l]
      BY <1>9, <3>1
    <3> QED
      BY <1>5, <3>2
  <2> QED
    BY <1>8, <2>1 DEF Once
<1>13. ASSUME NEW i \in 1..n, q[i].peer = p, Wanted(q[i], blocks) PROVE Has(r, GetBlock(q[i].block))
  <2>1. PICK k \in 1..c : e[k] = i
    BY <1>5, <1>13
  <2> QED
    BY <1>8, <2>1 DEF Has
<1>14. \A i \in DOMAIN r : \E j \in 1..n : q[j].peer = p /\ Wanted(q[j], blocks)
                                           /\ r[i] = GetBlock(q[j].block)
  BY <1>8, <1>9
<1> QED
  BY <1>10, <1>12, <1>13, <1>14 DEF Asking

\* A batch loses what is known, queued or under way, and stays without repetition.
LEMMA MissingFrom ==
  ASSUME NEW T, NEW batch \in Seq(T), Distinct(batch), NEW new, new = Missing(batch)
  PROVE  /\ new \in Seq(T) /\ Distinct(new)
         /\ \A i \in DOMAIN new : new[i] \notin queued \cup inflight
<1> PICK I : I = {i \in DOMAIN batch : batch[i] \notin have \cup queued \cup inflight}
  OBVIOUS
<1>1. new = AtPositions(batch, I)
  BY DEF Missing
<1>2. I \subseteq DOMAIN batch
  OBVIOUS
<1>3. new \in Seq(T)
  BY <1>1, <1>2, PositionsTaken
<1>4. PICK e : Picks(new, batch, I, e)
  BY <1>1, <1>2, PositionsTaken
<1>5. /\ e \in [DOMAIN new -> I]
      /\ \A k \in DOMAIN new : new[k] = batch[e[k]]
      /\ \A k, l \in DOMAIN new : e[k] = e[l] => k = l
  BY <1>4 DEF Picks
<1>6. \A k \in DOMAIN new : e[k] \in DOMAIN batch /\ batch[e[k]] \in T
                      /\ batch[e[k]] \notin queued \cup inflight
  BY <1>5
<1>7. Distinct(new)
  BY <1>6, <1>5 DEF Distinct
<1> QED
  BY <1>6, <1>3, <1>5, <1>7

-----------------------------------------------------------------------------
(* What is on its way                                                      *)

\* What is sent beside the requests of a pump.
Chatter == [type : {"version"}] \cup [type : {"getheaders"}, height : Nat]

LEMMA ChatterAsksNothing ==
  ASSUME NEW s \in Seq(Chatter)
  PROVE  /\ \A t \in Nat : s \in Seq(Asked(t))
         /\ \A h : ~Has(s, GetBlock(h)) /\ Once(s, GetBlock(h))
<1>1. \A t \in Nat : Chatter \subseteq Asked(t)
  BY DEF Chatter, Asked
<1>2. ASSUME NEW m \in Chatter, NEW h PROVE m # GetBlock(h)
  <2>1. m.type # "getblock"
    BY DEF Chatter
  <2>2. GetBlock(h).type = "getblock"
    BY DEF GetBlock
  <2> QED
    BY <2>1, <2>2
<1>3. \A i \in DOMAIN s : s[i] \in Chatter
  OBVIOUS
<1>4. \A t \in Nat : s \in Seq(Asked(t))
  <2>1. ASSUME NEW t \in Nat PROVE \A i \in 1..Len(s) : s[i] \in Asked(t)
    BY <1>1, <1>3
  <2>2. Len(s) \in Nat /\ s = [i \in 1..Len(s) |-> s[i]]
    OBVIOUS
  <2> QED
    BY <2>1, <2>2
<1> QED
  BY <1>2, <1>3, <1>4 DEF Has, Once

\* Which requests a pump sends to p.
AsksFor(q, busy, p, h) ==
  \E i \in 1..Popped(q, busy, have') :
    q[i].peer = p /\ Wanted(q[i], have') /\ q[i].block = h

LEMMA PumpRequests ==
  ASSUME SyncTyped, NEW q \in Seq(Entry), NEW waiting, NEW busy,
         QueueFits(q, waiting, busy), \A i \in DOMAIN q : Deliverable(q[i]), NEW p \in Peer,
         NEW r, r = Requests(q, Popped(q, busy, have'), have', p)
  PROVE  /\ r \in Seq(Asked(peerTip[p]))
         /\ \A h : Has(r, GetBlock(h)) <=> AsksFor(q, busy, p, h)
         /\ \A h : Once(r, GetBlock(h))
         /\ \A h : AsksFor(q, busy, p, h) => h \in waiting
<1> PICK n : n = Popped(q, busy, have')
  OBVIOUS
<1> PICK blocks : blocks = have'
  OBVIOUS
<1>1. n \in 0..Len(q)
  BY PopsUntilFull
<1>2. \A i, j \in DOMAIN q : q[i].block = q[j].block => i = j
  BY DEF QueueFits
<1>3. r = Requests(q, n, blocks, p)
  OBVIOUS
<1>4. /\ r \in Seq([type : {"getblock"}, height : 1..MaxHeight])
      /\ \A i \in DOMAIN r : \E j \in 1..n : q[j].peer = p /\ Wanted(q[j], blocks)
                                           /\ r[i] = GetBlock(q[j].block)
      /\ \A i \in 1..n : q[i].peer = p /\ Wanted(q[i], blocks)
                           => Has(r, GetBlock(q[i].block))
      /\ \A h : Once(r, GetBlock(h))
  <2>1. Asking(r, q, n, blocks, p)
    BY <1>1, <1>2, <1>3, RequestsFor
  <2> QED
    BY <2>1 DEF Asking
<1>5. \A h, g : GetBlock(h) = GetBlock(g) => h = g
  BY DEF GetBlock
<1>6. \A h : Has(r, GetBlock(h)) <=> AsksFor(q, busy, p, h)
  <2>1. ASSUME NEW h, Has(r, GetBlock(h)) PROVE AsksFor(q, busy, p, h)
    <3>1. PICK i \in DOMAIN r : r[i] = GetBlock(h)
      BY <2>1 DEF Has
    <3>2. PICK j \in 1..n : q[j].peer = p /\ Wanted(q[j], blocks) /\ r[i] = GetBlock(q[j].block)
      BY <1>4
    <3>3. q[j].block = h
      BY <1>5, <3>1, <3>2
    <3> QED
      BY <3>2, <3>3 DEF AsksFor
  <2> QED
    BY <1>4, <2>1 DEF AsksFor
<1>7. \A h : AsksFor(q, busy, p, h) => h \in waiting
  BY <1>1 DEF AsksFor, QueueFits, BlocksOf
<1>8. r \in Seq(Asked(peerTip[p]))
  <2>1. ASSUME NEW i \in DOMAIN r PROVE r[i] \in Asked(peerTip[p])
    <3>1. PICK j \in 1..n : q[j].peer = p /\ Wanted(q[j], blocks) /\ r[i] = GetBlock(q[j].block)
      BY <1>4, <2>1
    <3>2. j \in DOMAIN q /\ q[j] \in Entry
      BY <1>1, <3>1
    <3>3. q[j].block <= peerTip[p] /\ q[j].block \in 1..MaxHeight /\ peerTip[p] \in 0..MaxHeight
      BY <3>1, <3>2 DEF Deliverable, Wanted, Entry, SyncTyped
    <3>4. q[j].block \in 1..peerTip[p]
      BY <3>3, SyncAssumption
    <3> QED
      BY <3>1, <3>4 DEF Asked, GetBlock
  <2>2. Len(r) \in Nat /\ DOMAIN r = 1..Len(r) /\ r = [i \in 1..Len(r) |-> r[i]]
    BY <1>4
  <2> QED
    BY <2>1, <2>2
<1> QED
  BY <1>4, <1>6, <1>7, <1>8

\* The channels to the peers after SendRequests.
LEMMA SendEffect ==
  ASSUME SyncTyped, NEW q \in Seq(Entry), NEW waiting, NEW busy,
         QueueFits(q, waiting, busy), \A i \in DOMAIN q : Deliverable(q[i]),
         NEW p \in sessions, NEW first \in Seq(Chatter), NEW last \in Seq(Chatter),
         SendRequests(q, busy, p, first, last),
         \A r \in Peer, h \in 1..MaxHeight :
           Once(toPeer[r], GetBlock(h)) /\ (Has(toPeer[r], GetBlock(h)) => h \in busy)
  PROVE  /\ DOMAIN toPeer' = Peer
         /\ \A r \in Peer :
              /\ toPeer'[r] \in Seq(Asked(peerTip[r]))
              /\ r \notin sessions => toPeer'[r] = << >>
              /\ \A h \in 1..MaxHeight :
                   /\ Has(toPeer'[r], GetBlock(h))
                        <=> Has(toPeer[r], GetBlock(h)) \/ AsksFor(q, busy, r, h)
                   /\ Once(toPeer'[r], GetBlock(h))
<1> DEFINE Pumped(r) == Requests(q, Popped(q, busy, have'), have', r)
<1>1. toPeer' = [r \in Peer |-> IF r = p THEN toPeer[r] \o first \o Pumped(r) \o last
                                ELSE toPeer[r] \o Pumped(r)]
  BY DEF SendRequests
<1> SUFFICES ASSUME NEW r \in Peer
             PROVE  /\ toPeer'[r] \in Seq(Asked(peerTip[r]))
                    /\ r \notin sessions => toPeer'[r] = << >>
                    /\ \A h \in 1..MaxHeight :
                         /\ Has(toPeer'[r], GetBlock(h))
                              <=> Has(toPeer[r], GetBlock(h)) \/ AsksFor(q, busy, r, h)
                         /\ Once(toPeer'[r], GetBlock(h))
  BY <1>1
<1> PICK s, t, A : s = toPeer[r] /\ t = Pumped(r) /\ A = Asked(peerTip[r])
  OBVIOUS
<1>2. s \in Seq(A) /\ peerTip[r] \in Nat
  BY SyncAssumption DEF SyncTyped
<1>3. /\ t \in Seq(A)
      /\ \A h : Once(t, GetBlock(h)) /\ (Has(t, GetBlock(h)) <=> AsksFor(q, busy, r, h))
      /\ \A h : AsksFor(q, busy, r, h) => h \in waiting
  BY PumpRequests
<1>4. /\ first \in Seq(A) /\ last \in Seq(A)
      /\ \A h : ~Has(first, GetBlock(h)) /\ Once(first, GetBlock(h))
      /\ \A h : ~Has(last, GetBlock(h)) /\ Once(last, GetBlock(h))
  BY <1>2, ChatterAsksNothing
<1>5. \A h \in 1..MaxHeight : /\ Once(s, GetBlock(h))
                              /\ ~(Has(s, GetBlock(h)) /\ Has(t, GetBlock(h)))
  BY <1>3 DEF QueueFits
<1>6. CASE r = p
  <2>1. toPeer'[r] = s \o first \o t \o last /\ s \o first \o t \o last \in Seq(A)
    BY <1>1, <1>2, <1>3, <1>4, <1>6
  <2>2. \A h \in 1..MaxHeight :
          /\ Has(s \o first \o t \o last, GetBlock(h))
               <=> Has(s, GetBlock(h)) \/ Has(t, GetBlock(h))
          /\ Once(s \o first \o t \o last, GetBlock(h))
    BY <1>2, <1>3, <1>4, <1>5, HasAmong
  <2> QED
    BY <1>3, <1>6, <2>1, <2>2
<1>7. CASE r # p
  <2>1. toPeer'[r] = s \o t /\ s \o t \in Seq(A)
    BY <1>1, <1>2, <1>3, <1>7
  <2>2. \A h \in 1..MaxHeight :
          /\ Has(s \o t, GetBlock(h)) <=> Has(s, GetBlock(h)) \/ Has(t, GetBlock(h))
          /\ Once(s \o t, GetBlock(h))
    BY <1>2, <1>3, <1>5, HasConcat
  <2>3. r \notin sessions => s \o t = << >>
    <3> SUFFICES ASSUME r \notin sessions PROVE s \o t = << >>
      OBVIOUS
    <3>1. s = << >>
      BY DEF SyncTyped
    <3>2. t = << >>
      <4> SUFFICES ASSUME t # << >> PROVE FALSE
        OBVIOUS
      <4> PICK n : n = Popped(q, busy, have')
        OBVIOUS
      <4>1. n \in 0..Len(q)
        BY PopsUntilFull
      <4>2. \A i, j \in DOMAIN q : q[i].block = q[j].block => i = j
        BY DEF QueueFits
      <4>3. 1 \in DOMAIN t
        BY <1>3
      <4>4. PICK j \in 1..n : q[j].peer = r /\ Wanted(q[j], have')
        <5>1. Asking(t, q, n, have', r)
          BY <4>1, <4>2, RequestsFor
        <5> QED
          BY <4>3, <5>1 DEF Asking
      <4> QED
        BY <4>1, <4>4 DEF Deliverable, Wanted
    <3> QED
      BY <3>1, <3>2
  <2> QED
    BY <1>3, <2>1, <2>2, <2>3
<1> QED
  BY <1>6, <1>7

\* What is under way once the handler has taken its message, before the pump.
Left(p, h) == Has(toPeer[p], GetBlock(h)) \/ Has(fromPeer'[p], Block(h))
Settled(busy) ==
  /\ \A h \in 1..MaxHeight :
       /\ \A p \in Peer :
            /\ Once(toPeer[p], GetBlock(h)) /\ Once(fromPeer'[p], Block(h))
            /\ ~(Has(toPeer[p], GetBlock(h)) /\ Has(fromPeer'[p], Block(h)))
            /\ Left(p, h) => h \in busy
       /\ \A p, r \in Peer : Left(p, h) /\ Left(r, h) => p = r
  /\ drops = 0 => \A h \in busy : \E p \in Peer : Left(p, h)

\* What a handler that pumps leaves behind.
Handled ==
  /\ DOMAIN toPeer' = Peer
  /\ \A p \in Peer : toPeer'[p] \in Seq(Asked(peerTip[p]))
  /\ \A p \in Peer \ sessions : toPeer'[p] = << >>
  /\ queue' \in Seq(Entry) /\ \A i \in DOMAIN queue' : Deliverable(queue'[i])
  /\ queued' \subseteq 1..MaxHeight /\ inflight' \subseteq 1..MaxHeight
  /\ QueueInv' /\ OneWay' /\ Booking'

\* A pump books what it asks for, and asks one peer for each block.
LEMMA PumpStep ==
  ASSUME SyncTyped, NEW q \in Seq(Entry), NEW waiting, NEW busy,
         waiting \subseteq 1..MaxHeight, busy \subseteq 1..MaxHeight,
         QueueFits(q, waiting, busy), \A i \in DOMAIN q : Deliverable(q[i]),
         NEW p \in sessions, NEW first \in Seq(Chatter), NEW last \in Seq(Chatter),
         Pump(q, waiting, busy), SendRequests(q, busy, p, first, last),
         drops' = drops, Settled(busy)
  PROVE  Handled
<1> DEFINE n == Popped(q, busy, have')
<1>1. /\ n \in 0..Len(q)
      /\ queue' \in Seq(Entry)
      /\ \A i \in DOMAIN queue' : \E j \in DOMAIN q : queue'[i] = q[j]
      /\ queued' \subseteq 1..MaxHeight /\ inflight' \subseteq 1..MaxHeight
      /\ inflight' = busy \cup Booked(q, n, have')
      /\ QueueInv'
  BY SyncAssumption, PumpEffect
<1>2. /\ DOMAIN toPeer' = Peer
      /\ \A r \in Peer :
           /\ toPeer'[r] \in Seq(Asked(peerTip[r]))
           /\ r \notin sessions => toPeer'[r] = << >>
           /\ \A h \in 1..MaxHeight :
                /\ Has(toPeer'[r], GetBlock(h))
                     <=> Has(toPeer[r], GetBlock(h)) \/ AsksFor(q, busy, r, h)
                /\ Once(toPeer'[r], GetBlock(h))
  <2>1. \A r \in Peer, h \in 1..MaxHeight :
          Once(toPeer[r], GetBlock(h)) /\ (Has(toPeer[r], GetBlock(h)) => h \in busy)
    BY DEF Settled, Left
  <2> QED
    BY <2>1, SendEffect
<1>3. ASSUME NEW r \in Peer, NEW h, AsksFor(q, busy, r, h)
      PROVE  h \notin busy /\ h \in inflight'
  <2>1. PICK i \in 1..n : q[i].peer = r /\ Wanted(q[i], have') /\ q[i].block = h
    BY <1>3 DEF AsksFor
  <2>2. h \in Booked(q, n, have')
    BY <2>1 DEF Booked
  <2>3. h \in waiting
    BY <1>1, <2>1 DEF QueueFits, BlocksOf
  <2> HIDE DEF n
  <2> QED
    BY <1>1, <2>2, <2>3 DEF QueueFits
<1>4. ASSUME NEW r \in Peer, NEW s \in Peer, NEW h, AsksFor(q, busy, r, h), AsksFor(q, busy, s, h)
      PROVE  r = s
  <2>1. PICK i \in 1..n : q[i].peer = r /\ q[i].block = h
    BY <1>4 DEF AsksFor
  <2>2. PICK j \in 1..n : q[j].peer = s /\ q[j].block = h
    BY <1>4 DEF AsksFor
  <2> HIDE DEF n
  <2>3. i \in DOMAIN q /\ j \in DOMAIN q
    BY <1>1
  <2>4. \A k, m \in DOMAIN q : q[k].block = q[m].block => k = m
    BY DEF QueueFits
  <2>5. i = j
    BY <2>1, <2>2, <2>3, <2>4
  <2> QED
    BY <2>1, <2>2, <2>5
<1>5. ASSUME NEW h \in Booked(q, n, have') PROVE \E r \in Peer : AsksFor(q, busy, r, h)
  <2>1. PICK i \in 1..n : Wanted(q[i], have') /\ q[i].block = h
    BY DEF Booked
  <2>2. q[i].peer \in sessions /\ sessions \subseteq Peer
    BY <1>1, <2>1 DEF Deliverable, Wanted, SyncTyped
  <2> QED
    BY <2>1, <2>2 DEF AsksFor
<1> HIDE DEF n
<1>6. ASSUME NEW r \in Peer, NEW h \in 1..MaxHeight
      PROVE  Coming(r, h)' <=> Left(r, h) \/ AsksFor(q, busy, r, h)
  BY <1>2 DEF Coming, Left, GetBlock, Block
<1>7. OneWay'
  <2> SUFFICES ASSUME NEW h \in 1..MaxHeight
               PROVE  /\ \A r \in Peer :
                           /\ Once(toPeer'[r], GetBlock(h)) /\ Once(fromPeer'[r], Block(h))
                           /\ ~(Has(toPeer'[r], GetBlock(h)) /\ Has(fromPeer'[r], Block(h)))
                      /\ \A r, s \in Peer : Coming(r, h)' /\ Coming(s, h)' => r = s
    BY DEF OneWay, GetBlock, Block
  <2>1. ASSUME NEW r \in Peer
        PROVE  /\ Once(toPeer'[r], GetBlock(h)) /\ Once(fromPeer'[r], Block(h))
               /\ ~(Has(toPeer'[r], GetBlock(h)) /\ Has(fromPeer'[r], Block(h)))
    BY <1>2, <1>3 DEF Settled, Left
  <2>2. ASSUME NEW r \in Peer, NEW s \in Peer, Coming(r, h)', Coming(s, h)' PROVE r = s
    <3>1. Left(r, h) \/ AsksFor(q, busy, r, h)
      BY <1>6, <2>2
    <3>2. Left(s, h) \/ AsksFor(q, busy, s, h)
      BY <1>6, <2>2
    <3> QED
      BY <1>3, <1>4, <3>1, <3>2 DEF Settled
  <2> QED
    BY <2>1, <2>2
<1>8. Booking'
  <2>1. ASSUME NEW h \in 1..MaxHeight, NEW r \in Peer, Coming(r, h)' PROVE h \in inflight'
    BY <1>1, <1>3, <1>6, <2>1 DEF Settled
  <2>2. ASSUME drops = 0, NEW h \in inflight' PROVE \E r \in Peer : Coming(r, h)'
    <3>1. \E r \in Peer : Left(r, h) \/ AsksFor(q, busy, r, h)
      BY <1>1, <1>5, <2>2 DEF Settled
    <3> QED
      BY <1>1, <1>6, <3>1
  <2> QED
    BY <2>1, <2>2 DEF Booking
<1>9. \A i \in DOMAIN queue' : Deliverable(queue'[i])
  BY <1>1
<1> QED
  BY <1>1, <1>2, <1>7, <1>8, <1>9 DEF Handled

-----------------------------------------------------------------------------
(* The handlers                                                            *)

\* There is a greatest announced height.
LEMMA HighestHeard ==
  ASSUME MaxHeight \in Nat, NEW heights \in [Peer -> 0..MaxHeight \cup {NoHeight}]
  PROVE  /\ BestPeerHeight(heights) \in 0..MaxHeight
         /\ \A p \in Peer : heights[p] <= BestPeerHeight(heights)
<1> DEFINE Heard == {heights[p] : p \in Peer} \cup {0}
           Below == {MaxHeight - h : h \in Heard}
<1>1. Heard \subseteq Int /\ 0 \in Heard /\ \A k \in Heard : k <= MaxHeight
  BY DEF NoHeight
<1>2. \A p \in Peer : heights[p] \in Heard
  OBVIOUS
<1>3. BestPeerHeight(heights) = CHOOSE h \in Heard : \A k \in Heard : k <= h
  BY DEF BestPeerHeight
<1> HIDE DEF Heard
<1>4. \E h \in Heard : \A k \in Heard : k <= h
  <2>1. Below \subseteq Nat /\ MaxHeight - 0 \in Below
    BY <1>1
  <2>2. PICK b \in Below : \A c \in Below : b <= c
    <3> HIDE DEF Below
    <3> QED
      BY <2>1, LeastNumber
  <2>3. PICK h \in Heard : b = MaxHeight - h
    OBVIOUS
  <2>4. ASSUME NEW k \in Heard PROVE k <= h
    <3>1. b <= MaxHeight - k
      BY <2>2
    <3> QED
      BY <1>1, <2>3, <3>1
  <2> QED
    BY <2>4
<1>5. PICK h : h = BestPeerHeight(heights)
  OBVIOUS
<1>6. h \in Heard /\ \A k \in Heard : k <= h
  BY <1>3, <1>4, <1>5
<1>7. h \in Int /\ 0 <= h /\ h <= MaxHeight
  BY <1>1, <1>6
<1>8. h \in 0..MaxHeight
  BY <1>7
<1>9. \A p \in Peer : heights[p] <= h
  BY <1>2, <1>6
<1> QED
  BY <1>5, <1>8, <1>9

LEMMA ApprovalKept ==
  ASSUME MaxHeight \in Nat, approval.height \in Nat,
         peerHeights' \in [Peer -> 0..MaxHeight \cup {NoHeight}],
         have' \subseteq 0..MaxHeight, 0 \in have', UpdateApproval
  PROVE  /\ approval' \in [approved : BOOLEAN, height : Nat]
         /\ WalletOpen(have', approval') => \A p \in Peer : peerHeights'[p] <= Best(have')
<1> PICK local, heard : local = Best(have') /\ heard = BestPeerHeight(peerHeights')
  OBVIOUS
<1> PICK syncing \in BOOLEAN : syncing <=> heard > local \/ queued' # {} \/ inflight' # {}
  OBVIOUS
<1>1. local \in Nat /\ heard \in Nat /\ \A p \in Peer : peerHeights'[p] <= heard
  <2>1. Best(have') \in 0..MaxHeight
    BY BestIsThere
  <2>2. /\ BestPeerHeight(peerHeights') \in 0..MaxHeight
        /\ \A p \in Peer : peerHeights'[p] <= BestPeerHeight(peerHeights')
    BY HighestHeard
  <2> QED
    BY <2>1, <2>2
<1>2. \A p \in Peer : peerHeights'[p] \in Int
  BY DEF NoHeight
<1>3. CASE validated' # {} \/ heard > 0
  <2>1. approval' = SetSyncApproval(~syncing, heard, local)
    BY <1>3 DEF UpdateApproval
  <2>2. CASE syncing
    <3>1. approval' = [approved |-> FALSE,
                       height |-> Larger(approval.height, IF heard = 0 THEN local + 1 ELSE heard)]
      BY <2>1, <2>2 DEF SetSyncApproval
    <3>2. approval'.height \in Nat /\ approval' \in [approved : BOOLEAN, height : Nat]
      BY <1>1, <3>1 DEF Larger
    <3>3. approval'.height <= local => heard <= local
      BY <1>1, <3>1 DEF Larger
    <3> QED
      BY <1>1, <1>2, <3>2, <3>3 DEF WalletOpen
  <2>3. CASE ~syncing
    <3>1. approval' = [approved |-> TRUE, height |-> Larger(local, heard)]
      BY <2>1, <2>3 DEF SetSyncApproval
    <3>2. approval' \in [approved : BOOLEAN, height : Nat]
      BY <1>1, <3>1 DEF Larger
    <3>3. heard <= local
      BY <1>1, <2>3
    <3> QED
      BY <1>1, <1>2, <3>2, <3>3
  <2> QED
    BY <2>2, <2>3
<1>4. CASE ~(validated' # {} \/ heard > 0)
  <2>1. approval' = SetSyncApproval(local > 0, IF local > 0 THEN local ELSE 1, local)
    BY <1>4 DEF UpdateApproval
  <2>2. approval' \in [approved : BOOLEAN, height : Nat]
    BY <1>1, <2>1 DEF SetSyncApproval, Larger
  <2>3. \A p \in Peer : peerHeights'[p] <= local
    BY <1>1, <1>2, <1>4
  <2> QED
    BY <2>2, <2>3
<1> QED
  BY <1>3, <1>4

\* A handler has taken the message m from the channel of p.
Received(p, m) ==
  /\ m = Head(fromPeer[p]) /\ m \in Sent(peerTip[p]) /\ p \in sessions
  /\ DOMAIN fromPeer' = Peer
  /\ \A r \in Peer : /\ fromPeer'[r] \in Seq(Sent(peerTip[r]))
                     /\ r \notin sessions => fromPeer'[r] = << >>
  /\ \A r \in Peer, h \in 1..MaxHeight :
       /\ Once(fromPeer'[r], Block(h))
       /\ Has(fromPeer'[r], Block(h)) => Has(fromPeer[r], Block(h))
       /\ r # p \/ m # Block(h) => (Has(fromPeer[r], Block(h)) => Has(fromPeer'[r], Block(h)))
  /\ \A h \in 1..MaxHeight :
       m = Block(h) => Has(fromPeer[p], Block(h)) /\ ~Has(fromPeer'[p], Block(h))

LEMMA ReceiveEffect ==
  ASSUME SyncTyped, OneWay, NEW p \in Peer, NEW type, Receive(p, type),
         NEW m, m = Head(fromPeer[p])
  PROVE  Received(p, m) /\ m.type = type
<1>1. /\ p \in sessions /\ fromPeer[p] # << >> /\ m.type = type
      /\ fromPeer' = [fromPeer EXCEPT ![p] = Tail(@)]
  BY DEF Receive
<1>2. /\ DOMAIN fromPeer = Peer /\ DOMAIN fromPeer' = Peer
      /\ fromPeer'[p] = Tail(fromPeer[p])
      /\ \A r \in Peer : r # p => fromPeer'[r] = fromPeer[r]
      /\ \A r \in Peer : fromPeer[r] \in Seq(Sent(peerTip[r]))
      /\ \A r \in Peer : r \notin sessions => fromPeer[r] = << >>
  BY <1>1 DEF SyncTyped
<1> PICK S, s : S = Sent(peerTip[p]) /\ s = fromPeer[p]
  OBVIOUS
<1>3. s \in Seq(S) /\ s # << >> /\ m = Head(s)
  BY <1>1, <1>2
<1>4. m \in S /\ Tail(s) \in Seq(S)
  <2>1. Head(s) \in S /\ Tail(s) \in Seq(S)
    BY <1>3, Elements
  <2> QED
    BY <1>3, <2>1
<1>5. ASSUME NEW h \in 1..MaxHeight
      PROVE  /\ Has(Tail(s), Block(h)) => Has(s, Block(h))
             /\ Has(s, Block(h)) => m = Block(h) \/ Has(Tail(s), Block(h))
             /\ Once(Tail(s), Block(h))
             /\ m = Block(h) => ~Has(Tail(s), Block(h)) /\ Has(s, Block(h))
  <2>1. Once(s, Block(h))
    BY DEF OneWay
  <2>2. m = Block(h) => Has(s, Block(h))
    <3>1. 1 \in DOMAIN s /\ s[1] = m
      BY <1>3, Elements
    <3> QED
      BY <3>1 DEF Has
  <2> QED
    BY <1>3, <2>1, <2>2, HasHead
<1>6. \A r \in Peer, h \in 1..MaxHeight : Once(fromPeer[r], Block(h))
  BY DEF OneWay
<1>7. \A r \in Peer : fromPeer'[r] \in Seq(Sent(peerTip[r]))
                      /\ (r \notin sessions => fromPeer'[r] = << >>)
  BY <1>1, <1>2, <1>4
<1>8. \A r \in Peer, h \in 1..MaxHeight :
       /\ Once(fromPeer'[r], Block(h))
       /\ Has(fromPeer'[r], Block(h)) => Has(fromPeer[r], Block(h))
       /\ r # p \/ m # Block(h) => (Has(fromPeer[r], Block(h)) => Has(fromPeer'[r], Block(h)))
  <2> SUFFICES ASSUME NEW r \in Peer, NEW h \in 1..MaxHeight
               PROVE  /\ Once(fromPeer'[r], Block(h))
                      /\ Has(fromPeer'[r], Block(h)) => Has(fromPeer[r], Block(h))
                      /\ r # p \/ m # Block(h)
                           => (Has(fromPeer[r], Block(h)) => Has(fromPeer'[r], Block(h)))
    OBVIOUS
  <2>1. CASE r = p
    BY <1>2, <1>5, <2>1
  <2>2. CASE r # p
    BY <1>2, <1>6, <2>2
  <2> QED
    BY <2>1, <2>2
<1>9. \A h \in 1..MaxHeight :
        m = Block(h) => Has(fromPeer[p], Block(h)) /\ ~Has(fromPeer'[p], Block(h))
  BY <1>2, <1>5
<1> QED
  BY <1>1, <1>2, <1>4, <1>7, <1>8, <1>9 DEF Received

\* What is under way after a message that is no block, and after one that is.
LEMMA SettledOther ==
  ASSUME SyncInv, NEW p \in Peer, NEW m, Received(p, m), m.type # "block"
  PROVE  Settled(inflight)
<1>1. \A h \in 1..MaxHeight : m # Block(h)
  BY DEF Block
<1>2. \A r \in Peer, h \in 1..MaxHeight :
        /\ Once(fromPeer'[r], Block(h))
        /\ Has(fromPeer'[r], Block(h)) <=> Has(fromPeer[r], Block(h))
  BY <1>1 DEF Received
<1>3. \A r \in Peer, h \in 1..MaxHeight : Left(r, h) <=> Coming(r, h)
  BY <1>2 DEF Left, Coming
<1>4. inflight \subseteq 1..MaxHeight
  BY DEF SyncInv, SyncTyped
<1> QED
  BY <1>2, <1>3, <1>4 DEF SyncInv, OneWay, Booking, Settled

LEMMA SettledBlock ==
  ASSUME SyncInv, NEW p \in Peer, NEW h0 \in 1..MaxHeight, Received(p, Block(h0))
  PROVE  h0 \in inflight /\ Settled(inflight \ {h0})
<1>1. \A h \in 1..MaxHeight : h # h0 => Block(h0) # Block(h)
  BY DEF Block
<1>2. \A r \in Peer, h \in 1..MaxHeight :
        /\ Once(fromPeer'[r], Block(h))
        /\ Has(fromPeer'[r], Block(h)) => Has(fromPeer[r], Block(h))
        /\ r # p \/ h # h0 => (Has(fromPeer'[r], Block(h)) <=> Has(fromPeer[r], Block(h)))
  BY <1>1 DEF Received
<1>3. Has(fromPeer[p], Block(h0)) /\ ~Has(fromPeer'[p], Block(h0))
  BY DEF Received
<1>4. /\ \A r \in Peer, h \in 1..MaxHeight : Left(r, h) => Coming(r, h)
      /\ \A r \in Peer, h \in 1..MaxHeight : h # h0 => (Left(r, h) <=> Coming(r, h))
  BY <1>2 DEF Left, Coming
<1>5. Coming(p, h0)
  BY <1>3 DEF Coming
<1>6. ASSUME NEW r \in Peer PROVE ~Left(r, h0)
  <2>1. CASE r = p
    BY <1>3, <2>1 DEF SyncInv, OneWay, Left
  <2>2. CASE r # p
    BY <1>4, <1>5, <2>2 DEF SyncInv, OneWay
  <2> QED
    BY <2>1, <2>2
<1>7. inflight \subseteq 1..MaxHeight
  BY DEF SyncInv, SyncTyped
<1>8. h0 \in inflight
  BY <1>5 DEF SyncInv, Booking
<1>9. ASSUME NEW h \in 1..MaxHeight, NEW r \in Peer
      PROVE  /\ Once(toPeer[r], GetBlock(h)) /\ Once(fromPeer'[r], Block(h))
             /\ ~(Has(toPeer[r], GetBlock(h)) /\ Has(fromPeer'[r], Block(h)))
             /\ Left(r, h) => h \in inflight \ {h0}
  BY <1>2, <1>4, <1>6 DEF SyncInv, OneWay, Booking
<1>10. \A h \in 1..MaxHeight : \A r, s \in Peer : Left(r, h) /\ Left(s, h) => r = s
  BY <1>4 DEF SyncInv, OneWay
<1>11. drops = 0 => \A h \in inflight \ {h0} : \E r \in Peer : Left(r, h)
  BY <1>4, <1>7 DEF SyncInv, Booking
<1> QED
  BY <1>8, <1>9, <1>10, <1>11 DEF Settled

\* A queue with its hashes, as the pump expects them.
Fitting(q, waiting) ==
  /\ q \in Seq(Entry) /\ waiting \subseteq 1..MaxHeight
  /\ QueueFits(q, waiting, inflight)
  /\ \A i \in DOMAIN q : Deliverable(q[i])

Lined(all, new, p) == all = queue \o [i \in 1..Len(new) |-> [block |-> new[i], peer |-> p]]
Awaited(waiting, new) == waiting = queued \cup {new[i] : i \in DOMAIN new}

\* What enqueue_block_download adds keeps the queue in order.
LEMMA EnqueueFits ==
  ASSUME SyncInv, NEW p \in sessions, NEW batch \in Seq(1..peerTip[p]), Distinct(batch),
         NEW new, new = Missing(batch),
         NEW all, Lined(all, new, p), NEW waiting, Awaited(waiting, new)
  PROVE  Fitting(all, waiting)
<1> PICK add : add = [i \in 1..Len(new) |-> [block |-> new[i], peer |-> p]]
  OBVIOUS
<1>1. all = queue \o add /\ waiting = queued \cup {new[i] : i \in DOMAIN new}
  BY DEF Lined, Awaited
<1>2. /\ new \in Seq(1..peerTip[p]) /\ Distinct(new)
      /\ \A i \in DOMAIN new : new[i] \notin queued \cup inflight
  BY MissingFrom
<1>3. /\ Len(new) \in Nat /\ DOMAIN new = 1..Len(new)
      /\ \A i \in DOMAIN new : new[i] \in 1..peerTip[p] /\ new[i] \in 1..MaxHeight
  <2>1. peerTip[p] \in 0..MaxHeight /\ MaxHeight \in Nat
    BY SyncAssumption DEF SyncInv, SyncTyped
  <2>2. 1..peerTip[p] \subseteq 1..MaxHeight
    BY <2>1
  <2>3. Len(new) \in Nat /\ DOMAIN new = 1..Len(new) /\ \A i \in DOMAIN new : new[i] \in 1..peerTip[p]
    BY <1>2, Elements
  <2> QED
    BY <2>2, <2>3
<1>4. /\ queue \in Seq(Entry) /\ \A i \in DOMAIN queue : Deliverable(queue[i])
      /\ \A i, j \in DOMAIN queue : queue[i].block = queue[j].block => i = j
      /\ queued = {queue[i].block : i \in DOMAIN queue} /\ queued \cap inflight = {}
      /\ Cardinality(inflight) <= MaxParallel /\ queued \subseteq 1..MaxHeight /\ p \in Peer
  BY DEF SyncInv, SyncTyped, QueueInv, QueueFits, BlocksOf
<1>5. \A i \in 1..Len(new) : [block |-> new[i], peer |-> p] \in Entry
  BY <1>3, <1>4 DEF Entry
<1>6. add \in Seq(Entry) /\ Len(add) = Len(new) /\ DOMAIN add = DOMAIN new
  BY <1>3, <1>5
<1>7. \A i \in DOMAIN new : add[i].block = new[i] /\ add[i].peer = p
  BY <1>3
<1>8. /\ Len(queue) \in Nat /\ DOMAIN queue = 1..Len(queue)
      /\ DOMAIN all = 1..(Len(queue) + Len(new)) /\ all \in Seq(Entry)
      /\ \A i \in DOMAIN all : all[i] = IF i <= Len(queue) THEN queue[i] ELSE add[i - Len(queue)]
  BY <1>1, <1>3, <1>4, <1>6
<1> PICK l, k : l = Len(queue) /\ k = Len(new)
  OBVIOUS
<1>9. /\ l \in Nat /\ DOMAIN queue = 1..l /\ k \in Nat /\ DOMAIN new = 1..k
      /\ DOMAIN all = 1..(l + k)
      /\ \A i \in 1..(l + k) : all[i] = IF i <= l THEN queue[i] ELSE add[i - l]
  BY <1>3, <1>8
<1>10. ASSUME NEW i \in DOMAIN all
       PROVE  \/ i \in DOMAIN queue /\ all[i] = queue[i]
              \/ i \notin DOMAIN queue /\ \E c \in DOMAIN new : i = c + l /\ all[i] = add[c]
  <2>1. i \in 1..(l + k) /\ all[i] = IF i <= l THEN queue[i] ELSE add[i - l]
    BY <1>9
  <2>2. CASE i <= l
    BY <1>9, <2>1, <2>2
  <2>3. CASE ~(i <= l)
    <3>1. i - l \in 1..k /\ i = (i - l) + l /\ i \notin 1..l
      BY <1>9, <2>1, <2>3
    <3>2. all[i] = add[i - l] /\ i - l \in DOMAIN new /\ i \notin DOMAIN queue
      BY <1>9, <2>1, <2>3, <3>1
    <3> QED
      BY <3>1, <3>2
  <2> QED
    BY <2>2, <2>3
<1>11. ASSUME NEW i \in DOMAIN queue PROVE i \in DOMAIN all /\ all[i] = queue[i]
  BY <1>9
<1>12. ASSUME NEW i \in DOMAIN new
       PROVE  i + l \in DOMAIN all /\ all[i + l] = add[i]
  <2>1. i \in 1..k
    BY <1>9
  <2>2. i + l \in 1..(l + k) /\ ~(i + l <= l) /\ (i + l) - l = i
    BY <1>9, <2>1
  <2> QED
    BY <1>9, <2>2
<1>13. ASSUME NEW i \in DOMAIN all, NEW j \in DOMAIN all, all[i].block = all[j].block
       PROVE  i = j
  <2>1. CASE i \in DOMAIN queue /\ j \in DOMAIN queue
    BY <1>4, <1>10, <1>13, <2>1
  <2>2. CASE i \notin DOMAIN queue /\ j \notin DOMAIN queue
    <3>1. PICK b \in DOMAIN new : i = b + l /\ all[i] = add[b]
      BY <1>10, <2>2
    <3>2. PICK c \in DOMAIN new : j = c + l /\ all[j] = add[c]
      BY <1>10, <2>2
    <3>3. new[b] = new[c]
      BY <1>7, <1>13, <3>1, <3>2
    <3> QED
      BY <1>2, <3>1, <3>2, <3>3 DEF Distinct
  <2>3. ASSUME NEW b \in DOMAIN queue, NEW c \in DOMAIN new PROVE queue[b].block # add[c].block
    BY <1>2, <1>4, <1>7
  <2>4. CASE i \in DOMAIN queue /\ j \notin DOMAIN queue
    <3>1. PICK c \in DOMAIN new : all[j] = add[c]
      BY <1>10, <2>4
    <3>2. all[i] = queue[i]
      BY <1>10, <2>4
    <3>3. queue[i].block # add[c].block
      BY <2>3, <2>4
    <3> QED
      BY <1>13, <3>1, <3>2, <3>3
  <2>5. CASE i \notin DOMAIN queue /\ j \in DOMAIN queue
    <3>1. PICK c \in DOMAIN new : all[i] = add[c]
      BY <1>10, <2>5
    <3>2. all[j] = queue[j]
      BY <1>10, <2>5
    <3>3. queue[j].block # add[c].block
      BY <2>3, <2>5
    <3> QED
      BY <1>13, <3>1, <3>2, <3>3
  <2> QED
    BY <2>1, <2>2, <2>4, <2>5
<1>14. waiting = BlocksOf(all)
  <2>1. ASSUME NEW h \in waiting PROVE h \in BlocksOf(all)
    <3>1. CASE h \in queued
      <4>1. PICK i \in DOMAIN queue : queue[i].block = h
        BY <1>4, <3>1
      <4>2. i \in DOMAIN all /\ all[i].block = h
        BY <1>11, <4>1
      <4> QED
        BY <4>2 DEF BlocksOf
    <3>2. CASE h \in {new[i] : i \in DOMAIN new}
      <4>1. PICK i \in DOMAIN new : new[i] = h
        BY <3>2
      <4>2. i + l \in DOMAIN all /\ all[i + l].block = h
        BY <1>7, <1>12, <4>1
      <4> QED
        BY <4>2 DEF BlocksOf
    <3> QED
      BY <1>1, <2>1, <3>1, <3>2
  <2>2. ASSUME NEW i \in DOMAIN all PROVE all[i].block \in waiting
    BY <1>1, <1>4, <1>7, <1>10
  <2> QED
    BY <2>1, <2>2 DEF BlocksOf
<1>15. waiting \cap inflight = {} /\ waiting \subseteq 1..MaxHeight
  BY <1>1, <1>2, <1>3, <1>4
<1>16. ASSUME NEW i \in DOMAIN all PROVE Deliverable(all[i])
  <2>1. CASE i \in DOMAIN queue
    BY <1>4, <1>10, <2>1
  <2>2. CASE i \notin DOMAIN queue
    BY <1>3, <1>7, <1>10, <2>2 DEF Deliverable
  <2> QED
    BY <2>1, <2>2
<1> QED
  BY <1>4, <1>8, <1>13, <1>14, <1>15, <1>16 DEF Fitting, QueueFits

\* enqueue_block_download, between what a handler takes and what it notes.
LEMMA EnqueueStep ==
  ASSUME SyncInv, NEW p \in sessions, NEW batch \in Seq(1..peerTip[p]), Distinct(batch),
         NEW first \in Seq(Chatter), Enqueue(batch, p, first), drops' = drops, Settled(inflight)
  PROVE  Handled
<1> PICK new : new = Missing(batch)
  OBVIOUS
<1> PICK all : all = queue \o [i \in 1..Len(new) |-> [block |-> new[i], peer |-> p]]
  OBVIOUS
<1> PICK waiting : waiting = queued \cup {new[i] : i \in DOMAIN new}
  OBVIOUS
<1>1. Pump(all, waiting, inflight) /\ SendRequests(all, inflight, p, first, << >>)
  BY DEF Enqueue
<1>2. Fitting(all, waiting)
  <2>1. Lined(all, new, p) /\ Awaited(waiting, new)
    BY DEF Lined, Awaited
  <2> QED
    BY <2>1, EnqueueFits
<1>3. /\ all \in Seq(Entry) /\ waiting \subseteq 1..MaxHeight
      /\ QueueFits(all, waiting, inflight)
      /\ \A i \in DOMAIN all : Deliverable(all[i])
  BY <1>2 DEF Fitting
<1>4. << >> \in Seq(Chatter) /\ inflight \subseteq 1..MaxHeight /\ SyncTyped
  BY DEF SyncInv, SyncTyped
<1> QED
  BY <1>1, <1>3, <1>4, PumpStep

\* A step that leaves the queue and the slots alone.
LEMMA ChannelStep ==
  ASSUME SyncInv, inflight' = inflight,
         \A p \in Peer, h \in 1..MaxHeight :
           /\ Once(toPeer'[p], GetBlock(h)) /\ Once(fromPeer'[p], Block(h))
           /\ ~(Has(toPeer'[p], GetBlock(h)) /\ Has(fromPeer'[p], Block(h)))
           /\ Has(toPeer'[p], GetBlock(h)) \/ Has(fromPeer'[p], Block(h)) => Coming(p, h),
         drops' = 0 =>
           /\ drops = 0
           /\ \A p \in Peer, h \in 1..MaxHeight :
                Coming(p, h) => Has(toPeer'[p], GetBlock(h)) \/ Has(fromPeer'[p], Block(h))
  PROVE  OneWay' /\ Booking'
<1>1. \A p \in Peer, h \in 1..MaxHeight :
        /\ Coming(p, h)' => Coming(p, h)
        /\ drops' = 0 => (Coming(p, h) => Coming(p, h)')
  BY DEF Coming, GetBlock, Block
<1>2. inflight \subseteq 1..MaxHeight
  BY DEF SyncInv, SyncTyped
<1>3. OneWay'
  BY <1>1 DEF SyncInv, OneWay, GetBlock, Block
<1>4. Booking'
  BY <1>1, <1>2 DEF SyncInv, Booking
<1> QED
  BY <1>3, <1>4

\* What p is told beside block requests.
LEMMA ToldChatter ==
  ASSUME SyncInv, NEW p \in sessions, NEW first \in Seq(Chatter),
         toPeer' = [toPeer EXCEPT ![p] = @ \o first]
  PROVE  /\ DOMAIN toPeer' = Peer
         /\ \A r \in Peer : toPeer'[r] \in Seq(Asked(peerTip[r]))
         /\ \A r \in Peer \ sessions : toPeer'[r] = << >>
         /\ \A r \in Peer, h \in 1..MaxHeight :
              /\ Once(toPeer'[r], GetBlock(h))
              /\ Has(toPeer'[r], GetBlock(h)) <=> Has(toPeer[r], GetBlock(h))
<1>1. /\ p \in Peer /\ DOMAIN toPeer = Peer
      /\ \A r \in Peer : toPeer[r] \in Seq(Asked(peerTip[r])) /\ peerTip[r] \in Nat
      /\ \A r \in Peer \ sessions : toPeer[r] = << >>
      /\ \A r \in Peer, h \in 1..MaxHeight : Once(toPeer[r], GetBlock(h))
  BY SyncAssumption DEF SyncInv, SyncTyped, OneWay
<1> PICK s, A : s = toPeer[p] /\ A = Asked(peerTip[p])
  OBVIOUS
<1>2. s \in Seq(A) /\ \A h \in 1..MaxHeight : Once(s, GetBlock(h))
  BY <1>1
<1>3. first \in Seq(A) /\ \A h : ~Has(first, GetBlock(h)) /\ Once(first, GetBlock(h))
  BY <1>1, ChatterAsksNothing
<1>4. s \o first \in Seq(A)
  BY <1>2, <1>3, ConcatProperties
<1>5. \A h \in 1..MaxHeight : /\ Once(s \o first, GetBlock(h))
                              /\ Has(s \o first, GetBlock(h)) <=> Has(s, GetBlock(h))
  BY <1>2, <1>3, HasConcat
<1>6. /\ DOMAIN toPeer' = Peer /\ toPeer'[p] = s \o first
      /\ \A r \in Peer : r # p => toPeer'[r] = toPeer[r]
  BY <1>1
<1> QED
  BY <1>1, <1>4, <1>5, <1>6

\* A message that is no block, answered without asking for one.
LEMMA QuietStep ==
  ASSUME SyncInv, Settled(inflight), inflight' = inflight, drops' = drops,
         \A r \in Peer, h \in 1..MaxHeight :
           /\ Once(toPeer'[r], GetBlock(h))
           /\ Has(toPeer'[r], GetBlock(h)) <=> Has(toPeer[r], GetBlock(h))
  PROVE  OneWay' /\ Booking'
<1>1. \A p \in Peer, h \in 1..MaxHeight : Coming(p, h)' <=> Left(p, h)
  BY DEF Coming, Left, GetBlock, Block
<1>2. inflight \subseteq 1..MaxHeight
  BY DEF SyncInv, SyncTyped
<1>3. OneWay'
  BY <1>1 DEF Settled, OneWay, GetBlock, Block
<1>4. Booking'
  BY <1>1, <1>2 DEF Settled, Booking
<1> QED
  BY <1>3, <1>4

\* What each kind of message carries.
LEMMA MessageKinds ==
  ASSUME NEW t \in Nat, NEW m \in Sent(t)
  PROVE  /\ m.type = "version" => m.height \in 0..t
         /\ m.type = "inv" => m.height \in 1..t
         /\ m.type = "block" => m.height \in 1..t /\ m = Block(m.height)
         /\ m.type = "headers" => m.batch \in Seq(1..t) /\ Distinct(m.batch)
BY DEF Sent, Block

LEMMA HeightNoted ==
  ASSUME SyncTyped, NEW p \in Peer, NEW height \in 0..MaxHeight, NoteHeight(p, height)
  PROVE  peerHeights' \in [Peer -> 0..MaxHeight \cup {NoHeight}]
<1>1. peerHeights \in [Peer -> 0..MaxHeight \cup {NoHeight}]
  BY DEF SyncTyped
<1>2. Larger(peerHeights[p], height) \in 0..MaxHeight \cup {NoHeight}
  BY <1>1 DEF Larger
<1>3. peerHeights' = [peerHeights EXCEPT ![p] = Larger(peerHeights[p], height)]
  BY DEF NoteHeight
<1> QED
  BY <1>1, <1>2, <1>3

LEMMA HeadersAreChatter ==
  ASSUME NEW B, B \subseteq 0..MaxHeight, 0 \in B
  PROVE  GetHeaders(B) \in Seq(Chatter)
<1>1. Best(B) \in Nat
  <2>1. MaxHeight \in Nat
    BY SyncAssumption
  <2>2. Best(B) \in 0..MaxHeight
    BY <2>1, BestIsThere
  <2> QED
    BY <2>2
<1> QED
  BY <1>1 DEF GetHeaders, Chatter

\* The types after a message.
LEMMA TypesAfterReceive ==
  ASSUME SyncTyped, NEW p \in Peer, NEW type, Receive(p, type), NEW m, Received(p, m),
         validated' \subseteq sessions,
         DOMAIN toPeer' = Peer,
         \A r \in Peer : toPeer'[r] \in Seq(Asked(peerTip[r])),
         \A r \in Peer \ sessions : toPeer'[r] = << >>,
         have' \subseteq 0..MaxHeight, 0 \in have',
         peerHeights' \in [Peer -> 0..MaxHeight \cup {NoHeight}],
         queue' \in Seq(Entry), \A i \in DOMAIN queue' : Deliverable(queue'[i]),
         queued' \subseteq 1..MaxHeight, inflight' \subseteq 1..MaxHeight,
         approval' \in [approved : BOOLEAN, height : Nat]
  PROVE  SyncTyped'
<1>1. peerTip' = peerTip /\ sessions' = sessions /\ drops' = drops
  BY DEF Receive
<1>2. /\ DOMAIN fromPeer' = Peer
      /\ \A r \in Peer : fromPeer'[r] \in Seq(Sent(peerTip[r]))
      /\ \A r \in Peer \ sessions : fromPeer'[r] = << >>
  BY DEF Received
<1> QED
  BY <1>1, <1>2 DEF SyncTyped, Deliverable, Asked, Sent, Entry, NoHeight, Distinct

LEMMA VersionStep ==
  ASSUME SyncInv, NEW p \in Peer, ReceiveVersion(p)
  PROVE  SyncInv'
<1> PICK m : m = Head(fromPeer[p])
  OBVIOUS
<1>1. Receive(p, "version") /\ SyncTyped /\ OneWay
  BY DEF ReceiveVersion, SyncInv
<1>2. Received(p, m) /\ m.type = "version"
  BY <1>1, ReceiveEffect
<1>3. /\ p \in sessions /\ m \in Sent(peerTip[p]) /\ peerTip[p] \in 0..MaxHeight
      /\ MaxHeight \in Nat /\ drops' = drops
  BY <1>1, <1>2, SyncAssumption DEF Received, SyncTyped, Receive
<1>4. m.height \in 0..MaxHeight
  <2>1. m.height \in 0..peerTip[p]
    BY <1>2, <1>3, MessageKinds
  <2> QED
    BY <1>3, <2>1
<1>5. /\ have' = have /\ queue' = queue /\ queued' = queued /\ inflight' = inflight
      /\ validated' = validated \cup {p} /\ UpdateApproval /\ NoteHeight(p, m.height)
  BY DEF ReceiveVersion, download
<1>6. have' \subseteq 0..MaxHeight /\ 0 \in have' /\ validated' \subseteq sessions
  BY <1>1, <1>3, <1>5 DEF SyncTyped
<1>7. peerHeights' \in [Peer -> 0..MaxHeight \cup {NoHeight}]
  BY <1>1, <1>4, <1>5, HeightNoted
<1>8. approval' \in [approved : BOOLEAN, height : Nat]
  <2>1. approval.height \in Nat
    BY <1>1 DEF SyncTyped
  <2> QED
    BY <1>3, <1>5, <1>6, <1>7, <2>1, ApprovalKept
<1> PICK first : first = <<[type |-> "version"]>> \o GetHeaders(have)
  OBVIOUS
<1>9. first \in Seq(Chatter)
  <2>1. GetHeaders(have) \in Seq(Chatter)
    BY <1>5, <1>6, HeadersAreChatter
  <2>2. <<[type |-> "version"]>> \in Seq(Chatter)
    BY DEF Chatter
  <2> QED
    BY <2>1, <2>2, ConcatProperties
<1>10. toPeer' = [toPeer EXCEPT ![p] = @ \o first]
  <2>1. toPeer' = [toPeer EXCEPT ![p] = @ \o <<[type |-> "version"]>> \o GetHeaders(have)]
    BY DEF ReceiveVersion
  <2>2. toPeer[p] \o <<[type |-> "version"]>> \o GetHeaders(have) = toPeer[p] \o first
    BY DEF GetHeaders
  <2> QED
    BY <2>1, <2>2
<1>11. /\ DOMAIN toPeer' = Peer
       /\ \A r \in Peer : toPeer'[r] \in Seq(Asked(peerTip[r]))
       /\ \A r \in Peer \ sessions : toPeer'[r] = << >>
       /\ \A r \in Peer, h \in 1..MaxHeight :
            /\ Once(toPeer'[r], GetBlock(h))
            /\ Has(toPeer'[r], GetBlock(h)) <=> Has(toPeer[r], GetBlock(h))
  BY <1>3, <1>9, <1>10, ToldChatter
<1>12. Settled(inflight)
  BY <1>2, SettledOther
<1>13. OneWay' /\ Booking'
  BY <1>3, <1>5, <1>11, <1>12, QuietStep
<1>14. QueueInv'
  BY <1>5 DEF SyncInv, QueueInv, QueueFits, BlocksOf, QueueWaitsForSlot
<1>15. SyncTyped'
  <2>1. /\ queue' \in Seq(Entry) /\ \A i \in DOMAIN queue' : Deliverable(queue'[i])
        /\ queued' \subseteq 1..MaxHeight /\ inflight' \subseteq 1..MaxHeight
    BY <1>1, <1>5 DEF SyncTyped
  <2> QED
    BY <1>1, <1>2, <1>6, <1>7, <1>8, <1>11, <2>1, TypesAfterReceive
<1> QED
  BY <1>13, <1>14, <1>15 DEF SyncInv

LEMMA HeadersStep ==
  ASSUME SyncInv, NEW p \in Peer, ReceiveHeaders(p)
  PROVE  SyncInv'
<1> PICK m : m = Head(fromPeer[p])
  OBVIOUS
<1>1. Receive(p, "headers") /\ SyncTyped /\ OneWay
  BY DEF ReceiveHeaders, SyncInv
<1>2. Received(p, m) /\ m.type = "headers"
  BY <1>1, ReceiveEffect
<1>3. /\ p \in sessions /\ m \in Sent(peerTip[p]) /\ peerTip[p] \in 0..MaxHeight
      /\ MaxHeight \in Nat /\ drops' = drops
  BY <1>1, <1>2, SyncAssumption DEF Received, SyncTyped, Receive
<1> PICK batch : batch = m.batch
  OBVIOUS
<1>4. batch \in Seq(1..peerTip[p]) /\ Distinct(batch)
  BY <1>2, <1>3, MessageKinds
<1>5. /\ have' = have /\ validated' = validated /\ approval' = approval
      /\ validated' \subseteq sessions
      /\ have' \subseteq 0..MaxHeight /\ 0 \in have'
      /\ approval' \in [approved : BOOLEAN, height : Nat]
  BY <1>1 DEF ReceiveHeaders, SyncTyped
<1>6. Settled(inflight)
  BY <1>2, SettledOther
<1>7. CASE batch # << >> /\ Enqueue(batch, p, << >>) /\ NoteHeight(p, InferredHeight(batch))
  <2>1. << >> \in Seq(Chatter)
    OBVIOUS
  <2>2. Handled
    BY <1>3, <1>4, <1>6, <1>7, <2>1, EnqueueStep
  <2>3. InferredHeight(batch) \in 0..MaxHeight
    <3>1. Len(batch) \in DOMAIN batch
      BY <1>4, <1>7
    <3>2. batch[Len(batch)] \in 1..peerTip[p]
      BY <1>4, <3>1, Elements
    <3> QED
      BY <1>3, <3>2 DEF InferredHeight
  <2>4. peerHeights' \in [Peer -> 0..MaxHeight \cup {NoHeight}]
    BY <1>1, <1>7, <2>3, HeightNoted
  <2>5. SyncTyped'
    <3>1. /\ DOMAIN toPeer' = Peer
          /\ \A r \in Peer : toPeer'[r] \in Seq(Asked(peerTip[r]))
          /\ \A r \in Peer \ sessions : toPeer'[r] = << >>
          /\ queue' \in Seq(Entry) /\ \A i \in DOMAIN queue' : Deliverable(queue'[i])
          /\ queued' \subseteq 1..MaxHeight /\ inflight' \subseteq 1..MaxHeight
      BY <2>2 DEF Handled
    <3> QED
      BY <1>1, <1>2, <1>5, <2>4, <3>1, TypesAfterReceive
  <2> QED
    BY <2>2, <2>5 DEF SyncInv, Handled
<1>8. CASE /\ UNCHANGED <<peerHeights, download>>
           /\ toPeer' = [toPeer EXCEPT ![p] =
                           IF ContinueSync(p) THEN @ \o GetHeaders(have) ELSE @]
  <2>1. /\ peerHeights' = peerHeights /\ queue' = queue /\ queued' = queued
        /\ inflight' = inflight
    BY <1>8 DEF download
  <2>2. /\ DOMAIN toPeer' = Peer
        /\ \A r \in Peer : toPeer'[r] \in Seq(Asked(peerTip[r]))
        /\ \A r \in Peer \ sessions : toPeer'[r] = << >>
        /\ \A r \in Peer, h \in 1..MaxHeight :
             /\ Once(toPeer'[r], GetBlock(h))
             /\ Has(toPeer'[r], GetBlock(h)) <=> Has(toPeer[r], GetBlock(h))
    <3>1. CASE ContinueSync(p)
      <4>1. GetHeaders(have) \in Seq(Chatter)
        BY <1>5, HeadersAreChatter
      <4>2. toPeer' = [toPeer EXCEPT ![p] = @ \o GetHeaders(have)]
        BY <1>8, <3>1
      <4> QED
        BY <1>3, <4>1, <4>2, ToldChatter
    <3>2. CASE ~ContinueSync(p)
      <4>1. DOMAIN toPeer' = Peer /\ \A r \in Peer : toPeer'[r] = toPeer[r]
        BY <1>1, <1>8, <3>2 DEF SyncTyped
      <4> QED
        BY <1>1, <4>1 DEF SyncTyped, OneWay
    <3> QED
      BY <3>1, <3>2
  <2>3. OneWay' /\ Booking'
    BY <1>3, <1>6, <2>1, <2>2, QuietStep
  <2>4. QueueInv'
    BY <2>1 DEF SyncInv, QueueInv, QueueFits, BlocksOf, QueueWaitsForSlot
  <2>5. SyncTyped'
    <3>1. /\ queue' \in Seq(Entry) /\ \A i \in DOMAIN queue' : Deliverable(queue'[i])
          /\ queued' \subseteq 1..MaxHeight /\ inflight' \subseteq 1..MaxHeight
          /\ peerHeights' \in [Peer -> 0..MaxHeight \cup {NoHeight}]
      BY <1>1, <2>1 DEF SyncTyped
    <3> QED
      BY <1>1, <1>2, <1>5, <2>2, <3>1, TypesAfterReceive
  <2> QED
    BY <2>3, <2>4, <2>5 DEF SyncInv
<1> QED
  BY <1>7, <1>8 DEF ReceiveHeaders

LEMMA InvStep ==
  ASSUME SyncInv, NEW p \in Peer, ReceiveInv(p)
  PROVE  SyncInv'
<1> PICK m : m = Head(fromPeer[p])
  OBVIOUS
<1>1. Receive(p, "inv") /\ SyncTyped /\ OneWay
  BY DEF ReceiveInv, SyncInv
<1>2. Received(p, m) /\ m.type = "inv"
  BY <1>1, ReceiveEffect
<1>3. /\ p \in sessions /\ m \in Sent(peerTip[p]) /\ peerTip[p] \in 0..MaxHeight
      /\ MaxHeight \in Nat /\ drops' = drops
  BY <1>1, <1>2, SyncAssumption DEF Received, SyncTyped, Receive
<1> PICK h : h = m.height
  OBVIOUS
<1>4. h \in 1..peerTip[p]
  BY <1>2, <1>3, MessageKinds
<1>5. /\ have' = have /\ validated' = validated /\ approval' = approval
      /\ peerHeights' = peerHeights /\ validated' \subseteq sessions
      /\ have' \subseteq 0..MaxHeight /\ 0 \in have'
      /\ approval' \in [approved : BOOLEAN, height : Nat]
      /\ peerHeights' \in [Peer -> 0..MaxHeight \cup {NoHeight}]
  BY <1>1 DEF ReceiveInv, SyncTyped
<1>6. Settled(inflight)
  BY <1>2, SettledOther
<1>7. CASE h \notin have
  <2>1. GetHeaders(have) \in Seq(Chatter)
    BY <1>5, HeadersAreChatter
  <2>2. <<h>> \in Seq(1..peerTip[p]) /\ Distinct(<<h>>)
    BY <1>4 DEF Distinct
  <2>3. Enqueue(<<h>>, p, GetHeaders(have))
    BY <1>7 DEF ReceiveInv
  <2>4. Handled
    BY <1>3, <1>6, <2>1, <2>2, <2>3, EnqueueStep
  <2>5. SyncTyped'
    <3>1. /\ DOMAIN toPeer' = Peer
          /\ \A r \in Peer : toPeer'[r] \in Seq(Asked(peerTip[r]))
          /\ \A r \in Peer \ sessions : toPeer'[r] = << >>
          /\ queue' \in Seq(Entry) /\ \A i \in DOMAIN queue' : Deliverable(queue'[i])
          /\ queued' \subseteq 1..MaxHeight /\ inflight' \subseteq 1..MaxHeight
      BY <2>4 DEF Handled
    <3> QED
      BY <1>1, <1>2, <1>5, <3>1, TypesAfterReceive
  <2> QED
    BY <2>4, <2>5 DEF SyncInv, Handled
<1>8. CASE h \in have
  <2>1. toPeer' = toPeer /\ queue' = queue /\ queued' = queued /\ inflight' = inflight
    BY <1>8 DEF ReceiveInv, download
  <2>2. \A r \in Peer, g \in 1..MaxHeight :
          /\ Once(toPeer'[r], GetBlock(g))
          /\ Has(toPeer'[r], GetBlock(g)) <=> Has(toPeer[r], GetBlock(g))
    BY <1>1, <2>1 DEF OneWay
  <2>3. OneWay' /\ Booking'
    BY <1>3, <1>6, <2>1, <2>2, QuietStep
  <2>4. QueueInv'
    BY <2>1 DEF SyncInv, QueueInv, QueueFits, BlocksOf, QueueWaitsForSlot
  <2>5. SyncTyped'
    <3>1. /\ DOMAIN toPeer' = Peer
          /\ \A r \in Peer : toPeer'[r] \in Seq(Asked(peerTip[r]))
          /\ \A r \in Peer \ sessions : toPeer'[r] = << >>
          /\ queue' \in Seq(Entry) /\ \A i \in DOMAIN queue' : Deliverable(queue'[i])
          /\ queued' \subseteq 1..MaxHeight /\ inflight' \subseteq 1..MaxHeight
      BY <1>1, <2>1 DEF SyncTyped
    <3> QED
      BY <1>1, <1>2, <1>5, <3>1, TypesAfterReceive
  <2> QED
    BY <2>3, <2>4, <2>5 DEF SyncInv
<1> QED
  BY <1>7, <1>8

LEMMA BlockStep ==
  ASSUME SyncInv, NEW p \in Peer, ReceiveBlock(p)
  PROVE  SyncInv'
<1> PICK m : m = Head(fromPeer[p])
  OBVIOUS
<1>1. Receive(p, "block") /\ SyncTyped /\ OneWay /\ QueueInv
  BY DEF ReceiveBlock, SyncInv
<1>2. Received(p, m) /\ m.type = "block"
  BY <1>1, ReceiveEffect
<1>3. /\ p \in sessions /\ m \in Sent(peerTip[p]) /\ peerTip[p] \in 0..MaxHeight
      /\ MaxHeight \in Nat /\ drops' = drops
  BY <1>1, <1>2, SyncAssumption DEF Received, SyncTyped, Receive
<1> PICK h, busy : h = m.height /\ busy = Finished(h)
  OBVIOUS
<1>4. h \in 1..peerTip[p] /\ m = Block(h)
  BY <1>2, <1>3, MessageKinds
<1>5. h \in 1..MaxHeight
  BY <1>3, <1>4
<1>6. h \in inflight /\ Settled(busy) /\ busy = inflight \ {h}
  BY <1>2, <1>4, <1>5, SettledBlock DEF Finished
<1>7. have' = have \cup {h} /\ validated' = validated /\ UpdateApproval
  BY DEF ReceiveBlock
<1>8. have' \subseteq 0..MaxHeight /\ 0 \in have' /\ validated' \subseteq sessions
  <2>1. have \subseteq 0..MaxHeight /\ 0 \in have /\ validated \subseteq sessions
    BY <1>1 DEF SyncTyped
  <2>2. h \in 0..MaxHeight
    BY <1>5
  <2> QED
    BY <1>7, <2>1, <2>2
<1>9. peerHeights' \in [Peer -> 0..MaxHeight \cup {NoHeight}]
  <2>1. NoteHeight(p, h) \/ peerHeights' = peerHeights
    BY DEF ReceiveBlock
  <2>2. h \in 0..MaxHeight
    BY <1>5
  <2> QED
    BY <1>1, <2>1, <2>2, HeightNoted DEF SyncTyped
<1>10. approval' \in [approved : BOOLEAN, height : Nat]
  <2>1. approval.height \in Nat
    BY <1>1 DEF SyncTyped
  <2> QED
    BY <1>3, <1>7, <1>8, <1>9, <2>1, ApprovalKept
<1> PICK last : last = (IF Best(have') = Best(have) THEN GetHeaders(have') ELSE << >>)
                         \o (IF ContinueSync(p) THEN GetHeaders(have') ELSE << >>)
  OBVIOUS
<1>11. last \in Seq(Chatter)
  <2>1. GetHeaders(have') \in Seq(Chatter)
    BY <1>8, HeadersAreChatter
  <2> QED
    BY <2>1, ConcatProperties
<1>12. queued \ {h} = queued
  BY <1>1, <1>6 DEF QueueInv, QueueFits
<1>13. Pump(queue, queued, busy) /\ SendRequests(queue, busy, p, << >>, last)
  BY <1>12 DEF ReceiveBlock
<1>14. QueueFits(queue, queued, busy)
  <2>1. IsFiniteSet(inflight) /\ Cardinality(inflight) <= MaxParallel
    <3>1. IsFiniteSet(1..MaxHeight) /\ inflight \subseteq 1..MaxHeight
      BY <1>1, <1>3, FS_Interval DEF SyncTyped
    <3> QED
      BY <1>1, <3>1, FS_Subset DEF QueueInv, QueueFits
  <2>2. Cardinality(busy) <= Cardinality(inflight) /\ Cardinality(busy) \in Nat
        /\ Cardinality(inflight) \in Nat
    BY <1>6, <2>1, FS_Subset, FS_CardinalityType
  <2>3. Cardinality(busy) <= MaxParallel
    BY <2>1, <2>2, SyncAssumption
  <2> QED
    BY <1>1, <1>6, <2>3 DEF QueueInv, QueueFits
<1>15. Handled
  <2>1. /\ queue \in Seq(Entry) /\ \A i \in DOMAIN queue : Deliverable(queue[i])
        /\ queued \subseteq 1..MaxHeight /\ inflight \subseteq 1..MaxHeight
    BY <1>1 DEF SyncTyped
  <2>2. << >> \in Seq(Chatter) /\ busy \subseteq 1..MaxHeight
    BY <1>6, <2>1
  <2> QED
    BY <1>1, <1>3, <1>6, <1>11, <1>13, <1>14, <2>1, <2>2, PumpStep
<1>16. SyncTyped'
  <2>1. /\ DOMAIN toPeer' = Peer
        /\ \A r \in Peer : toPeer'[r] \in Seq(Asked(peerTip[r]))
        /\ \A r \in Peer \ sessions : toPeer'[r] = << >>
        /\ queue' \in Seq(Entry) /\ \A i \in DOMAIN queue' : Deliverable(queue'[i])
        /\ queued' \subseteq 1..MaxHeight /\ inflight' \subseteq 1..MaxHeight
    BY <1>15 DEF Handled
  <2> QED
    BY <1>1, <1>2, <1>8, <1>9, <1>10, <2>1, TypesAfterReceive
<1> QED
  BY <1>15, <1>16 DEF SyncInv, Handled

-----------------------------------------------------------------------------
(* Sessions, the timer and the peers                                       *)

LEMMA ConnectStep ==
  ASSUME SyncInv, NEW p \in Peer, Connect(p)
  PROVE  SyncInv'
<1>1. /\ p \notin sessions /\ sessions' = sessions \cup {p}
      /\ toPeer' = [toPeer EXCEPT ![p] = <<[type |-> "version"]>>]
      /\ peerTip' = peerTip /\ validated' = validated /\ fromPeer' = fromPeer /\ have' = have
      /\ peerHeights' = peerHeights /\ queue' = queue /\ queued' = queued
      /\ inflight' = inflight /\ drops' = drops /\ UpdateApproval
  BY DEF Connect, download
<1>2. SyncTyped /\ MaxHeight \in Nat
  BY SyncAssumption DEF SyncInv
<1> PICK v : v = <<[type |-> "version"]>>
  OBVIOUS
<1>3. \A r \in Peer : v \in Seq(Asked(peerTip[r]))
  BY DEF Asked
<1>4. \A h : ~Has(v, GetBlock(h)) /\ Once(v, GetBlock(h))
  BY DEF Has, Once, GetBlock
<1>5. /\ DOMAIN toPeer' = Peer /\ toPeer'[p] = v
      /\ \A r \in Peer : r # p => toPeer'[r] = toPeer[r]
      /\ toPeer[p] = << >> /\ fromPeer[p] = << >>
  BY <1>1, <1>2 DEF SyncTyped
<1>6. \A h : ~Has(toPeer[p], GetBlock(h)) /\ ~Has(fromPeer[p], Block(h))
  BY <1>5 DEF Has
<1>7. OneWay' /\ Booking'
  <2>1. \A r \in Peer, h \in 1..MaxHeight :
          /\ Once(toPeer'[r], GetBlock(h))
          /\ Has(toPeer'[r], GetBlock(h)) <=> Has(toPeer[r], GetBlock(h))
    BY <1>4, <1>5, <1>6 DEF SyncInv, OneWay
  <2>2. \A r \in Peer, h \in 1..MaxHeight :
          /\ Once(fromPeer'[r], Block(h))
          /\ Has(fromPeer'[r], Block(h)) <=> Has(fromPeer[r], Block(h))
          /\ ~(Has(toPeer[r], GetBlock(h)) /\ Has(fromPeer[r], Block(h)))
    BY <1>1 DEF SyncInv, OneWay
  <2> QED
    BY <1>1, <2>1, <2>2, ChannelStep DEF Coming
<1>8. QueueInv'
  BY <1>1 DEF SyncInv, QueueInv, QueueFits, BlocksOf, QueueWaitsForSlot
<1>9. approval' \in [approved : BOOLEAN, height : Nat]
  <2>1. /\ approval.height \in Nat
        /\ peerHeights' \in [Peer -> 0..MaxHeight \cup {NoHeight}]
        /\ have' \subseteq 0..MaxHeight /\ 0 \in have'
    BY <1>1, <1>2 DEF SyncTyped
  <2> QED
    BY <1>1, <1>2, <2>1, ApprovalKept
<1>10. SyncTyped'
  <2>1. \A r \in Peer : toPeer'[r] \in Seq(Asked(peerTip[r]))
    BY <1>2, <1>3, <1>5 DEF SyncTyped
  <2>2. \A r \in Peer \ sessions' : toPeer'[r] = << >> /\ fromPeer'[r] = << >>
    BY <1>1, <1>2, <1>5 DEF SyncTyped
  <2>3. (\A i \in DOMAIN queue : Deliverable(queue[i]))'
    BY <1>1, <1>2 DEF SyncTyped, Deliverable
  <2>4. sessions' \subseteq Peer /\ validated' \subseteq sessions'
    BY <1>1, <1>2 DEF SyncTyped
  <2> QED
    BY <1>1, <1>2, <1>5, <1>9, <2>1, <2>2, <2>3, <2>4
    DEF SyncTyped, Asked, Sent, Entry, NoHeight, Distinct, Deliverable
<1> QED
  BY <1>7, <1>8, <1>10 DEF SyncInv

LEMMA RemoveStep ==
  ASSUME SyncInv, NEW p \in Peer, RemoveSession(p)
  PROVE  SyncInv'
<1>1. /\ drops' = drops + 1 /\ sessions' = sessions \ {p} /\ validated' = validated \ {p}
      /\ toPeer' = [toPeer EXCEPT ![p] = << >>] /\ fromPeer' = [fromPeer EXCEPT ![p] = << >>]
      /\ peerHeights' = [peerHeights EXCEPT ![p] = NoHeight]
      /\ queue' = [i \in DOMAIN queue |->
                     IF queue[i].peer = p THEN [queue[i] EXCEPT !.peer = NoPeer] ELSE queue[i]]
      /\ peerTip' = peerTip /\ have' = have /\ queued' = queued /\ inflight' = inflight
      /\ UpdateApproval
  BY DEF RemoveSession, ForgetSession
<1>2. SyncTyped /\ MaxHeight \in Nat
  BY SyncAssumption DEF SyncInv
<1>3. /\ DOMAIN toPeer' = Peer /\ toPeer'[p] = << >>
      /\ \A r \in Peer : r # p => toPeer'[r] = toPeer[r]
      /\ DOMAIN fromPeer' = Peer /\ fromPeer'[p] = << >>
      /\ \A r \in Peer : r # p => fromPeer'[r] = fromPeer[r]
  BY <1>1, <1>2 DEF SyncTyped
<1>4. /\ queue \in Seq(Entry) /\ Len(queue) \in Nat /\ DOMAIN queue = 1..Len(queue)
      /\ \A i \in DOMAIN queue : queue[i] \in Entry /\ Deliverable(queue[i])
  <2>1. queue \in Seq(Entry) /\ \A i \in DOMAIN queue : Deliverable(queue[i])
    BY <1>2 DEF SyncTyped
  <2> QED
    BY <2>1, Elements
<1>5. ASSUME NEW i \in DOMAIN queue
      PROVE  /\ queue'[i] \in Entry /\ queue'[i].block = queue[i].block
             /\ queue'[i].peer # NoPeer => queue'[i] = queue[i] /\ queue[i].peer # p
  BY <1>1, <1>4, SyncAssumption DEF Entry
<1>6. queue' \in Seq(Entry) /\ DOMAIN queue' = DOMAIN queue
  BY <1>1, <1>4, <1>5
<1>7. OneWay' /\ Booking'
  <2>1. \A h : ~Has(<< >>, h) /\ Once(<< >>, h)
    BY DEF Has, Once
  <2>2. \A r \in Peer, h \in 1..MaxHeight :
          /\ Once(toPeer'[r], GetBlock(h)) /\ Once(fromPeer'[r], Block(h))
          /\ ~(Has(toPeer'[r], GetBlock(h)) /\ Has(fromPeer'[r], Block(h)))
          /\ Has(toPeer'[r], GetBlock(h)) => Has(toPeer[r], GetBlock(h))
          /\ Has(fromPeer'[r], Block(h)) => Has(fromPeer[r], Block(h))
    BY <1>3, <2>1 DEF SyncInv, OneWay
  <2>3. drops' # 0
    BY <1>1, <1>2 DEF SyncTyped
  <2> QED
    BY <1>1, <2>2, <2>3, ChannelStep DEF Coming
<1>8. QueueInv'
  <2>1. BlocksOf(queue') = BlocksOf(queue)
    BY <1>5, <1>6 DEF BlocksOf
  <2>2. queue # << >> <=> queue' # << >>
    BY <1>4, <1>6
  <2>3. \A i, j \in DOMAIN queue' : queue'[i].block = queue'[j].block => i = j
    BY <1>5, <1>6 DEF SyncInv, QueueInv, QueueFits
  <2> QED
    BY <1>1, <2>1, <2>2, <2>3 DEF SyncInv, QueueInv, QueueFits, BlocksOf, QueueWaitsForSlot
<1>9. peerHeights' \in [Peer -> 0..MaxHeight \cup {NoHeight}]
  BY <1>1, <1>2 DEF SyncTyped
<1>10. approval' \in [approved : BOOLEAN, height : Nat]
  <2>1. /\ approval.height \in Nat /\ have' \subseteq 0..MaxHeight /\ 0 \in have'
    BY <1>1, <1>2 DEF SyncTyped
  <2> QED
    BY <1>1, <1>2, <1>9, <2>1, ApprovalKept
<1>11. SyncTyped'
  <2>1. \A r \in Peer : /\ toPeer'[r] \in Seq(Asked(peerTip[r]))
                        /\ fromPeer'[r] \in Seq(Sent(peerTip[r]))
    <3>1. << >> \in Seq(Asked(peerTip[p])) /\ << >> \in Seq(Sent(peerTip[p]))
      OBVIOUS
    <3> QED
      BY <1>2, <1>3, <3>1 DEF SyncTyped
  <2>2. \A r \in Peer \ sessions' : toPeer'[r] = << >> /\ fromPeer'[r] = << >>
    BY <1>1, <1>2, <1>3 DEF SyncTyped
  <2>3. (\A i \in DOMAIN queue : Deliverable(queue[i]))'
    BY <1>1, <1>4, <1>5, <1>6 DEF Deliverable
  <2>4. sessions' \subseteq Peer /\ validated' \subseteq sessions' /\ drops' \in Nat
    BY <1>1, <1>2 DEF SyncTyped
  <2> QED
    BY <1>1, <1>2, <1>3, <1>6, <1>9, <1>10, <2>1, <2>2, <2>3, <2>4
    DEF SyncTyped, Asked, Sent, Entry, NoHeight, Distinct, Deliverable
<1> QED
  BY <1>7, <1>8, <1>11 DEF SyncInv

LEMMA MaintainStep ==
  ASSUME SyncInv, Maintain
  PROVE  SyncInv'
<1>1. /\ peerTip' = peerTip /\ sessions' = sessions /\ validated' = validated
      /\ toPeer' = toPeer /\ fromPeer' = fromPeer /\ have' = have
      /\ peerHeights' = peerHeights /\ queue' = queue /\ queued' = queued
      /\ inflight' = inflight /\ drops' = drops /\ UpdateApproval
  BY DEF Maintain, channels, download
<1>2. approval' \in [approved : BOOLEAN, height : Nat]
  <2>1. /\ approval.height \in Nat /\ MaxHeight \in Nat
        /\ peerHeights' \in [Peer -> 0..MaxHeight \cup {NoHeight}]
        /\ have' \subseteq 0..MaxHeight /\ 0 \in have'
    BY <1>1, SyncAssumption DEF SyncInv, SyncTyped
  <2> QED
    BY <1>1, <2>1, ApprovalKept
<1>3. SyncTyped'
  BY <1>1, <1>2 DEF SyncInv, SyncTyped, Asked, Sent, Entry, NoHeight, Distinct, Deliverable
<1>4. QueueInv'
  BY <1>1 DEF SyncInv, QueueInv, QueueFits, BlocksOf, QueueWaitsForSlot
<1>5. OneWay' /\ Booking'
  BY <1>1 DEF SyncInv, OneWay, Booking, Coming, GetBlock, Block
<1> QED
  BY <1>3, <1>4, <1>5 DEF SyncInv

\* A header batch lists blocks of the peer's chain, each once.
LEMMA BatchInChain ==
  ASSUME NEW t \in Nat, NEW height \in Nat
  PROVE  Batch(t, height) \in Seq(1..t) /\ Distinct(Batch(t, height))
<1> PICK start : start = Smaller(height, t)
  OBVIOUS
<1> PICK n : n = Smaller(MaxHeaders, t - start)
  OBVIOUS
<1>1. start \in 0..t
  BY DEF Smaller
<1>2. n \in 0..(t - start)
  BY <1>1, SyncAssumption DEF Smaller
<1>3. Batch(t, height) = [i \in 1..n |-> start + i]
  BY DEF Batch
<1>4. \A i \in 1..n : start + i \in 1..t
  BY <1>1, <1>2
<1>5. n \in Nat
  BY <1>1, <1>2
<1>6. \A i, j \in 1..n : start + i = start + j => i = j
  BY <1>1
<1> PICK b : b = [i \in 1..n |-> start + i]
  OBVIOUS
<1>7. b \in Seq(1..t)
  <2> PICK C : C = 1..t
    OBVIOUS
  <2>1. \A i \in 1..n : start + i \in C
    BY <1>4
  <2>2. b \in Seq(C)
    BY <1>5, <2>1
  <2> QED
    BY <2>2
<1>8. Distinct(b)
  BY <1>6 DEF Distinct
<1> QED
  BY <1>3, <1>7, <1>8

\* A peer answers a GETBLOCK, and only that, by the block.
Answers(a, t, request) ==
  /\ a \in Seq(Sent(t))
  /\ \A h : Has(a, Block(h)) <=> request = GetBlock(h)
  /\ \A h : Once(a, Block(h))

LEMMA AnswerGiven ==
  ASSUME NEW p, peerTip[p] \in Nat, NEW request \in Asked(peerTip[p])
  PROVE  Answers(Answer(p, request), peerTip[p], request)
<1> PICK t, a : t = peerTip[p] /\ a = Answer(p, request)
  OBVIOUS
<1>1. CASE request.type = "version"
  <2>1. a = <<[type |-> "version", height |-> t]>>
    BY <1>1 DEF Answer
  <2>2. [type |-> "version", height |-> t] \in Sent(t)
    BY DEF Sent
  <2>3. \A h : [type |-> "version", height |-> t] # Block(h) /\ request # GetBlock(h)
    BY <1>1 DEF Block, GetBlock
  <2> QED
    BY <2>1, <2>2, <2>3 DEF Answers, Has, Once
<1>2. CASE request.type = "getheaders"
  <2>1. a = <<[type |-> "headers", batch |-> Batch(t, request.height)]>>
    BY <1>2 DEF Answer
  <2>2. request.height \in Nat
    BY <1>2 DEF Asked
  <2>3. Batch(t, request.height) \in {b \in Seq(1..t) : Distinct(b)}
    BY <2>2, BatchInChain
  <2>4. [type |-> "headers", batch |-> Batch(t, request.height)] \in Sent(t)
    BY <2>3 DEF Sent
  <2>5. \A h : /\ [type |-> "headers", batch |-> Batch(t, request.height)] # Block(h)
               /\ request # GetBlock(h)
    BY <1>2 DEF Block, GetBlock
  <2> QED
    BY <2>1, <2>4, <2>5 DEF Answers, Has, Once
<1>3. CASE request.type = "getblock"
  <2>1. request.height \in 1..t /\ request = GetBlock(request.height)
    BY <1>3 DEF Asked, GetBlock
  <2>2. a = <<Block(request.height)>>
    <3>1. request.height <= peerTip[p]
      BY <2>1
    <3> QED
      BY <1>3, <3>1 DEF Answer, Block
  <2>3. Block(request.height) \in Sent(t)
    BY <2>1 DEF Sent, Block
  <2>4. \A h, g : (Block(h) = Block(g) <=> h = g) /\ (GetBlock(h) = GetBlock(g) <=> h = g)
    BY DEF Block, GetBlock
  <2>5. \A h : Has(a, Block(h)) <=> request = GetBlock(h)
    BY <2>1, <2>2, <2>4 DEF Has
  <2> QED
    BY <2>2, <2>3, <2>5 DEF Answers, Once
<1> QED
  BY <1>1, <1>2, <1>3 DEF Asked

LEMMA ServeStep ==
  ASSUME SyncInv, NEW p \in Peer, Serve(p)
  PROVE  SyncInv'
<1>1. /\ p \in sessions /\ toPeer[p] # << >>
      /\ toPeer' = [toPeer EXCEPT ![p] = Tail(@)]
      /\ fromPeer' = [fromPeer EXCEPT ![p] = @ \o Answer(p, Head(toPeer[p]))]
      /\ peerTip' = peerTip /\ sessions' = sessions /\ validated' = validated /\ have' = have
      /\ peerHeights' = peerHeights /\ queue' = queue /\ queued' = queued
      /\ inflight' = inflight /\ approval' = approval /\ drops' = drops
  BY DEF Serve, download
<1>2. /\ SyncTyped /\ peerTip[p] \in Nat /\ DOMAIN toPeer = Peer /\ DOMAIN fromPeer = Peer
      /\ toPeer[p] \in Seq(Asked(peerTip[p])) /\ fromPeer[p] \in Seq(Sent(peerTip[p]))
  BY SyncAssumption DEF SyncInv, SyncTyped
<1> PICK s, f, A, S : s = toPeer[p] /\ f = fromPeer[p] /\ A = Asked(peerTip[p]) /\ S = Sent(peerTip[p])
  OBVIOUS
<1> PICK request, a : request = Head(s) /\ a = Answer(p, request)
  OBVIOUS
<1>3. s \in Seq(A) /\ s # << >> /\ f \in Seq(S)
  BY <1>1, <1>2
<1>4. request \in A /\ Tail(s) \in Seq(A)
  <2>1. Head(s) \in A /\ Tail(s) \in Seq(A)
    BY <1>3, Elements
  <2> QED
    BY <2>1
<1>5. a \in Seq(S) /\ \A h : (Has(a, Block(h)) <=> request = GetBlock(h)) /\ Once(a, Block(h))
  <2>1. Answers(a, peerTip[p], request)
    BY <1>2, <1>4, AnswerGiven
  <2> QED
    BY <2>1 DEF Answers
<1>6. f \o a \in Seq(S)
  BY <1>3, <1>5, ConcatProperties
<1>7. /\ DOMAIN toPeer' = Peer /\ toPeer'[p] = Tail(s)
      /\ \A r \in Peer : r # p => toPeer'[r] = toPeer[r]
      /\ DOMAIN fromPeer' = Peer /\ fromPeer'[p] = f \o a
      /\ \A r \in Peer : r # p => fromPeer'[r] = fromPeer[r]
  BY <1>1, <1>2
<1>8. ASSUME NEW h \in 1..MaxHeight
      PROVE  /\ Once(Tail(s), GetBlock(h)) /\ Once(f \o a, Block(h))
             /\ ~(Has(Tail(s), GetBlock(h)) /\ Has(f \o a, Block(h)))
             /\ Has(Tail(s), GetBlock(h)) \/ Has(f \o a, Block(h))
                  <=> Has(s, GetBlock(h)) \/ Has(f, Block(h))
  <2>1. Once(s, GetBlock(h)) /\ Once(f, Block(h)) /\ ~(Has(s, GetBlock(h)) /\ Has(f, Block(h)))
    BY DEF SyncInv, OneWay
  <2>2. /\ Has(Tail(s), GetBlock(h)) => Has(s, GetBlock(h))
        /\ Has(s, GetBlock(h)) => request = GetBlock(h) \/ Has(Tail(s), GetBlock(h))
        /\ Once(Tail(s), GetBlock(h))
        /\ request = GetBlock(h) => ~Has(Tail(s), GetBlock(h))
    BY <1>3, <2>1, HasHead
  <2>3. request = GetBlock(h) => Has(s, GetBlock(h))
    <3>1. 1 \in DOMAIN s /\ s[1] = request
      BY <1>3, Elements
    <3> QED
      BY <3>1 DEF Has
  <2>4. /\ Has(f \o a, Block(h)) <=> Has(f, Block(h)) \/ request = GetBlock(h)
        /\ Once(f \o a, Block(h))
    BY <1>3, <1>5, <2>1, <2>3, HasConcat
  <2> QED
    BY <2>1, <2>2, <2>3, <2>4
<1>9. \A r \in Peer, h \in 1..MaxHeight :
        /\ Once(toPeer'[r], GetBlock(h)) /\ Once(fromPeer'[r], Block(h))
        /\ ~(Has(toPeer'[r], GetBlock(h)) /\ Has(fromPeer'[r], Block(h)))
        /\ Has(toPeer'[r], GetBlock(h)) \/ Has(fromPeer'[r], Block(h)) <=> Coming(r, h)
  <2> SUFFICES ASSUME NEW r \in Peer, NEW h \in 1..MaxHeight
               PROVE  /\ Once(toPeer'[r], GetBlock(h)) /\ Once(fromPeer'[r], Block(h))
                      /\ ~(Has(toPeer'[r], GetBlock(h)) /\ Has(fromPeer'[r], Block(h)))
                      /\ Has(toPeer'[r], GetBlock(h)) \/ Has(fromPeer'[r], Block(h))
                           <=> Coming(r, h)
    OBVIOUS
  <2>1. CASE r = p
    BY <1>7, <1>8, <2>1 DEF Coming
  <2>2. CASE r # p
    BY <1>7, <2>2 DEF SyncInv, OneWay, Coming
  <2> QED
    BY <2>1, <2>2
<1>10. OneWay' /\ Booking'
  BY <1>1, <1>9, ChannelStep
<1>11. QueueInv'
  BY <1>1 DEF SyncInv, QueueInv, QueueFits, BlocksOf, QueueWaitsForSlot
<1>12. SyncTyped'
  <2>1. \A r \in Peer : /\ toPeer'[r] \in Seq(Asked(peerTip[r]))
                        /\ fromPeer'[r] \in Seq(Sent(peerTip[r]))
    BY <1>2, <1>4, <1>6, <1>7 DEF SyncTyped
  <2>2. \A r \in Peer \ sessions : toPeer'[r] = << >> /\ fromPeer'[r] = << >>
    BY <1>1, <1>2, <1>7 DEF SyncTyped
  <2>3. (\A i \in DOMAIN queue : Deliverable(queue[i]))'
    BY <1>1, <1>2 DEF SyncTyped, Deliverable
  <2> QED
    BY <1>1, <1>2, <1>7, <2>1, <2>2, <2>3
    DEF SyncTyped, Asked, Sent, Entry, NoHeight, Distinct, Deliverable
<1> QED
  BY <1>10, <1>11, <1>12 DEF SyncInv

LEMMA GrowStep ==
  ASSUME SyncInv, NEW p \in Peer, Grow(p)
  PROVE  SyncInv'
<1>1. /\ peerTip[p] < MaxHeight /\ peerTip' = [peerTip EXCEPT ![p] = @ + 1]
      /\ fromPeer' = IF p \in sessions
                     THEN [fromPeer EXCEPT ![p] =
                             Append(@, [type |-> "inv", height |-> peerTip[p] + 1])]
                     ELSE fromPeer
      /\ sessions' = sessions /\ validated' = validated /\ toPeer' = toPeer /\ have' = have
      /\ peerHeights' = peerHeights /\ queue' = queue /\ queued' = queued
      /\ inflight' = inflight /\ approval' = approval /\ drops' = drops
  BY DEF Grow, download
<1>2. /\ SyncTyped /\ MaxHeight \in Nat /\ peerTip \in [Peer -> 0..MaxHeight]
      /\ DOMAIN toPeer = Peer /\ DOMAIN fromPeer = Peer
  BY SyncAssumption DEF SyncInv, SyncTyped
<1>3. /\ peerTip' \in [Peer -> 0..MaxHeight] /\ peerTip'[p] = peerTip[p] + 1
      /\ \A r \in Peer : r # p => peerTip'[r] = peerTip[r]
  BY <1>1, <1>2
<1> PICK inv : inv = [type |-> "inv", height |-> peerTip[p] + 1]
  OBVIOUS
<1>4. inv \in Sent(peerTip'[p]) /\ \A h : inv # Block(h)
  BY <1>2, <1>3 DEF Sent, Block
<1>5. ASSUME NEW t \in Nat
      PROVE  Asked(t) \subseteq Asked(t + 1) /\ Sent(t) \subseteq Sent(t + 1)
  <2>1. 1..t \subseteq 1..(t + 1) /\ 0..t \subseteq 0..(t + 1)
    OBVIOUS
  <2>2. Seq(1..t) \subseteq Seq(1..(t + 1))
    BY <2>1
  <2> QED
    BY <2>1, <2>2 DEF Asked, Sent
<1>6. \A r \in Peer : /\ toPeer[r] \in Seq(Asked(peerTip'[r]))
                      /\ fromPeer[r] \in Seq(Sent(peerTip'[r]))
  <2>1. \A r \in Peer : toPeer[r] \in Seq(Asked(peerTip[r])) /\ fromPeer[r] \in Seq(Sent(peerTip[r]))
    BY <1>2 DEF SyncTyped
  <2>2. /\ Seq(Asked(peerTip[p])) \subseteq Seq(Asked(peerTip'[p]))
        /\ Seq(Sent(peerTip[p])) \subseteq Seq(Sent(peerTip'[p]))
    BY <1>2, <1>3, <1>5
  <2> QED
    BY <1>3, <2>1, <2>2
<1>7. \A r \in Peer : fromPeer'[r] = fromPeer[r]
                      \/ (r = p /\ p \in sessions /\ fromPeer'[r] = fromPeer[r] \o <<inv>>)
  <2>1. fromPeer[p] \in Seq(Sent(peerTip'[p]))
    BY <1>6
  <2>2. Append(fromPeer[p], inv) = fromPeer[p] \o <<inv>>
    BY <2>1
  <2> QED
    BY <1>1, <1>2, <2>2
<1>8. /\ fromPeer[p] \o <<inv>> \in Seq(Sent(peerTip'[p]))
      /\ \A h \in 1..MaxHeight :
           /\ Once(fromPeer[p] \o <<inv>>, Block(h))
           /\ Has(fromPeer[p] \o <<inv>>, Block(h)) <=> Has(fromPeer[p], Block(h))
  <2> PICK f, S : f = fromPeer[p] /\ S = Sent(peerTip'[p])
    OBVIOUS
  <2>1. f \in Seq(S) /\ <<inv>> \in Seq(S)
    BY <1>4, <1>6
  <2>2. f \o <<inv>> \in Seq(S)
    BY <2>1, ConcatProperties
  <2>3. ASSUME NEW h \in 1..MaxHeight
        PROVE  /\ Once(f \o <<inv>>, Block(h))
               /\ Has(f \o <<inv>>, Block(h)) <=> Has(f, Block(h))
    <3>1. Once(f, Block(h))
      BY DEF SyncInv, OneWay
    <3>2. ~Has(<<inv>>, Block(h)) /\ Once(<<inv>>, Block(h))
      BY <1>4, HasOne
    <3> QED
      BY <2>1, <3>1, <3>2, HasConcat
  <2> QED
    BY <2>2, <2>3
<1>9. DOMAIN fromPeer' = Peer
  BY <1>1, <1>2
<1>10. OneWay' /\ Booking'
  <2>1. \A r \in Peer, h \in 1..MaxHeight :
          /\ Once(fromPeer'[r], Block(h))
          /\ Has(fromPeer'[r], Block(h)) <=> Has(fromPeer[r], Block(h))
    BY <1>7, <1>8 DEF SyncInv, OneWay
  <2>2. \A r \in Peer, h \in 1..MaxHeight :
          /\ Once(toPeer[r], GetBlock(h))
          /\ ~(Has(toPeer[r], GetBlock(h)) /\ Has(fromPeer[r], Block(h)))
    BY DEF SyncInv, OneWay
  <2> QED
    BY <1>1, <2>1, <2>2, ChannelStep DEF Coming
<1>11. QueueInv'
  BY <1>1 DEF SyncInv, QueueInv, QueueFits, BlocksOf, QueueWaitsForSlot
<1>12. SyncTyped'
  <2>1. \A r \in Peer : /\ toPeer'[r] \in Seq(Asked(peerTip'[r]))
                        /\ fromPeer'[r] \in Seq(Sent(peerTip'[r]))
    BY <1>1, <1>6, <1>7, <1>8
  <2>2. \A r \in Peer \ sessions : toPeer'[r] = << >> /\ fromPeer'[r] = << >>
    BY <1>1, <1>2, <1>7 DEF SyncTyped
  <2>3. (\A i \in DOMAIN queue : Deliverable(queue[i]))'
    <3>1. queue \in Seq(Entry) /\ sessions \subseteq Peer
          /\ \A i \in DOMAIN queue : Deliverable(queue[i]) /\ queue[i] \in Entry
      BY <1>2, Elements DEF SyncTyped
    <3>2. \A r \in Peer, b \in 1..MaxHeight : b <= peerTip[r] => b <= peerTip'[r]
      BY <1>2, <1>3
    <3> QED
      BY <1>1, <3>1, <3>2 DEF Deliverable, Entry
  <2> QED
    BY <1>1, <1>2, <1>3, <1>9, <2>1, <2>2, <2>3
    DEF SyncTyped, Entry, NoHeight
<1> QED
  BY <1>10, <1>11, <1>12 DEF SyncInv

-----------------------------------------------------------------------------
(* The theorems                                                            *)

LEMMA SyncStart == Init => SyncInv
<1> SUFFICES ASSUME Init PROVE SyncInv
  OBVIOUS
<1>1. SyncTyped
  <2>1. 0 \in 0..MaxHeight /\ approval \in [approved : BOOLEAN, height : Nat]
    BY SyncAssumption DEF Init
  <2> QED
    BY <2>1 DEF Init, SyncTyped
<1>2. QueueInv
  <2>1. Cardinality(inflight) = 0 /\ queue = << >> /\ DOMAIN queue = {} /\ queued = {}
    BY FS_EmptySet DEF Init
  <2>2. 0 <= MaxParallel
    BY SyncAssumption
  <2> QED
    BY <2>1, <2>2 DEF QueueInv, QueueFits, QueueWaitsForSlot, BlocksOf
<1>3. OneWay /\ Booking
  <2>1. \A m : \A p \in Peer : ~Has(toPeer[p], m) /\ ~Has(fromPeer[p], m)
                               /\ Once(toPeer[p], m) /\ Once(fromPeer[p], m)
    BY DEF Init, Has, Once
  <2>2. inflight = {}
    BY DEF Init
  <2> QED
    BY <2>1, <2>2 DEF OneWay, Booking, Coming
<1> QED
  BY <1>1, <1>2, <1>3 DEF SyncInv

LEMMA SyncStep == SyncInv /\ [Next]_vars => SyncInv'
<1> SUFFICES ASSUME SyncInv, [Next]_vars PROVE SyncInv'
  OBVIOUS
<1>1. ASSUME NEW p \in Peer, Handle(p) PROVE SyncInv'
  BY <1>1, VersionStep, HeadersStep, BlockStep, InvStep DEF Handle
<1>2. ASSUME NEW p \in Peer, Serve(p) \/ Grow(p) \/ Connect(p) \/ RemoveSession(p)
      PROVE  SyncInv'
  BY <1>2, ServeStep, GrowStep, ConnectStep, RemoveStep
<1>3. CASE Maintain
  BY <1>3, MaintainStep
<1>4. CASE UNCHANGED vars
  <2>1. /\ peerTip' = peerTip /\ sessions' = sessions /\ validated' = validated
        /\ toPeer' = toPeer /\ fromPeer' = fromPeer /\ have' = have
        /\ peerHeights' = peerHeights /\ queue' = queue /\ queued' = queued
        /\ inflight' = inflight /\ approval' = approval /\ drops' = drops
    BY <1>4 DEF vars, channels, download
  <2>2. SyncTyped'
    BY <2>1 DEF SyncInv, SyncTyped, Asked, Sent, Entry, NoHeight, Distinct, Deliverable
  <2>3. QueueInv'
    BY <2>1 DEF SyncInv, QueueInv, QueueFits, BlocksOf, QueueWaitsForSlot
  <2>4. OneWay' /\ Booking'
    BY <2>1 DEF SyncInv, OneWay, Booking, Coming, GetBlock, Block
  <2> QED
    BY <2>2, <2>4, <2>3 DEF SyncInv
<1> QED
  BY <1>1, <1>2, <1>3, <1>4 DEF Next

\* The inductive invariant of the block download.
THEOREM SyncInvariance == Spec => []SyncInv
BY SyncStart, SyncStep, PTL DEF Spec

\* The channels are functions, whatever is sent.
Channels ==
  /\ toPeer = [p \in Peer |-> toPeer[p]]
  /\ fromPeer = [p \in Peer |-> fromPeer[p]]

LEMMA ChannelsKept == Channels /\ [Next]_vars => Channels'
<1> SUFFICES ASSUME Channels, [Next]_vars PROVE Channels'
  OBVIOUS
<1>1. ASSUME NEW p \in Peer, Handle(p) PROVE Channels'
  <2>1. fromPeer' = [fromPeer EXCEPT ![p] = Tail(@)]
    BY <1>1 DEF Handle, ReceiveVersion, ReceiveHeaders, ReceiveBlock, ReceiveInv, Receive
  <2>2. CASE ReceiveVersion(p)
    BY <2>1, <2>2 DEF ReceiveVersion, Channels
  <2>3. CASE ReceiveHeaders(p)
    BY <2>1, <2>3 DEF ReceiveHeaders, Enqueue, SendRequests, Channels
  <2>4. CASE ReceiveBlock(p)
    BY <2>1, <2>4 DEF ReceiveBlock, SendRequests, Channels
  <2>5. CASE ReceiveInv(p)
    BY <2>1, <2>5 DEF ReceiveInv, Enqueue, SendRequests, Channels
  <2> QED
    BY <1>1, <2>2, <2>3, <2>4, <2>5 DEF Handle
<1>2. ASSUME NEW p \in Peer, Serve(p) \/ Grow(p) \/ Connect(p) \/ RemoveSession(p)
      PROVE  Channels'
  BY <1>2 DEF Channels, Serve, Grow, Connect, RemoveSession, ForgetSession
<1>3. CASE Maintain \/ UNCHANGED vars
  BY <1>3 DEF Channels, Maintain, vars, channels
<1> QED
  BY <1>1, <1>2, <1>3 DEF Next

LEMMA TypesAreKept == SyncTyped /\ Channels => TypeOK
<1> SUFFICES ASSUME SyncTyped, Channels PROVE TypeOK
  OBVIOUS
<1>1. ASSUME NEW p \in Peer
      PROVE  toPeer[p] \in Seq(Request) /\ fromPeer[p] \in Seq(Message)
  <2>1. peerTip[p] \in Nat /\ toPeer[p] \in Seq(Asked(peerTip[p]))
        /\ fromPeer[p] \in Seq(Sent(peerTip[p]))
    BY SyncAssumption DEF SyncTyped
  <2>2. ASSUME NEW t \in Nat PROVE Asked(t) \subseteq Request /\ Sent(t) \subseteq Message
    <3>1. 1..t \subseteq Nat /\ 0..t \subseteq Nat /\ Seq(1..t) \subseteq Seq(Nat)
      OBVIOUS
    <3> QED
      BY <3>1 DEF Asked, Sent, Request, Message
  <2>3. /\ Seq(Asked(peerTip[p])) \subseteq Seq(Request)
        /\ Seq(Sent(peerTip[p])) \subseteq Seq(Message)
    BY <2>1, <2>2
  <2> QED
    BY <2>1, <2>3
<1>2. MaxHeight \in Nat
  BY SyncAssumption
<1>3. toPeer \in [Peer -> Seq(Request)] /\ fromPeer \in [Peer -> Seq(Message)]
  BY <1>1 DEF Channels
<1>4. peerHeights \in [Peer -> Nat \cup {NoHeight}]
  BY <1>2 DEF SyncTyped
<1> QED
  BY <1>3, <1>4 DEF SyncTyped, TypeOK, Entry

\* Every variable keeps its shape: channels carry requests and messages, heights
\* are natural or missing, and what waits or is booked are blocks.
THEOREM SyncTypes == Spec => []TypeOK
<1>1. Init => Channels
  BY DEF Init, Channels
<1>2. SyncInv /\ Channels => TypeOK
  BY TypesAreKept DEF SyncInv
<1> QED
  BY <1>1, <1>2, ChannelsKept, SyncInvariance, PTL DEF Spec

\* The places of a block on the channels are the messages that carry it.
LEMMA OutstandingIsComing ==
  ASSUME NEW h
  PROVE  Outstanding(h) # {} <=> \E p \in Peer : Coming(p, h)
<1>1. ASSUME NEW x \in Outstanding(h) PROVE \E p \in Peer : Coming(p, h)
  BY DEF Outstanding, Coming, Has, GetBlock, Block
<1>2. ASSUME NEW p \in Peer, Has(toPeer[p], GetBlock(h)) PROVE Outstanding(h) # {}
  <2>1. PICK i \in DOMAIN toPeer[p] : toPeer[p][i] = GetBlock(h)
    BY <1>2 DEF Has
  <2>2. <<"asked", p, i>> \in Outstanding(h)
    BY <2>1 DEF Outstanding, GetBlock
  <2> QED
    BY <2>2
<1>3. ASSUME NEW p \in Peer, Has(fromPeer[p], Block(h)) PROVE Outstanding(h) # {}
  <2>1. PICK i \in DOMAIN fromPeer[p] : fromPeer[p][i] = Block(h)
    BY <1>3 DEF Has
  <2>2. <<"sent", p, i>> \in Outstanding(h)
    BY <2>1 DEF Outstanding, Block
  <2> QED
    BY <2>2
<1> QED
  BY <1>1, <1>2, <1>3 DEF Coming

LEMMA OutstandingOnce ==
  ASSUME OneWay, NEW h \in 1..MaxHeight
  PROVE  Cardinality(Outstanding(h)) <= 1
<1>1. ASSUME NEW x \in Outstanding(h)
      PROVE  \E p \in Peer :
               \/ \E i \in DOMAIN toPeer[p] : x = <<"asked", p, i>> /\ toPeer[p][i] = GetBlock(h)
               \/ \E i \in DOMAIN fromPeer[p] : x = <<"sent", p, i>> /\ fromPeer[p][i] = Block(h)
  BY DEF Outstanding, GetBlock, Block
<1>2. ASSUME NEW x \in Outstanding(h), NEW y \in Outstanding(h) PROVE x = y
  <2>1. PICK p \in Peer :
          \/ \E i \in DOMAIN toPeer[p] : x = <<"asked", p, i>> /\ toPeer[p][i] = GetBlock(h)
          \/ \E i \in DOMAIN fromPeer[p] : x = <<"sent", p, i>> /\ fromPeer[p][i] = Block(h)
    BY <1>1
  <2>2. PICK r \in Peer :
          \/ \E i \in DOMAIN toPeer[r] : y = <<"asked", r, i>> /\ toPeer[r][i] = GetBlock(h)
          \/ \E i \in DOMAIN fromPeer[r] : y = <<"sent", r, i>> /\ fromPeer[r][i] = Block(h)
    BY <1>1
  <2>3. p = r
    BY <2>1, <2>2 DEF OneWay, Coming, Has
  <2>4. Once(toPeer[p], GetBlock(h)) /\ Once(fromPeer[p], Block(h))
        /\ ~(Has(toPeer[p], GetBlock(h)) /\ Has(fromPeer[p], Block(h)))
    BY DEF OneWay
  <2> QED
    BY <2>1, <2>2, <2>3, <2>4 DEF Has, Once
<1>3. CASE Outstanding(h) = {}
  BY <1>3, FS_EmptySet
<1>4. CASE Outstanding(h) # {}
  <2>1. PICK x : x \in Outstanding(h)
    BY <1>4
  <2>2. Outstanding(h) = {x}
    BY <1>2, <2>1
  <2>3. Cardinality({x}) = 1
    BY FS_Singleton
  <2> QED
    BY <2>2, <2>3
<1> QED
  BY <1>3, <1>4

\* However the announcements of the peers overlap, sessions come and go and slots
\* run out, a block is under way once, and inflight_blocks_ has it booked.
THEOREM BlocksAreDownloadedOnce == Spec => []DownloadedOnce
<1>1. SyncInv => DownloadedOnce
  <2> SUFFICES ASSUME SyncInv, NEW h \in 1..MaxHeight
               PROVE  /\ Cardinality(Outstanding(h)) <= 1
                      /\ Outstanding(h) # {} => h \in inflight
    BY DEF DownloadedOnce
  <2>1. Cardinality(Outstanding(h)) <= 1
    BY OutstandingOnce DEF SyncInv
  <2>2. Outstanding(h) # {} => h \in inflight
    BY OutstandingIsComing DEF SyncInv, Booking
  <2> QED
    BY <2>1, <2>2
<1> QED
  BY <1>1, SyncInvariance, PTL

\* As long as remove_session was never run, every booked block is under way: no
\* slot of inflight_blocks_ is lost.
THEOREM BookedBlocksAreComing == Spec => []BookedIsOutstanding
<1>1. SyncInv => BookedIsOutstanding
  BY OutstandingIsComing DEF SyncInv, Booking, BookedIsOutstanding
<1> QED
  BY <1>1, SyncInvariance, PTL

\* pump_block_downloads leaves a queue only if every slot is taken, and the deque,
\* queued_blocks_ and inflight_blocks_ agree.
THEOREM QueueOnlyWaitsForSlot == Spec => []QueueWaitsForSlot
<1>1. SyncInv => QueueWaitsForSlot
  BY DEF SyncInv, QueueInv
<1> QED
  BY <1>1, SyncInvariance, PTL

\* update_chain_approval_state opens the wallet on a chain that has every height
\* which the peers with an open session have announced.
THEOREM WalletOpensOnFullChain == Spec => WalletOpensCaughtUp
<1>1. SyncInv /\ SyncInv' /\ [Next]_vars =>
        [(~WalletOpen(have, approval) /\ WalletOpen(have', approval'))
           => \A p \in Peer : peerHeights'[p] <= Best(have')]_vars
  <2> SUFFICES ASSUME SyncInv, SyncInv', Next,
                      ~WalletOpen(have, approval), WalletOpen(have', approval')
               PROVE  \A p \in Peer : peerHeights'[p] <= Best(have')
    OBVIOUS
  <2>1. \/ UpdateApproval
        \/ have' = have /\ approval' = approval
    BY DEF Next, Handle, ReceiveVersion, ReceiveHeaders, ReceiveBlock, ReceiveInv, Serve,
           Grow, Connect, RemoveSession, Maintain
  <2>2. UpdateApproval
    BY <2>1
  <2>3. /\ MaxHeight \in Nat /\ approval.height \in Nat
        /\ peerHeights' \in [Peer -> 0..MaxHeight \cup {NoHeight}]
        /\ have' \subseteq 0..MaxHeight /\ 0 \in have'
    BY SyncAssumption DEF SyncInv, SyncTyped, NoHeight
  <2> QED
    BY <2>2, <2>3, ApprovalKept
<1> QED
  BY <1>1, SyncInvariance, PTL DEF Spec, WalletOpensCaughtUp
=============================================================================
