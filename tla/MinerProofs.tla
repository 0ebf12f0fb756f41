----------------------------- MODULE MinerProofs -----------------------------
(***************************************************************************)
(* For any number of workers, cycles, chunk size and length of the chain:  *)
(* a thread of powminer that sees no newer version hashes on the job of    *)
(* the moment, and the worker processes of the mine command never share a  *)
(* nonce, nor run out of nonces before the cycles are used up.             *)
(***************************************************************************)
EXTENDS Miner, FiniteSetTheorems, SequenceTheorems, TLAPS

Path == Seq({"g", "net", "alt", "mine"})
MainStep == {"idle", "threads", "chunk", "collect", "found", "parent", "bits", "connect",
             "tip", "height", "stopped"}
MainRecord == [step : MainStep, block : Path, height : Nat, total : Nat, seed : Nat,
               covered : SUBSET Nat]
WorkerStep == {"rest", "start", "hash", "reload", "done", "search", "dry", "hit", "failed"}
WorkerRecord == [step : WorkerStep, on : Path, version : Nat, seen : Nat,
                 nonces : SUBSET Nat]

MinerTyped ==
  /\ tip \in Path /\ template \in Path /\ version \in Nat
  /\ main \in MainRecord /\ worker \in [Worker -> WorkerRecord]
  /\ refresh \in [step : {"asleep", "built", "ended"}, on : Path]

\* Nobody knows of a version that is still to come.
VersionsKnown ==
  \A w \in Worker : worker[w].version <= version /\ worker[w].seen <= version

\* In a chunk a process has its whole range, the part up to its hit, or nothing.
Searched(w) ==
  \/ worker[w].step \in {"search", "dry"} /\ worker[w].nonces = NonceRange(w)
  \/ worker[w].step = "hit" /\ worker[w].nonces \subseteq NonceRange(w)
  \/ worker[w].step = "failed" /\ worker[w].nonces = {}

\* The seed is above all nonces searched, and moves no further than the iterations
\* of all workers together.
NoncesBehindSeed ==
  main.step \in {"chunk", "collect"} =>
    /\ main.covered \subseteq 0..(main.seed - 1)
    /\ main.seed <= Threads * main.total
ChunkSearched ==
  main.step = "collect" => main.total < MaxIterations /\ \A w \in Worker : Searched(w)

MinerInv ==
  /\ MinerTyped
  /\ VersionsKnown /\ VersionTellsJob
  /\ NoncesBehindSeed /\ ChunkSearched

\* No nonce of a chunk is beyond a uint32_t.
NoncesFit ==
  main.step = "collect" => \A w \in Worker : worker[w].nonces \subseteq 0..(NonceSpan - 1)

-----------------------------------------------------------------------------
(* Arithmetic of the ranges                                                *)

LEMMA Products ==
  ASSUME NEW t \in Nat, NEW a \in Int, NEW b \in Int
  PROVE  /\ t * a \in Int /\ t * (a + b) = t * a + t * b /\ a * t = t * a
         /\ a <= b => t * a <= t * b
<1>1. t * a \in Int /\ t * b \in Int /\ t * (a + b) = t * a + t * b /\ a * t = t * a
  BY SMT
<1>2. a <= b => t * a <= t * b
  <2>1. ASSUME NEW c \in Int, c >= 0 PROVE t * c >= 0
    BY <2>1, SMT
  <2>2. t * (b - a) = t * b - t * a
    BY SMT
  <2> QED
    BY <1>1, <2>1, <2>2
<1> QED
  BY <1>1, <1>2

LEMMA ThreadsTyped == Threads \in Nat \ {0} /\ Worker = 0..(Threads - 1) /\ IsFiniteSet(Worker)
BY MinerAssumption, FS_CardinalityType, FS_EmptySet DEF Threads

\* worker_limit: at least one iteration, and no more than are left.
LEMMA LimitBounds ==
  ASSUME MinerTyped, main.total < MaxIterations
  PROVE  ChunkLimit \in 1..(MaxIterations - main.total)
<1> DEFINE x == MaxIterations - main.total
           share == (x + Threads - 1) \div Threads
<1>1. x \in Nat \ {0} /\ Threads \in Nat \ {0} /\ ChunkSize \in Nat \ {0}
  BY MinerAssumption, ThreadsTyped DEF MinerTyped, MainRecord
<1>2. share \in 1..x
  <2> PICK t, a, q : t = Threads /\ a = x + Threads - 1 /\ q = share
    OBVIOUS
  <2>1. t \in Nat \ {0} /\ a \in Nat /\ a >= t /\ q = a \div t
    BY <1>1
  <2>2. q \in Int /\ t * q <= a /\ a < t * q + t
    BY <2>1, SMT
  <2>3. q >= 1
    <3>1. ASSUME q <= 0 PROVE FALSE
      <4>1. t * q <= t * 0
        BY <2>1, <2>2, <3>1, Products
      <4> QED
        BY <2>1, <2>2, <4>1
    <3> QED
      BY <2>2, <3>1
  <2>4. q <= x
    <3>1. ASSUME q >= x + 1 PROVE FALSE
      <4>1. t * (x + 1) <= t * q /\ t * (x + 1) = t * x + t /\ t * x \in Int
        BY <1>1, <2>1, <2>2, <3>1, Products
      <4>2. x * 1 <= x * t /\ x * t = t * x
        BY <1>1, <2>1, Products
      <4> QED
        BY <1>1, <2>1, <2>2, <4>1, <4>2
    <3> QED
      BY <1>1, <2>2, <3>1
  <2> QED
    BY <1>1, <2>2, <2>3, <2>4
<1> QED
  BY <1>1, <1>2 DEF ChunkLimit

\* The ranges of the workers lie side by side above the seed, below the next one.
LEMMA RangeBounds ==
  ASSUME MinerTyped, ChunkLimit \in Nat \ {0}, NEW w \in Worker
  PROVE  /\ NonceRange(w) \subseteq main.seed..(NextSeed - 1)
         /\ NextSeed \in Nat /\ NextSeed = main.seed + Threads * ChunkLimit
<1>1. Threads \in Nat \ {0} /\ w \in 0..(Threads - 1) /\ main.seed \in Nat
  BY ThreadsTyped DEF MinerTyped, MainRecord
<1>2. NextSeed = main.seed + Threads * ChunkLimit /\ NextSeed \in Nat
  BY <1>1, SMT DEF NextSeed
<1>3. ASSUME NEW i \in 0..(ChunkLimit - 1)
      PROVE  main.seed + w + i * Threads \in main.seed..(NextSeed - 1)
  <2>1. i * Threads = Threads * i /\ Threads * i <= Threads * (ChunkLimit - 1)
    BY <1>1, Products
  <2>2. Threads * (ChunkLimit - 1) = Threads * ChunkLimit - Threads
    BY <1>1, SMT
  <2>3. Threads * 0 <= Threads * i /\ Threads * 0 = 0 /\ Threads * i \in Int
        /\ Threads * ChunkLimit \in Int
    BY <1>1, Products
  <2> QED
    BY <1>1, <1>2, <2>1, <2>2, <2>3
<1>4. NonceRange(w) \subseteq main.seed..(NextSeed - 1)
  BY <1>3 DEF NonceRange
<1> QED
  BY <1>2, <1>4

\* Steps of the width of all workers never meet.
LEMMA RangesDisjoint ==
  ASSUME MinerTyped, ChunkLimit \in Nat, NEW v \in Worker, NEW w \in Worker, v # w
  PROVE  NonceRange(v) \cap NonceRange(w) = {}
<1>1. Threads \in Nat \ {0} /\ v \in 0..(Threads - 1) /\ w \in 0..(Threads - 1) /\ main.seed \in Nat
  BY ThreadsTyped DEF MinerTyped, MainRecord
<1>2. ASSUME NEW i \in Int, NEW j \in Int, NEW x \in 0..(Threads - 1), NEW y \in 0..(Threads - 1),
             main.seed + x + i * Threads = main.seed + y + j * Threads, i < j
      PROVE  FALSE
  <2>1. /\ i * Threads = Threads * i /\ j * Threads = Threads * j
        /\ Threads * i \in Int /\ Threads * j \in Int
        /\ Threads * (i + 1) <= Threads * j /\ Threads * (i + 1) = Threads * i + Threads * 1
        /\ Threads * 1 = Threads
    BY <1>1, <1>2, Products
  <2> QED
    BY <1>1, <1>2, <2>1
<1>3. ASSUME NEW i \in Int, NEW j \in Int,
             main.seed + v + i * Threads = main.seed + w + j * Threads
      PROVE  FALSE
  <2>1. i = j
    BY <1>1, <1>2, <1>3
  <2>2. i * Threads \in Int
    BY <1>1, Products
  <2> QED
    BY <1>1, <1>3, <2>1, <2>2
<1> QED
  BY <1>3 DEF NonceRange

\* A whole range has as many nonces as a worker has iterations.
LEMMA RangeSize ==
  ASSUME MinerTyped, ChunkLimit \in Nat \ {0}, NEW w \in Worker, NEW S,
         NonceRange(w) \subseteq S, IsFiniteSet(S)
  PROVE  ChunkLimit <= Cardinality(S)
<1>1. Threads \in Nat \ {0} /\ w \in Nat /\ main.seed \in Nat
  BY ThreadsTyped DEF MinerTyped, MainRecord
<1> DEFINE I == 0..(ChunkLimit - 1)
           g == [i \in I |-> main.seed + w + i * Threads]
<1>2. Cardinality(I) = ChunkLimit
  BY FS_Interval
<1>3. g \in [I -> S]
  BY DEF NonceRange
<1>4. ASSUME NEW i \in I, NEW j \in I, g[i] = g[j] PROVE i = j
  <2>1. /\ i * Threads = Threads * i /\ j * Threads = Threads * j
        /\ Threads * i \in Int /\ Threads * j \in Int
        /\ i < j => Threads * (i + 1) <= Threads * j /\ Threads * (i + 1) = Threads * i + Threads * 1
        /\ j < i => Threads * (j + 1) <= Threads * i /\ Threads * (j + 1) = Threads * j + Threads * 1
        /\ Threads * 1 = Threads
    BY <1>1, Products
  <2>2. i * Threads = j * Threads
    <3>1. main.seed + w + i * Threads = main.seed + w + j * Threads
      BY <1>4
    <3> QED
      BY <1>1, <2>1, <3>1
  <2> QED
    BY <1>1, <2>1, <2>2
<1>5. g \in Injection(I, S)
  BY <1>3, <1>4 DEF Injection, IsInjective
<1>6. Cardinality(I) <= Cardinality(S)
  BY <1>5, FS_Injection
<1> QED
  BY <1>2, <1>6

-----------------------------------------------------------------------------
(* Types                                                                   *)

LEMMA Paths ==
  ASSUME NEW p \in Path
  PROVE  /\ << >> \in Path
         /\ \A x \in {"g", "net", "alt", "mine"} : Append(p, x) \in Path
         /\ Len(p) \in Nat
         /\ Len(p) >= 2 => Front(p) \o <<"alt", "net">> \in Path
<1>1. Len(p) >= 2 => Front(p) \in Path
  BY DEF Front, Path
<1>2. <<"alt", "net">> \in Path
  BY DEF Path
<1>3. \A s, t \in Path : s \o t \in Path
  BY DEF Path
<1> QED
  BY <1>1, <1>2, <1>3 DEF Path

LEMMA FreshTyped ==
  /\ \A step \in MainStep : MainAt(step) \in MainRecord
  /\ Resting \in WorkerRecord /\ AllRest \in [Worker -> WorkerRecord]
  /\ NoJob \in Path
<1>1. << >> \in Path
  BY DEF Path
<1> QED
  BY <1>1 DEF MainAt, MainRecord, Resting, WorkerRecord, WorkerStep, AllRest, NoJob

\* The main thread moves on, or gives up.
LEMMA MainMoves ==
  ASSUME MinerTyped
  PROVE  /\ \A step \in MainStep : Proceed(step) => main' \in MainRecord /\ main'.step = step
         /\ GiveUp => main' \in MainRecord /\ main'.step = "idle"
<1>1. ASSUME NEW step \in MainStep, Proceed(step) PROVE main' \in MainRecord /\ main'.step = step
  BY <1>1 DEF Proceed, MinerTyped, MainRecord
<1>2. ASSUME GiveUp PROVE main' \in MainRecord /\ main'.step = "idle"
  BY <1>2, FreshTyped DEF GiveUp, MainStep, MainAt
<1> QED
  BY <1>1, <1>2

\* What a worker thread does to its own record; the others stay as they are.
LEMMA ThreadEffect ==
  ASSUME MinerTyped, NEW w \in Worker,
         \/ TakeJob(w) \/ SeeVersion(w) \/ ReloadJob(w) \/ FindBlock(w) \/ StopWorker(w)
  PROVE  /\ worker' \in [Worker -> WorkerRecord] /\ version' = version /\ template' = template
         /\ worker[w].step \in {"start", "hash", "reload"}
         /\ \A v \in Worker : v # w => worker'[v] = worker[v]
         /\ \/ worker'[w].step # "hash" /\ worker'[w].version = worker[w].version
               /\ worker'[w].seen \in {worker[w].seen, version}
            \/ worker'[w].on = template /\ worker'[w].version \in {version, worker[w].seen}
               /\ worker'[w].seen \in {0, worker[w].seen}
<1> USE DEF MinerTyped
<1>1. CASE TakeJob(w)
  <2>1. PICK r : /\ r = [Resting EXCEPT !.step = "hash", !.on = template, !.version = version]
                 /\ worker' = [worker EXCEPT ![w] = r]
    BY <1>1, Zenon DEF TakeJob
  <2>2. Resting \in WorkerRecord /\ Resting.seen = 0
    BY FreshTyped DEF Resting
  <2>3. r \in WorkerRecord /\ r.on = template /\ r.version = version /\ r.seen = 0
    BY <2>1, <2>2 DEF WorkerRecord, WorkerStep
  <2>4. /\ worker' \in [Worker -> WorkerRecord] /\ worker'[w] = r
        /\ \A v \in Worker : v # w => worker'[v] = worker[v]
    BY <2>1, <2>3
  <2>5. version' = version /\ template' = template /\ worker[w].step = "start"
    BY <1>1 DEF TakeJob
  <2> QED
    BY <2>3, <2>4, <2>5
<1>2. CASE SeeVersion(w)
  <2>1. worker' = [worker EXCEPT ![w].step = "reload", ![w].seen = version]
    BY <1>2 DEF SeeVersion
  <2>2. PICK r : r = [worker[w] EXCEPT !.step = "reload", !.seen = version]
    OBVIOUS
  <2>3. /\ r \in WorkerRecord /\ r.step = "reload" /\ r.seen = version
        /\ r.version = worker[w].version
    BY <2>2 DEF WorkerRecord, WorkerStep
  <2>4. worker'[w] = r /\ DOMAIN worker' = Worker /\ \A v \in Worker : v # w => worker'[v] = worker[v]
    BY <2>1, <2>2
  <2>5. worker' \in [Worker -> WorkerRecord]
    <3>1. worker' = [v \in Worker |-> worker'[v]]
      BY <2>1
    <3>2. \A v \in Worker : worker'[v] \in WorkerRecord
      BY <2>3, <2>4
    <3> QED
      BY <3>1, <3>2
  <2>6. version' = version /\ template' = template /\ worker[w].step = "hash"
    BY <1>2 DEF SeeVersion
  <2> QED
    BY <2>3, <2>4, <2>5, <2>6
<1>3. CASE ReloadJob(w)
  <2>1. worker' = [worker EXCEPT ![w].step = "hash", ![w].on = template,
                                 ![w].version = worker[w].seen]
    BY <1>3 DEF ReloadJob
  <2>2. PICK r : r = [worker[w] EXCEPT !.step = "hash", !.on = template,
                                       !.version = worker[w].seen]
    OBVIOUS
  <2>3. /\ r \in WorkerRecord /\ r.on = template /\ r.version = worker[w].seen
        /\ r.seen = worker[w].seen
    BY <2>2 DEF WorkerRecord, WorkerStep
  <2>4. worker'[w] = r /\ DOMAIN worker' = Worker /\ \A v \in Worker : v # w => worker'[v] = worker[v]
    BY <2>1, <2>2
  <2>5. worker' \in [Worker -> WorkerRecord]
    <3>1. worker' = [v \in Worker |-> worker'[v]]
      BY <2>1
    <3>2. \A v \in Worker : worker'[v] \in WorkerRecord
      BY <2>3, <2>4
    <3> QED
      BY <3>1, <3>2
  <2>6. version' = version /\ template' = template /\ worker[w].step = "reload"
    BY <1>3 DEF ReloadJob
  <2> QED
    BY <2>3, <2>4, <2>5, <2>6
<1>4. CASE FindBlock(w)
  BY <1>4 DEF FindBlock, WorkerRecord, WorkerStep
<1>5. CASE StopWorker(w)
  BY <1>5 DEF StopWorker, WorkerRecord, WorkerStep
<1> QED
  BY <1>1, <1>2, <1>3, <1>4, <1>5

\* A process ends with its whole range, with the part up to its hit, or with nothing.
LEMMA ProcessEffect ==
  ASSUME MinerTyped, NEW w \in Worker, EndProcess(w)
  PROVE  /\ worker' \in [Worker -> WorkerRecord]
         /\ worker[w].step = "search"
         /\ \A v \in Worker : v # w => worker'[v] = worker[v]
         /\ worker'[w].version = worker[w].version /\ worker'[w].seen = worker[w].seen
         /\ \/ worker'[w].step = "dry" /\ worker'[w].nonces = worker[w].nonces
            \/ worker'[w].step = "hit" /\ worker'[w].nonces \subseteq worker[w].nonces
            \/ worker'[w].step = "failed" /\ worker'[w].nonces = {}
<1> USE DEF MinerTyped
<1>1. worker[w].step = "search" /\ worker[w] \in WorkerRecord
  BY DEF EndProcess
<1>2. CASE worker' = [worker EXCEPT ![w].step = "dry"]
  BY <1>1, <1>2 DEF WorkerRecord, WorkerStep
<1>3. ASSUME NEW n, worker' = [worker EXCEPT ![w].step = "hit", ![w].nonces = {m \in @ : m <= n}]
      PROVE  /\ worker' \in [Worker -> WorkerRecord]
             /\ \A v \in Worker : v # w => worker'[v] = worker[v]
             /\ worker'[w].version = worker[w].version /\ worker'[w].seen = worker[w].seen
             /\ worker'[w].step = "hit" /\ worker'[w].nonces \subseteq worker[w].nonces
  <2> PICK S : S = {m \in worker[w].nonces : m <= n}
    OBVIOUS
  <2>1. worker' = [worker EXCEPT ![w].step = "hit", ![w].nonces = S]
    BY <1>3
  <2>2. S \subseteq worker[w].nonces /\ worker[w].nonces \subseteq Nat
    BY <1>1 DEF WorkerRecord
  <2> QED
    BY <1>1, <2>1, <2>2 DEF WorkerRecord, WorkerStep
<1>4. CASE worker' = [worker EXCEPT ![w].step = "failed", ![w].nonces = {}]
  BY <1>1, <1>4 DEF WorkerRecord, WorkerStep
<1> QED
  BY <1>1, <1>2, <1>3, <1>4 DEF EndProcess

\* All workers begin a cycle or a chunk anew.
LEMMA AnewEffect ==
  ASSUME MinerTyped, \/ BeginCycle
                     \/ StartChunk /\ ChunkLimit \in Nat
  PROVE  /\ worker' \in [Worker -> WorkerRecord]
         /\ \A w \in Worker : worker'[w].version = 0 /\ worker'[w].seen = 0
         /\ StartChunk => \A w \in Worker : worker'[w].step = "search"
                                           /\ worker'[w].nonces = NonceRange(w)
         /\ BeginCycle => \A w \in Worker : worker'[w].step = "start"
<1>1. Resting \in WorkerRecord /\ Resting.version = 0 /\ Resting.seen = 0
  BY FreshTyped DEF Resting
<1>2. CASE BeginCycle
  <2>1. PICK r : /\ r = [Resting EXCEPT !.step = "start"]
                 /\ worker' = [w \in Worker |-> r]
    BY <1>2, Zenon DEF BeginCycle
  <2>2. r \in WorkerRecord /\ r.version = 0 /\ r.seen = 0 /\ r.step = "start"
    BY <1>1, <2>1 DEF WorkerRecord, WorkerStep
  <2>3. ~StartChunk
    BY <1>2 DEF BeginCycle, StartChunk
  <2> QED
    BY <2>1, <2>2, <2>3
<1>3. CASE StartChunk /\ ChunkLimit \in Nat
  <2> DEFINE r(w) == [Resting EXCEPT !.step = "search", !.nonces = NonceRange(w)]
  <2>1. worker' = [w \in Worker |-> r(w)]
    BY <1>3 DEF StartChunk
  <2>2. ASSUME NEW w \in Worker
        PROVE  /\ r(w) \in WorkerRecord /\ r(w).version = 0 /\ r(w).seen = 0
               /\ r(w).step = "search" /\ r(w).nonces = NonceRange(w)
    <3>1. NonceRange(w) \subseteq Nat
      <4>1. /\ w \in Nat /\ main.seed \in Nat /\ Threads \in Nat
        BY ThreadsTyped DEF MinerTyped, MainRecord
      <4>2. \A i \in Nat : main.seed + w + i * Threads \in Nat
        BY <4>1, SMT
      <4> QED
        BY <1>3, <4>2 DEF NonceRange
    <3>2. PICK q, N : q = r(w) /\ N = NonceRange(w)
      OBVIOUS
    <3>3. q = [Resting EXCEPT !.step = "search", !.nonces = N]
      BY <3>2
    <3>4. q \in WorkerRecord /\ q.version = 0 /\ q.seen = 0 /\ q.step = "search" /\ q.nonces = N
      BY <1>1, <3>1, <3>2, <3>3 DEF WorkerRecord, WorkerStep
    <3> QED
      BY <3>2, <3>4
  <2> HIDE DEF r
  <2>3. ~BeginCycle
    BY <1>3 DEF BeginCycle, StartChunk
  <2> QED
    BY <2>1, <2>2, <2>3
<1> QED
  BY <1>2, <1>3

\* What a chunk has searched when all its results are in.
Done == UNION {worker[w].nonces : w \in Worker}
LEMMA CollectEffect ==
  ASSUME MinerInv, CollectChunk
  PROVE  /\ main' \in MainRecord /\ worker' = AllRest
         /\ main'.covered = main.covered \cup Done /\ main'.seed = NextSeed
         /\ Done \subseteq main.seed..(NextSeed - 1)
         /\ NextSeed \in Nat /\ NextSeed = main.seed + Threads * ChunkLimit
         /\ main'.step # "collect" /\ main'.total \in Nat
         /\ main'.step = "chunk" => main'.total >= main.total + ChunkLimit
<1> USE DEF MinerInv
<1>1. main.step = "collect" /\ main.total < MaxIterations /\ \A w \in Worker : Searched(w)
  BY DEF CollectChunk, ChunkSearched
<1>2. ChunkLimit \in Nat \ {0} /\ main \in MainRecord
  BY <1>1, LimitBounds, MinerAssumption DEF MinerTyped, MainRecord
<1>3. NextSeed \in Nat /\ NextSeed = main.seed + Threads * ChunkLimit
  <2>1. 0 \in Worker
    BY ThreadsTyped
  <2> QED
    BY <1>2, <2>1, RangeBounds
<1>4. Done \subseteq main.seed..(NextSeed - 1)
  <2>1. \A w \in Worker : worker[w].nonces \subseteq main.seed..(NextSeed - 1)
    BY <1>1, <1>2, RangeBounds DEF Searched
  <2> QED
    BY <2>1 DEF Done
<1>5. IsFiniteSet(Done) /\ Cardinality(Done) \in Nat
  <2>1. IsFiniteSet(main.seed..(NextSeed - 1))
    BY <1>2, <1>3, FS_Interval DEF MainRecord
  <2> QED
    BY <1>4, <2>1, FS_Subset, FS_CardinalityType
<1> DEFINE hit == \E w \in Worker : worker[w].step = "hit"
           total == main.total + Cardinality(Done)
<1>6. PICK block, step, cov :
        /\ main' = [main EXCEPT !.block = block, !.total = total, !.seed = NextSeed,
                                !.covered = cov, !.step = step]
        /\ block = IF hit THEN Append(template, "mine") ELSE NoJob
        /\ step = IF hit THEN "found"
                  ELSE IF Done # {} /\ total < MaxIterations THEN "chunk" ELSE "stopped"
        /\ cov = main.covered \cup Done
  BY DEF CollectChunk, Done
<1>7. block \in Path /\ step \in {"found", "chunk", "stopped"}
  BY <1>6, Paths, FreshTyped DEF MinerTyped
<1>8. cov \subseteq Nat /\ total \in Nat
  BY <1>2, <1>3, <1>4, <1>5, <1>6 DEF MainRecord
<1>9. step = "chunk" => total >= main.total + ChunkLimit
  <2> SUFFICES ASSUME step = "chunk" PROVE total >= main.total + ChunkLimit
    OBVIOUS
  <2>1. Done # {} /\ ~hit
    BY <1>6
  <2>2. PICK w \in Worker : worker[w].nonces # {}
    BY <2>1 DEF Done
  <2>3. worker[w].step # "search"
    BY DEF CollectChunk
  <2>4. worker[w].nonces = NonceRange(w)
    BY <1>1, <2>1, <2>2, <2>3 DEF Searched
  <2>5. ChunkLimit <= Cardinality(Done)
    <3>1. NonceRange(w) \subseteq Done
      BY <2>4 DEF Done
    <3> QED
      BY <1>2, <1>5, <3>1, RangeSize
  <2> QED
    BY <1>2, <1>5, <2>5 DEF MainRecord
<1> HIDE DEF hit, total
<1>10. /\ main' \in MainRecord /\ main'.covered = cov /\ main'.seed = NextSeed
       /\ main'.total = total /\ main'.step = step
  BY <1>2, <1>3, <1>6, <1>7, <1>8 DEF MainRecord, MainStep
<1>11. worker' = AllRest
  BY DEF CollectChunk
<1> QED
  BY <1>3, <1>4, <1>6, <1>7, <1>8, <1>9, <1>10, <1>11

LEMMA WorkersTyped ==
  ASSUME MinerInv, MinerNext
  PROVE  worker' \in [Worker -> WorkerRecord]
<1> USE DEF MinerInv
<1>1. worker \in [Worker -> WorkerRecord] /\ AllRest \in [Worker -> WorkerRecord]
  BY FreshTyped DEF MinerTyped
<1>2. CASE \E w \in Worker : \/ TakeJob(w) \/ SeeVersion(w) \/ ReloadJob(w)
                             \/ FindBlock(w) \/ StopWorker(w)
  BY <1>2, ThreadEffect
<1>3. CASE \E w \in Worker : EndProcess(w)
  BY <1>3, ProcessEffect
<1>4. CASE BeginCycle
  BY <1>4, AnewEffect
<1>5. CASE StartChunk
  <2>1. ChunkLimit \in 1..(MaxIterations - main.total)
    BY <1>5, LimitBounds DEF StartChunk
  <2> QED
    BY <1>5, <2>1, AnewEffect
<1>6. CASE CollectChunk \/ StartMiner
  BY <1>1, <1>6 DEF CollectChunk, StartMiner
<1>7. CASE \/ NetExtend \/ NetReorg \/ RefreshBuilds \/ RefreshPublishes \/ RefreshEnds
           \/ BeginMine \/ ReadHeight \/ CheckParent \/ CheckBits \/ ConnectMined
           \/ CheckTip \/ CheckHeight
  BY <1>1, <1>7 DEF NetExtend, NetReorg, RefreshBuilds, RefreshPublishes, RefreshEnds,
       BeginMine, ReadHeight, CheckParent, CheckBits, ConnectMined, CheckTip, CheckHeight,
       MainOnly
<1> QED
  BY <1>2, <1>3, <1>4, <1>5, <1>6, <1>7 DEF MinerNext

LEMMA MainTyped ==
  ASSUME MinerInv, MinerNext
  PROVE  main' \in MainRecord
<1> USE DEF MinerInv
<1>1. main \in MainRecord /\ tip \in Path /\ \A w \in Worker : worker[w].on \in Path
  BY DEF MinerTyped, WorkerRecord
<1>2. CASE BeginCycle \/ BeginMine
  BY <1>2, FreshTyped DEF BeginCycle, BeginMine, MainStep
<1>3. CASE \E w \in Worker : FindBlock(w)
  <2>1. PICK w \in Worker : FindBlock(w)
    BY <1>3
  <2>2. Append(worker[w].on, "mine") \in Path
    BY <1>1, Paths
  <2> QED
    BY <1>1, <2>1, <2>2 DEF FindBlock, MainRecord
<1>4. CASE RefreshEnds \/ StartChunk
  BY <1>1, <1>4 DEF RefreshEnds, StartChunk, MainRecord, MainStep
<1>5. CASE ReadHeight
  <2>1. Len(tip) \in Nat
    BY <1>1, Paths
  <2> QED
    BY <1>1, <1>5, <2>1 DEF ReadHeight, MainRecord, MainStep
<1>6. CASE CheckParent \/ CheckBits \/ ConnectMined \/ CheckTip \/ CheckHeight \/ StartMiner
  BY <1>6, MainMoves DEF CheckParent, CheckBits, ConnectMined, CheckTip, CheckHeight,
       StartMiner, MainStep
<1>7. CASE CollectChunk
  BY <1>7, CollectEffect
<1>8. CASE \E w \in Worker : \/ TakeJob(w) \/ SeeVersion(w) \/ ReloadJob(w)
                             \/ StopWorker(w) \/ EndProcess(w)
  BY <1>1, <1>8 DEF TakeJob, SeeVersion, ReloadJob, StopWorker, EndProcess
<1>9. CASE NetExtend \/ NetReorg \/ RefreshBuilds \/ RefreshPublishes
  BY <1>1, <1>9 DEF NetExtend, NetReorg, RefreshBuilds, RefreshPublishes
<1> QED
  BY <1>2, <1>3, <1>4, <1>5, <1>6, <1>7, <1>8, <1>9 DEF MinerNext

LEMMA JobsTyped ==
  ASSUME MinerInv, MinerNext
  PROVE  /\ tip' \in Path /\ template' \in Path /\ version' \in Nat
         /\ refresh' \in [step : {"asleep", "built", "ended"}, on : Path]
<1> USE DEF MinerInv
<1>1. /\ tip \in Path /\ template \in Path /\ version \in Nat /\ main.block \in Path
      /\ refresh \in [step : {"asleep", "built", "ended"}, on : Path] /\ NoJob \in Path
  BY FreshTyped DEF MinerTyped, MainRecord
<1>2. CASE NetExtend
  BY <1>1, <1>2, Paths DEF NetExtend
<1>3. CASE NetReorg
  BY <1>1, <1>3, Paths DEF NetReorg
<1>4. CASE BeginCycle \/ RefreshBuilds \/ RefreshPublishes \/ RefreshEnds
  BY <1>1, <1>4 DEF BeginCycle, RefreshBuilds, RefreshPublishes, RefreshEnds, NoRefresh
<1>5. CASE \E w \in Worker : \/ TakeJob(w) \/ SeeVersion(w) \/ ReloadJob(w)
                             \/ FindBlock(w) \/ StopWorker(w) \/ EndProcess(w)
  BY <1>1, <1>5 DEF TakeJob, SeeVersion, ReloadJob, FindBlock, StopWorker, EndProcess
<1>6. CASE \/ BeginMine \/ StartChunk \/ CollectChunk \/ ReadHeight \/ CheckParent
           \/ CheckBits \/ ConnectMined \/ CheckTip \/ CheckHeight \/ StartMiner
  BY <1>1, <1>6 DEF BeginMine, StartChunk, CollectChunk, ReadHeight, CheckParent, CheckBits,
       ConnectMined, CheckTip, CheckHeight, StartMiner, MainOnly
<1> QED
  BY <1>2, <1>3, <1>4, <1>5, <1>6 DEF MinerNext

LEMMA MinerStepTyped ==
  ASSUME MinerInv, MinerNext
  PROVE  MinerTyped'
BY WorkersTyped, MainTyped, JobsTyped DEF MinerTyped

-----------------------------------------------------------------------------
(* Jobs and versions                                                       *)

\* Whoever knows the version of now knows the job of now, in the step of a thread.
LEMMA ThreadKeepsVersions ==
  ASSUME MinerInv, NEW w \in Worker,
         \/ TakeJob(w) \/ SeeVersion(w) \/ ReloadJob(w) \/ FindBlock(w) \/ StopWorker(w)
  PROVE  VersionsKnown' /\ VersionTellsJob'
<1> USE DEF MinerInv
<1>1. MinerTyped
  OBVIOUS
<1>2. /\ version' = version /\ template' = template
      /\ \A v \in Worker : v # w => worker'[v] = worker[v]
      /\ \/ worker'[w].step # "hash" /\ worker'[w].version = worker[w].version
            /\ worker'[w].seen \in {worker[w].seen, version}
         \/ worker'[w].on = template /\ worker'[w].version \in {version, worker[w].seen}
            /\ worker'[w].seen \in {0, worker[w].seen}
  BY <1>1, ThreadEffect
<1>3. version \in Nat
  BY DEF MinerTyped
<1>4. VersionsKnown'
  BY <1>2, <1>3 DEF VersionsKnown
<1>5. VersionTellsJob'
  BY <1>2 DEF VersionTellsJob
<1> QED
  BY <1>4, <1>5

LEMMA VersionStep ==
  ASSUME MinerInv, MinerNext
  PROVE  VersionsKnown' /\ VersionTellsJob'
<1> USE DEF MinerInv
<1>1. /\ MinerTyped /\ version \in Nat
      /\ \A w \in Worker : worker[w].version \in Nat /\ worker[w].seen \in Nat
  BY DEF MinerTyped, WorkerRecord
<1>2. CASE \E w \in Worker : \/ TakeJob(w) \/ SeeVersion(w) \/ ReloadJob(w)
                             \/ FindBlock(w) \/ StopWorker(w)
  BY <1>2, ThreadKeepsVersions
<1>3. CASE \E w \in Worker : EndProcess(w)
  <2>1. PICK w \in Worker : EndProcess(w)
    BY <1>3
  <2>2. version' = version /\ template' = template
    BY <2>1 DEF EndProcess
  <2>3. /\ \A v \in Worker : v # w => worker'[v] = worker[v]
        /\ worker'[w].version = worker[w].version /\ worker'[w].seen = worker[w].seen
        /\ worker'[w].step # "hash"
    BY <1>1, <2>1, ProcessEffect
  <2> QED
    BY <2>2, <2>3 DEF VersionsKnown, VersionTellsJob
<1>4. CASE BeginCycle
  <2>1. \A w \in Worker : worker'[w].version = 0 /\ worker'[w].seen = 0
                          /\ worker'[w].step = "start"
    BY <1>1, <1>4, AnewEffect
  <2>2. version' = 0
    BY <1>4 DEF BeginCycle
  <2> QED
    BY <2>1, <2>2 DEF VersionsKnown, VersionTellsJob
<1>5. CASE StartChunk
  <2>1. ChunkLimit \in 1..(MaxIterations - main.total)
    BY <1>5, LimitBounds DEF StartChunk
  <2>2. \A w \in Worker : worker'[w].version = 0 /\ worker'[w].seen = 0
                          /\ worker'[w].step = "search"
    BY <1>1, <1>5, <2>1, AnewEffect
  <2>3. version' = version
    BY <1>5 DEF StartChunk
  <2> QED
    BY <1>1, <2>2, <2>3 DEF VersionsKnown, VersionTellsJob
<1>6. CASE CollectChunk \/ StartMiner
  <2>1. version' = version /\ worker' = AllRest
    BY <1>6 DEF CollectChunk, StartMiner
  <2>2. \A w \in Worker : worker'[w].version = 0 /\ worker'[w].seen = 0
                          /\ worker'[w].step = "rest"
    BY <2>1 DEF AllRest, Resting
  <2> QED
    BY <1>1, <2>1, <2>2 DEF VersionsKnown, VersionTellsJob
<1>7. CASE RefreshPublishes
  <2>1. worker' = worker
    BY <1>7 DEF RefreshPublishes
  <2>2. CASE refresh.on = template
    BY <1>7, <2>1, <2>2 DEF RefreshPublishes, VersionsKnown, VersionTellsJob
  <2>3. CASE refresh.on # template
    <3>1. version' = version + 1
      BY <1>7, <2>3 DEF RefreshPublishes
    <3>2. \A w \in Worker : worker[w].version <= version /\ worker[w].seen <= version
      BY DEF VersionsKnown
    <3>3. \A w \in Worker : worker[w].version # version'
      BY <1>1, <3>1, <3>2
    <3> QED
      BY <1>1, <2>1, <3>1, <3>2, <3>3 DEF VersionsKnown, VersionTellsJob
  <2> QED
    BY <2>2, <2>3
<1>8. CASE \/ NetExtend \/ NetReorg \/ RefreshBuilds \/ RefreshEnds \/ BeginMine
           \/ ReadHeight \/ CheckParent \/ CheckBits \/ ConnectMined \/ CheckTip \/ CheckHeight
  <2>1. worker' = worker /\ version' = version /\ template' = template
    BY <1>8 DEF NetExtend, NetReorg, RefreshBuilds, RefreshEnds, BeginMine, ReadHeight,
         CheckParent, CheckBits, ConnectMined, CheckTip, CheckHeight, MainOnly
  <2> QED
    BY <2>1 DEF VersionsKnown, VersionTellsJob
<1> QED
  BY <1>2, <1>3, <1>4, <1>5, <1>6, <1>7, <1>8 DEF MinerNext

-----------------------------------------------------------------------------
(* Nonces                                                                  *)

\* What the ranges depend on.
LEMMA SameRanges ==
  ASSUME main'.seed = main.seed, main'.total = main.total, NEW w
  PROVE  NonceRange(w)' = NonceRange(w)
BY DEF NonceRange, ChunkLimit, Threads

\* The seed moves on by all ranges at once, the iterations by at least one.
LEMMA CollectKeepsSeed ==
  ASSUME MinerInv, CollectChunk
  PROVE  NoncesBehindSeed' /\ ChunkSearched'
<1> USE DEF MinerInv
<1>1. main.step = "collect" /\ main.total < MaxIterations /\ MinerTyped
  BY DEF CollectChunk, ChunkSearched
<1>2. /\ main.covered \subseteq 0..(main.seed - 1) /\ main.seed <= Threads * main.total
      /\ main.seed \in Nat /\ main.total \in Nat
  BY <1>1 DEF NoncesBehindSeed, MinerTyped, MainRecord
<1>3. /\ main'.covered = main.covered \cup Done /\ main'.seed = NextSeed
      /\ Done \subseteq main.seed..(NextSeed - 1)
      /\ NextSeed \in Nat /\ NextSeed = main.seed + Threads * ChunkLimit
      /\ main'.step # "collect" /\ main'.total \in Nat
      /\ main'.step = "chunk" => main'.total >= main.total + ChunkLimit
  BY CollectEffect
<1>4. ChunkLimit \in Nat /\ Threads \in Nat \ {0} /\ ChunkLimit >= 1
  BY <1>1, <1>2, LimitBounds, ThreadsTyped, MinerAssumption
<1>5. Threads * ChunkLimit \in Int /\ Threads * ChunkLimit >= 0
  <2>1. Threads * 0 <= Threads * ChunkLimit /\ Threads * 0 = 0
    BY <1>4, Products
  <2> QED
    BY <1>4, <2>1, Products
<1>6. main'.covered \subseteq 0..(NextSeed - 1)
  <2>1. NextSeed >= main.seed
    BY <1>2, <1>3, <1>5
  <2>2. \A n \in main.covered : n \in 0..(NextSeed - 1)
    BY <1>2, <1>3, <2>1
  <2>3. \A n \in Done : n \in 0..(NextSeed - 1)
    BY <1>2, <1>3
  <2> QED
    BY <1>3, <2>2, <2>3
<1>7. ASSUME main'.step = "chunk" PROVE NextSeed <= Threads * main'.total
  <2>1. PICK m : m = main'.total
    OBVIOUS
  <2>2. m \in Nat /\ m >= main.total + ChunkLimit
    BY <1>3, <1>7, <2>1
  <2>3. /\ Threads * (main.total + ChunkLimit) <= Threads * m
        /\ Threads * (main.total + ChunkLimit) = Threads * main.total + Threads * ChunkLimit
        /\ Threads * main.total \in Int /\ Threads * m \in Int
    BY <1>2, <1>4, <2>2, Products
  <2>4. NextSeed <= Threads * m
    BY <1>2, <1>3, <1>5, <2>3
  <2> QED
    BY <2>1, <2>4
<1>8. NoncesBehindSeed'
  <2>1. Threads' = Threads
    BY DEF Threads
  <2> QED
    BY <1>3, <1>6, <1>7, <2>1 DEF NoncesBehindSeed
<1> QED
  BY <1>3, <1>8 DEF ChunkSearched

LEMMA ChunkStep ==
  ASSUME MinerInv, MinerNext
  PROVE  NoncesBehindSeed' /\ ChunkSearched'
<1> USE DEF MinerInv
<1>1. MinerTyped /\ main \in MainRecord
  BY DEF MinerTyped
<1>2. CASE BeginMine
  <2>1. PICK m : m = MainAt("chunk") /\ main' = m
    BY <1>2 DEF BeginMine
  <2>2. m.step = "chunk" /\ m.covered = {} /\ m.seed = 0 /\ m.total = 0
    BY <2>1 DEF MainAt
  <2>3. Threads' * 0 = 0
    BY ThreadsTyped DEF Threads
  <2> QED
    BY <2>1, <2>2, <2>3 DEF NoncesBehindSeed, ChunkSearched
<1>3. CASE StartChunk
  <2>1. main.step = "chunk" /\ main.total < MaxIterations
    BY <1>3 DEF StartChunk
  <2>2. main' = [main EXCEPT !.step = "collect"]
    BY <1>3 DEF StartChunk
  <2>3. /\ main'.step = "collect" /\ main'.seed = main.seed /\ main'.total = main.total
        /\ main'.covered = main.covered
    BY <1>1, <2>2 DEF MainRecord
  <2>4. ChunkLimit \in 1..(MaxIterations - main.total)
    BY <1>1, <2>1, LimitBounds
  <2>5. \A w \in Worker : worker'[w].step = "search" /\ worker'[w].nonces = NonceRange(w)
    BY <1>1, <1>3, <2>4, AnewEffect
  <2>6. NoncesBehindSeed'
    BY <2>1, <2>3 DEF NoncesBehindSeed, Threads
  <2>7. \A w \in Worker : Searched(w)'
    BY <2>3, <2>5, SameRanges DEF Searched
  <2> QED
    BY <2>1, <2>3, <2>6, <2>7 DEF ChunkSearched
<1>4. CASE \E w \in Worker : EndProcess(w)
  <2>1. PICK w \in Worker : EndProcess(w)
    BY <1>4
  <2>2. main' = main
    BY <2>1 DEF EndProcess
  <2>3. \A v \in Worker : NonceRange(v)' = NonceRange(v)
    BY <2>2, SameRanges
  <2>4. NoncesBehindSeed'
    BY <2>2 DEF NoncesBehindSeed, Threads
  <2>5. ASSUME main.step = "collect", NEW v \in Worker PROVE Searched(v)'
    <3>1. Searched(v)
      BY <2>5 DEF ChunkSearched
    <3>2. CASE v = w
      BY <1>1, <2>1, <2>3, <3>1, <3>2, ProcessEffect DEF Searched
    <3>3. CASE v # w
      <4>1. worker'[v] = worker[v]
        BY <1>1, <2>1, <3>3, ProcessEffect
      <4> QED
        BY <2>3, <3>1, <4>1 DEF Searched
    <3> QED
      BY <3>2, <3>3
  <2> QED
    BY <2>2, <2>4, <2>5 DEF ChunkSearched
<1>5. CASE CollectChunk
  BY <1>5, CollectKeepsSeed
<1>6. CASE \/ BeginCycle \/ RefreshEnds \/ ReadHeight \/ CheckParent \/ CheckBits
           \/ ConnectMined \/ CheckTip \/ CheckHeight \/ StartMiner
  <2>1. main'.step \notin {"chunk", "collect"}
    <3>1. CASE BeginCycle
      BY <3>1 DEF BeginCycle, MainAt
    <3>2. CASE RefreshEnds \/ ReadHeight
      BY <1>1, <3>2 DEF RefreshEnds, ReadHeight, MainRecord
    <3>3. CASE CheckParent \/ CheckBits \/ ConnectMined \/ CheckTip \/ CheckHeight \/ StartMiner
      BY <1>1, <3>3, MainMoves DEF CheckParent, CheckBits, ConnectMined, CheckTip,
           CheckHeight, StartMiner, MainStep
    <3> QED
      BY <1>6, <3>1, <3>2, <3>3
  <2> QED
    BY <2>1 DEF NoncesBehindSeed, ChunkSearched
<1>7. CASE NetExtend \/ NetReorg \/ RefreshBuilds \/ RefreshPublishes
  <2>1. main' = main /\ worker' = worker
    BY <1>7 DEF NetExtend, NetReorg, RefreshBuilds, RefreshPublishes
  <2>2. \A v \in Worker : NonceRange(v)' = NonceRange(v)
    BY <2>1, SameRanges
  <2> QED
    BY <2>1, <2>2 DEF NoncesBehindSeed, ChunkSearched, Searched, Threads
<1>8. CASE \E w \in Worker : \/ TakeJob(w) \/ SeeVersion(w) \/ ReloadJob(w)
                             \/ FindBlock(w) \/ StopWorker(w)
  <2>1. PICK w \in Worker : \/ TakeJob(w) \/ SeeVersion(w) \/ ReloadJob(w)
                            \/ FindBlock(w) \/ StopWorker(w)
    BY <1>8
  <2>2. worker[w].step \in {"start", "hash", "reload"}
    BY <1>1, <2>1, ThreadEffect
  <2>3. main.step # "collect"
    BY <2>2 DEF ChunkSearched, Searched
  <2>4. main' = main \/ main'.step = "threads"
    BY <1>1, <2>1 DEF TakeJob, SeeVersion, ReloadJob, FindBlock, StopWorker, MainRecord
  <2>5. NoncesBehindSeed'
    BY <2>4 DEF NoncesBehindSeed, Threads
  <2> QED
    BY <2>3, <2>4, <2>5 DEF ChunkSearched
<1> QED
  BY <1>2, <1>3, <1>4, <1>5, <1>6, <1>7, <1>8 DEF MinerNext

-----------------------------------------------------------------------------
(* Theorems                                                                *)

LEMMA MinerInitHolds == MinerInit => MinerInv
<1> SUFFICES ASSUME MinerInit PROVE MinerInv
  OBVIOUS
<1>1. MainAt("idle") \in MainRecord /\ MainAt("idle").step = "idle"
  BY FreshTyped DEF MainStep, MainAt
<1>2. tip \in Path
  <2>1. <<"g">> \in Path
    BY DEF Path
  <2> QED
    BY <2>1 DEF MinerInit, Root
<1>3. /\ AllRest \in [Worker -> WorkerRecord]
      /\ \A w \in Worker : AllRest[w].version = 0 /\ AllRest[w].seen = 0
                           /\ AllRest[w].step = "rest"
  BY FreshTyped DEF AllRest, Resting
<1>4. MinerTyped
  BY <1>1, <1>2, <1>3, FreshTyped DEF MinerInit, MinerTyped, NoRefresh
<1>5. VersionsKnown /\ VersionTellsJob
  BY <1>3 DEF MinerInit, VersionsKnown, VersionTellsJob
<1>6. NoncesBehindSeed /\ ChunkSearched
  BY <1>1 DEF MinerInit, NoncesBehindSeed, ChunkSearched
<1> QED
  BY <1>4, <1>5, <1>6 DEF MinerInv

\* The inductive invariant of both miners: the types, the versions the threads know,
\* and the nonces the worker processes have searched.
THEOREM MinerInvariance == MinerSpec => []MinerInv
<1>1. MinerInit => MinerInv
  BY MinerInitHolds
<1>2. MinerInv /\ [MinerNext]_minerVars => MinerInv'
  <2> SUFFICES ASSUME MinerInv, [MinerNext]_minerVars PROVE MinerInv'
    OBVIOUS
  <2>1. CASE MinerNext
    BY <2>1, MinerStepTyped, VersionStep, ChunkStep DEF MinerInv
  <2>2. CASE UNCHANGED minerVars
    BY <2>2 DEF minerVars, MinerInv, MinerTyped, VersionsKnown, VersionTellsJob,
         NoncesBehindSeed, ChunkSearched, Searched, NonceRange, ChunkLimit, Threads
  <2> QED
    BY <2>1, <2>2
<1> QED
  BY <1>1, <1>2, PTL DEF MinerSpec

\* A worker that sees no newer version hashes on the job of the moment: the version
\* it keeps is read before the job, so that it can be too old but never too new
\* (job_version, current_job and the reload of the worker loop).
THEOREM WorkersFollowJobs == MinerSpec => []VersionTellsJob
<1>1. MinerInv => VersionTellsJob
  BY DEF MinerInv
<1> QED
  BY <1>1, MinerInvariance, PTL

\* In a chunk the workers search disjoint nonces, none of them one of an earlier
\* chunk, whatever was cut short and whoever failed: the seed stands above them all
\* (next_nonce_seed, start_nonce and nonce_step of the mine command).
THEOREM NoNonceTwice == MinerSpec => []NoncesDisjoint
<1>1. MinerInv => NoncesDisjoint
  <2> SUFFICES ASSUME MinerInv, main.step = "collect"
               PROVE  \A v, w \in Worker :
                        /\ worker[w].nonces \cap main.covered = {}
                        /\ v # w => worker[v].nonces \cap worker[w].nonces = {}
    BY DEF NoncesDisjoint
  <2>1. MinerTyped /\ main.covered \subseteq 0..(main.seed - 1) /\ main.seed \in Nat
    BY DEF MinerInv, NoncesBehindSeed, MinerTyped, MainRecord
  <2>2. ChunkLimit \in Nat \ {0} /\ \A w \in Worker : Searched(w)
    <3>1. main.total < MaxIterations /\ \A w \in Worker : Searched(w)
      BY DEF MinerInv, ChunkSearched
    <3>2. ChunkLimit \in 1..(MaxIterations - main.total)
      BY <2>1, <3>1, LimitBounds
    <3> QED
      BY <3>1, <3>2
  <2>3. \A w \in Worker : worker[w].nonces \subseteq NonceRange(w)
    BY <2>2 DEF Searched
  <2>4. \A w \in Worker : NonceRange(w) \subseteq main.seed..(NextSeed - 1) /\ NextSeed \in Nat
    BY <2>1, <2>2, RangeBounds
  <2>5. \A v, w \in Worker : v # w => NonceRange(v) \cap NonceRange(w) = {}
    BY <2>1, <2>2, RangesDisjoint
  <2>6. \A w \in Worker : NonceRange(w) \cap main.covered = {}
    BY <2>1, <2>4
  <2> QED
    BY <2>3, <2>5, <2>6
<1> QED
  BY <1>1, MinerInvariance, PTL

\* The nonces stay below 2^32, though a failed process leaves its range unsearched:
\* a chunk in which all fail is the last.  So the uint32_t of the mine command never
\* wraps around to nonces that have been searched.
THEOREM NoncesNeverWrap == MinerSpec => []NoncesFit
<1>1. MinerInv => NoncesFit
  <2> SUFFICES ASSUME MinerInv, main.step = "collect", NEW w \in Worker
               PROVE  worker[w].nonces \subseteq 0..(NonceSpan - 1)
    BY DEF NoncesFit
  <2>1. /\ MinerTyped /\ main.seed \in Nat /\ main.total \in Nat
        /\ main.seed <= Threads * main.total
    BY DEF MinerInv, NoncesBehindSeed, MinerTyped, MainRecord
  <2>2. main.total < MaxIterations /\ Searched(w)
    BY DEF MinerInv, ChunkSearched
  <2>3. ChunkLimit \in 1..(MaxIterations - main.total) /\ MaxIterations \in Nat
    BY <2>1, <2>2, LimitBounds, MinerAssumption
  <2>4. ChunkLimit \in Nat \ {0}
    BY <2>1, <2>3
  <2>5. /\ worker[w].nonces \subseteq main.seed..(NextSeed - 1)
        /\ NextSeed = main.seed + Threads * ChunkLimit
    BY <2>1, <2>2, <2>4, RangeBounds DEF Searched
  <2>6. /\ Threads * (main.total + ChunkLimit) <= Threads * MaxIterations
        /\ Threads * (main.total + ChunkLimit) = Threads * main.total + Threads * ChunkLimit
        /\ Threads * main.total \in Int /\ Threads * ChunkLimit \in Int
        /\ Threads * MaxIterations \in Int
    <3>1. main.total + ChunkLimit <= MaxIterations /\ main.total + ChunkLimit \in Int
      BY <2>1, <2>3
    <3> QED
      BY <2>1, <2>3, <3>1, ThreadsTyped, Products
  <2>7. Threads * MaxIterations <= NonceSpan /\ NonceSpan \in Nat
    BY MinerAssumption DEF Threads
  <2>8. NextSeed <= NonceSpan /\ NextSeed \in Int
    BY <2>1, <2>5, <2>6, <2>7
  <2>9. \A n \in main.seed..(NextSeed - 1) : n \in 0..(NonceSpan - 1)
    BY <2>1, <2>7, <2>8
  <2> QED
    BY <2>5, <2>9
<1> QED
  BY <1>1, MinerInvariance, PTL
=============================================================================
