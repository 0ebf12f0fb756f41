-------------------------------- MODULE Miner --------------------------------
(***************************************************************************)
(* The two miners.  powminer_main.cpp hashes on threads of its own, which  *)
(* follow a job that a refresh thread replaces under job_mutex; the mine   *)
(* command of main.cpp hands nonce ranges to worker processes, chunk by    *)
(* chunk, and builds a template for each.  Both run against a chain that   *)
(* the network thread moves meanwhile, and check what they found in steps, *)
(* with no lock, before it goes to connect_block.                          *)
(*                                                                         *)
(* A block is the path that leads to it, so tip is the active chain, and a *)
(* job is what matters of a template: the parent it builds on.  template   *)
(* is current_job.  The bits are a function of the parent.                 *)
(***************************************************************************)
EXTENDS Integers, Sequences, FiniteSets, SequencesExt

CONSTANTS
  Worker,        \* threads, or slots for worker processes
  BlockCycles,   \* --block-cycles
  ChunkSize,     \* kChunkIterationsPerWorker
  MaxIterations, \* --cycles, for the worker processes
  NonceSpan,     \* 2^32: a nonce is a uint32_t
  MaxTip,        \* bound: length of the chain
  MaxVersion     \* bound: how often a job is replaced

\* With no thread the division in worker_limit ends the process.  So many cycles that
\* the nonces wrap around are left out.
ASSUME MinerAssumption ==
  /\ BlockCycles \in Nat /\ ChunkSize \in Nat \ {0} /\ MaxIterations \in Nat \ {0}
  /\ IsFiniteSet(Worker) /\ Worker # {} /\ Worker = 0..(Cardinality(Worker) - 1)
  /\ NonceSpan \in Nat /\ Cardinality(Worker) * MaxIterations <= NonceSpan

VARIABLES command, tip, main, template, version, refresh, worker, counted
minerVars == <<command, tip, main, template, version, refresh, worker, counted>>

Threads == Cardinality(Worker)
NoJob == << >>
Root == <<"g">>
\* main is the main thread: its step, the block found, previous_height, and of
\* the mine command total_iter, next_nonce_seed and the nonces that a worker has
\* searched in this cycle.
MainAt(step) == [step |-> step, block |-> NoJob, height |-> 0,
                 total |-> 0, seed |-> 0, covered |-> {}]
\* A worker thread has a job, its version and the version it saw last; a worker
\* process has its nonces, at the end those it has searched.
Resting == [step |-> "rest", on |-> NoJob, version |-> 0, seen |-> 0, nonces |-> {}]
AllRest == [w \in Worker |-> Resting]
NoRefresh == [step |-> "ended", on |-> NoJob]

-----------------------------------------------------------------------------
(* The network thread *)

NetExtend ==
  /\ Len(tip) < MaxTip
  /\ tip' = Append(tip, "net")
  /\ UNCHANGED <<command, main, template, version, refresh, worker, counted>>

\* A heavier branch takes the place of the last block.
NetReorg ==
  /\ Len(tip) \in 2..(MaxTip - 1) /\ Last(tip) # "alt"
  /\ tip' = Front(tip) \o <<"alt", "net">>
  /\ UNCHANGED <<command, main, template, version, refresh, worker, counted>>

-----------------------------------------------------------------------------
(* powminer_main.cpp: one block cycle *)

BeginCycle ==
  /\ main.step = "idle" /\ command = "powminer" /\ Cardinality(counted) < BlockCycles
  /\ main' = MainAt("threads")
  /\ template' = tip /\ version' = 0 /\ refresh' = [step |-> "asleep", on |-> NoJob]
  /\ worker' = [w \in Worker |-> [Resting EXCEPT !.step = "start"]]
  /\ UNCHANGED <<command, tip, counted>>

\* A worker begins with the job and its version, read under the lock.
TakeJob(w) ==
  /\ worker[w].step = "start"
  /\ worker' = [worker EXCEPT ![w] = [Resting EXCEPT !.step = "hash", !.on = template,
                                                     !.version = version]]
  /\ UNCHANGED <<command, tip, main, template, version, refresh, counted>>

\* The version is read before the lock is taken ...
SeeVersion(w) ==
  /\ worker[w].step = "hash" /\ version # worker[w].version
  /\ worker' = [worker EXCEPT ![w].step = "reload", ![w].seen = version]
  /\ UNCHANGED <<command, tip, main, template, version, refresh, counted>>

\* The mutant: the version noted is the one of now, the job copied before.
ReloadThenRead(w) ==
  /\ worker[w].step = "reload"
  /\ \/ worker[w].version # worker[w].seen
        /\ worker' = [worker EXCEPT ![w].on = template, ![w].version = worker[w].seen]
     \/ worker[w].version = worker[w].seen
        /\ worker' = [worker EXCEPT ![w].step = "hash", ![w].version = version]
  /\ UNCHANGED <<command, tip, main, template, version, refresh, counted>>

\* ... and kept as the version of whatever job is there then.
ReloadJob(w) ==
  /\ worker[w].step = "reload"
  /\ worker' = [worker EXCEPT ![w].step = "hash", ![w].on = template,
                              ![w].version = worker[w].seen]
  /\ UNCHANGED <<command, tip, main, template, version, refresh, counted>>

\* A batch meets the target: the first to say so leaves its block.
FindBlock(w) ==
  /\ worker[w].step = "hash" /\ main.step = "threads" /\ Len(worker[w].on) < MaxTip
  /\ main' = IF main.block = NoJob
             THEN [main EXCEPT !.block = Append(worker[w].on, "mine")] ELSE main
  /\ worker' = [worker EXCEPT ![w].step = "done"]
  /\ UNCHANGED <<command, tip, template, version, refresh, counted>>

\* Somebody has found one, or the iterations are used up.
StopWorker(w) ==
  /\ worker[w].step = "hash" /\ main.step = "threads"
  /\ worker' = [worker EXCEPT ![w].step = "done"]
  /\ UNCHANGED <<command, tip, main, template, version, refresh, counted>>

RefreshBuilds ==
  /\ refresh.step = "asleep" /\ (tip = template \/ version < MaxVersion)
  /\ refresh' = [step |-> "built", on |-> tip]
  /\ UNCHANGED <<command, tip, main, template, version, worker, counted>>

\* A job on another parent replaces the old one.  One that differs in its
\* timestamp alone replaces it too but leaves the version, so that the workers
\* never take it up.
RefreshPublishes ==
  /\ refresh.step = "built"
  /\ template' = refresh.on
  /\ version' = IF refresh.on = template THEN version ELSE version + 1
  /\ refresh' = [step |-> "asleep", on |-> NoJob]
  /\ UNCHANGED <<command, tip, main, worker, counted>>

\* refresh_running is false; the thread ends with its turn.
RefreshEnds ==
  /\ refresh.step = "asleep"
  /\ main.step = "threads" /\ \A w \in Worker : worker[w].step = "done"
  /\ refresh' = NoRefresh
  /\ main' = [main EXCEPT !.step = IF main.block = NoJob THEN "stopped" ELSE "found"]
  /\ UNCHANGED <<command, tip, template, version, worker, counted>>

-----------------------------------------------------------------------------
(* main.cpp: one block cycle of the mine command *)

BeginMine ==
  /\ main.step = "idle" /\ command = "mine" /\ Cardinality(counted) < BlockCycles
  /\ main' = MainAt("chunk")
  /\ UNCHANGED <<command, tip, template, version, refresh, worker, counted>>

\* worker_limit: the rest of the iterations, shared out and rounded up.
ChunkLimit ==
  LET share == (MaxIterations - main.total + Threads - 1) \div Threads
  IN  IF share < ChunkSize THEN share ELSE ChunkSize

NonceRange(w) == {main.seed + w + i * Threads : i \in 0..(ChunkLimit - 1)}

StartChunk ==
  /\ main.step = "chunk" /\ main.total < MaxIterations
  /\ template' = tip
  /\ worker' = [w \in Worker |-> [Resting EXCEPT !.step = "search", !.nonces = NonceRange(w)]]
  /\ main' = [main EXCEPT !.step = "collect"]
  /\ UNCHANGED <<command, tip, version, refresh, counted>>

\* A process searches its range to the end or to a hit, or it fails.
EndProcess(w) ==
  /\ worker[w].step = "search"
  /\ \/ worker' = [worker EXCEPT ![w].step = "dry"]
     \/ /\ Len(template) < MaxTip
        /\ \E n \in worker[w].nonces :
             worker' = [worker EXCEPT ![w].step = "hit", ![w].nonces = {m \in @ : m <= n}]
     \/ worker' = [worker EXCEPT ![w].step = "failed", ![w].nonces = {}]
  /\ UNCHANGED <<command, tip, main, template, version, refresh, counted>>

\* The mutant: the seed moves by the iterations of one worker.
SeedByOneRange == main.seed + ChunkLimit
NextSeed == main.seed + Threads * ChunkLimit

\* The results, in the order of the slots: the first hit counts.
CollectChunk ==
  /\ main.step = "collect" /\ \A w \in Worker : worker[w].step # "search"
  /\ LET done == UNION {worker[w].nonces : w \in Worker}
         hit == \E w \in Worker : worker[w].step = "hit"
         total == main.total + Cardinality(done)
     IN  main' = [main EXCEPT
           !.block = IF hit THEN Append(template, "mine") ELSE NoJob,
           !.total = total, !.seed = NextSeed, !.covered = @ \cup done,
           !.step = IF hit THEN "found"
                    ELSE IF done # {} /\ total < MaxIterations THEN "chunk" ELSE "stopped"]
  /\ worker' = AllRest
  /\ UNCHANGED <<command, tip, template, version, refresh, counted>>

-----------------------------------------------------------------------------
(* Both: the block is checked and connected *)

Proceed(step) == main' = [main EXCEPT !.step = step]
GiveUp == main' = MainAt("idle")
MainOnly == UNCHANGED <<command, template, version, refresh, worker>>

ReadHeight ==
  /\ main.step = "found"
  /\ main' = [main EXCEPT !.step = "parent", !.height = Len(tip)]
  /\ UNCHANGED <<tip, counted>> /\ MainOnly

\* The block at that height, by now perhaps another, must be its parent.
CheckParent ==
  /\ main.step = "parent"
  /\ IF Front(main.block) = SubSeq(tip, 1, main.height) THEN Proceed("bits") ELSE GiveUp
  /\ UNCHANGED <<tip, counted>> /\ MainOnly

\* next_work_bits is the one of its parent, unless the chain has moved.
CheckBits ==
  /\ main.step = "bits"
  /\ Proceed("connect") \/ (tip # Front(main.block) /\ GiveUp)
  /\ UNCHANGED <<tip, counted>> /\ MainOnly

\* connect_block takes a child of the tip only.
ConnectMined ==
  /\ main.step = "connect"
  /\ IF tip = Front(main.block) THEN tip' = main.block /\ Proceed("tip")
     ELSE UNCHANGED tip /\ GiveUp
  /\ UNCHANGED counted /\ MainOnly

CheckTip ==
  /\ main.step = "tip"
  /\ IF tip = main.block THEN Proceed("height") ELSE GiveUp
  /\ UNCHANGED <<tip, counted>> /\ MainOnly

\* The block counts, and the chain's sync approval is set (PeerSync).
CheckHeight ==
  /\ main.step = "height"
  /\ counted' = IF Len(tip) = main.height + 1 THEN counted \cup {main.block} ELSE counted
  /\ GiveUp
  /\ UNCHANGED tip /\ MainOnly

\* The process ends, with or without its blocks, and is started again.
StartMiner ==
  /\ \/ main.step = "stopped"
     \/ main.step = "idle" /\ Cardinality(counted) = BlockCycles
  /\ GiveUp /\ counted' = {}
  /\ worker' = AllRest
  /\ UNCHANGED <<command, tip, template, version, refresh>>

MinerInit ==
  /\ command \in {"powminer", "mine"}
  /\ tip = Root /\ main = MainAt("idle")
  /\ template = NoJob /\ version = 0 /\ refresh = NoRefresh
  /\ worker = AllRest /\ counted = {}

MinerNext ==
  \/ NetExtend \/ NetReorg
  \/ BeginCycle \/ RefreshBuilds \/ RefreshPublishes \/ RefreshEnds
  \/ \E w \in Worker : \/ TakeJob(w) \/ SeeVersion(w) \/ ReloadJob(w)
                       \/ FindBlock(w) \/ StopWorker(w) \/ EndProcess(w)
  \/ BeginMine \/ StartChunk \/ CollectChunk
  \/ ReadHeight \/ CheckParent \/ CheckBits \/ ConnectMined
  \/ CheckTip \/ CheckHeight
  \/ StartMiner

MinerSpec == MinerInit /\ [][MinerNext]_minerVars

-----------------------------------------------------------------------------
(* Properties *)

\* A worker that sees no newer version hashes on the job of the moment: the
\* version is read without the lock and a job may be replaced right then, but
\* nobody is left on an abandoned parent for good (job_version, current_job and
\* the reload of the worker loop).
VersionTellsJob ==
  \A w \in Worker :
    worker[w].step = "hash" /\ worker[w].version = version => worker[w].on = template

\* Within a block cycle no nonce is searched twice, by another worker of the
\* chunk or in a later chunk, when ranges were cut short by a hit, the last chunk
\* is smaller and processes fail (start_nonce, nonce_step, next_nonce_seed).
NoncesDisjoint ==
  main.step = "collect" =>
    \A v, w \in Worker :
      /\ worker[w].nonces \cap main.covered = {}
      /\ v # w => worker[v].nonces \cap worker[w].nonces = {}

MinerTypeOK ==
  /\ command \in {"powminer", "mine"}
  /\ Len(tip) \in 1..MaxTip /\ Len(main.block) <= MaxTip
  /\ version \in 0..MaxVersion
  /\ main.step \in {"idle", "threads", "chunk", "collect", "found", "parent", "bits",
                    "connect", "tip", "height", "stopped"}
  /\ \A w \in Worker : worker[w].step \in
       {"rest", "start", "hash", "reload", "done", "search", "dry", "hit", "failed"}
  /\ refresh.step \in {"asleep", "built", "ended"}
=============================================================================
