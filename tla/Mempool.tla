------------------------------- MODULE Mempool -------------------------------
(***************************************************************************)
(* The transaction pool (src/src/mempool.cpp) between the threads that     *)
(* submit to it, the thread that activates a new chain under it, and the   *)
(* miner that takes block templates out of it.                             *)
(*                                                                         *)
(* mp is the pool proper: txs is txs_ with sorted_by_feerate_ (the same    *)
(* entries, ordered by TxRank), spentBy is spent_outpoints_, bytes is      *)
(* total_bytes_, orphans is orphan_order_ with orphans_, and waiting is    *)
(* the multimap orphans_by_parent_ as <<parent, orphan>> pairs.  coins and *)
(* height are utxo_ and best_height_; the three steps of activate_path     *)
(* that matter here are separate because no lock spans them.               *)
(***************************************************************************)
EXTENDS Integers, Sequences, FiniteSets, SequencesExt, FiniteSetsExt, TLC, Positions

CONSTANTS
  PoolTx,       \* the transactions that may be submitted
  TxSpends,     \* [PoolTx -> set of outpoints <<maker, index>>]
  TxOutputs,    \* [PoolTx -> number of outputs]
  TxSize,       \* [PoolTx -> bytes]
  TxRank,       \* [PoolTx -> Nat]: the order of (feerate, fee, hash)
  TxFlaw,       \* [PoolTx -> Flaws]
  PoolSpace,    \* MAX_MEMPOOL_SIZE_BYTES
  PoolCount,    \* MAX_MEMPOOL_TRANSACTIONS
  OrphanLimit,  \* MAX_MEMPOOL_ORPHANS
  BlockSpace,   \* what MAX_BLOCK_SIZE_BYTES leaves beside the coinbase
  Maturity,     \* COINBASE_MATURITY
  HeightModulus,\* heights are uint32_t in apply_transaction
  Tips,         \* chain states: [height, coins], coins: outpoint -> entry
  Submitters    \* the threads that call add_transaction

\* What makes a transaction fail: its form (validate_basic, the standard
\* policy), a signature, or outputs worth more than its inputs.
Flaws == {"none", "form", "signature", "overspend"}

ASSUME MempoolAssumption ==
  /\ TxFlaw \in [PoolTx -> Flaws]
  /\ \A a, b \in PoolTx : TxRank[a] = TxRank[b] => a = b
  /\ IsFiniteSet(PoolTx) /\ TxSize \in [PoolTx -> Nat] /\ TxRank \in [PoolTx -> Nat]
  /\ PoolSpace \in Nat /\ PoolCount \in Nat
  /\ OrphanLimit \in Nat \ {0}
  /\ BlockSpace \in Nat /\ Maturity \in Nat /\ HeightModulus \in Nat
  /\ \A t \in Tips : t.height \in Nat /\ t.height + 1 < HeightModulus

\* The ledger knows the height of an output, and that it is a coinbase's only
\* if it is: the id of a transaction with a proper form is not a coinbase's.
ASSUME CoinsAssumption ==
  \A t \in Tips : \A o \in DOMAIN t.coins :
    /\ t.coins[o].height \in Nat
    /\ o[1] \in PoolTx /\ TxFlaw[o[1]] # "form" => ~t.coins[o].coinbase

VARIABLES mp, coins, height, activating, calls, work, admitted, job
mempoolVars == <<mp, coins, height, activating, calls, work, admitted, job>>

NoTask == [phase |-> "none"]       \* no activation, no miner at work
NoCall == [height |-> 0, stack |-> << >>]
EmptyPool == [txs |-> {}, spentBy |-> << >>, bytes |-> 0,
              orphans |-> << >>, waiting |-> {}]

OutPoints(tx) == {<<tx, i>> : i \in 0..(TxOutputs[tx] - 1)}
Bytes(S) == UNION {{t} \X (1..TxSize[t]) : t \in S}
SumSize(S) == Cardinality(Bytes(S))

-----------------------------------------------------------------------------
(* The set of unspent outputs *)

\* The entry's age as apply_transaction computes it, in uint32_t.
MatureAt(e, h) == e.coinbase => (h - e.height) % HeightModulus >= Maturity
\* apply_transaction on the set c: the result and the set it leaves.  The
\* inputs are erased before the sums are compared.
Applied(c, tx, h) ==
  IF \/ ~(TxSpends[tx] \subseteq DOMAIN c)
     \/ TxFlaw[tx] = "signature"
     \/ \E o \in TxSpends[tx] : ~MatureAt(c[o], h)
  THEN [ok |-> FALSE, coins |-> c]
  ELSE LET left == DOMAIN c \ TxSpends[tx]
       IN  IF TxFlaw[tx] = "overspend" THEN [ok |-> FALSE, coins |-> [o \in left |-> c[o]]]
           ELSE [ok |-> TRUE,
                 coins |-> [o \in OutPoints(tx) \cup left |->
                              IF o \in OutPoints(tx) THEN [height |-> h, coinbase |-> FALSE]
                              ELSE c[o]]]

-----------------------------------------------------------------------------
(* Operations on the pool record *)

\* The mutant: the spends of an evicted transaction stay booked.
RemoveTxsOnly(p, S) == [p EXCEPT !.txs = @ \ S, !.bytes = @ - SumSize(S)]

\* remove_transaction_unlocked for each of S.
RemoveTxs(p, S) ==
  [p EXCEPT !.txs = @ \ S,
            !.spentBy = [o \in {x \in DOMAIN p.spentBy : p.spentBy[x] \notin S}
                           |-> p.spentBy[o]],
            !.bytes = @ - SumSize(S)]

Lowest(p, n) == {t \in p.txs : Cardinality({u \in p.txs : TxRank[u] < TxRank[t]}) < n}
WithinLimits(p) == p.bytes <= PoolSpace /\ Cardinality(p.txs) <= PoolCount

\* trim_to_limits_unlocked: the lowest fee rates go, as few as will do.
Trim(p) ==
  LET n == Min({k \in 0..Cardinality(p.txs) : WithinLimits(RemoveTxs(p, Lowest(p, k)))})
  IN  RemoveTxs(p, Lowest(p, n))

Insert(p, tx) ==
  [p EXCEPT !.txs = @ \cup {tx},
            !.spentBy = [o \in TxSpends[tx] \cup DOMAIN p.spentBy |->
                           IF o \in TxSpends[tx] THEN tx ELSE p.spentBy[o]],
            !.bytes = @ + TxSize[tx]]

OrphansBut(p, S) == AtPositions(p.orphans, {i \in DOMAIN p.orphans : p.orphans[i] \notin S})

\* The mutant: the index entries of the orphans stay.
RemoveOrphansQueueOnly(p, S) == [p EXCEPT !.orphans = OrphansBut(p, S)]

\* remove_orphan_unlocked for each of S.
RemoveOrphans(p, S) ==
  [p EXCEPT !.orphans = OrphansBut(p, S), !.waiting = {w \in @ : w[2] \notin S}]

AddOrphan(p, tx, parents) ==
  LET n == Len(p.orphans)
      gone == {p.orphans[i] : i \in 1..(n - OrphanLimit + 1)}
      q == RemoveOrphans(p, gone)
  IN  [q EXCEPT !.orphans = Append(@, tx), !.waiting = @ \cup (parents \X {tx})]

\* process_orphans_for_parent_unlocked: the copy it takes of the index.
ReadyFor(p, parent) == {w[2] : w \in {x \in p.waiting : x[1] = parent}}

-----------------------------------------------------------------------------
(* add_transaction_unlocked *)

DoubleSpends(p, tx) == TxSpends[tx] \cap DOMAIN p.spentBy # {}
MissingParents(p, tx) ==
  {o[1] : o \in {x \in TxSpends[tx] : x \notin DOMAIN coins /\ x[1] \notin p.txs}}
NoSuchOutput(p, tx) ==
  \E o \in TxSpends[tx] \ DOMAIN coins : o[1] \in p.txs /\ o \notin OutPoints(o[1])

\* The mutant: a negative fee is not looked at.
RejectedUnlessPaid(tx, h) == TxFlaw[tx] = "signature"

\* The checks that follow once every input is resolved: fee, signatures, and
\* maturity at the height the caller read, here in 64 bits.
Rejected(tx, h) ==
  \/ TxFlaw[tx] \in {"signature", "overspend"}
  \/ \E o \in TxSpends[tx] \cap DOMAIN coins :
       coins[o].coinbase /\ h + 1 < coins[o].height + Maturity

Known(p, tx) == tx \in p.txs \/ tx \in ToSet(p.orphans)

\* The pool after the call; process_orphans is RetryOrphan.
AfterAdd(p, tx, h) ==
  IF TxFlaw[tx] = "form" \/ Known(p, tx) \/ DoubleSpends(p, tx) \/ NoSuchOutput(p, tx)
  THEN p
  ELSE IF MissingParents(p, tx) # {} THEN AddOrphan(p, tx, MissingParents(p, tx))
  ELSE IF Rejected(tx, h) THEN p
  ELSE Trim(Insert(p, tx))

Accepted(p, q, tx) == tx \in q.txs \ p.txs
Pending(stack) == AtPositions(stack, {i \in DOMAIN stack : stack[i] # {}})
Unlocked == work.stack = << >>

\* The TX handler, sendrawtransaction, sendtoaddress: best_height() is
\* evaluated before the pool is locked.
Submit(s, tx) ==
  /\ calls[s] = << >>
  /\ calls' = [calls EXCEPT ![s] = <<tx, height>>]
  /\ UNCHANGED <<mp, coins, height, activating, work, admitted, job>>

Add(s) ==
  /\ calls[s] # << >> /\ Unlocked
  /\ LET tx == calls[s][1]
         h == calls[s][2]
         q == AfterAdd(mp, tx, h)
         in == Accepted(mp, q, tx)
     IN /\ mp' = q
        /\ admitted' = admitted \cup (q.txs \ mp.txs)
        /\ LET todo == Pending(IF in THEN <<ReadyFor(q, tx)>> ELSE << >>)
           IN  work' = IF todo = << >> THEN NoCall ELSE [height |-> h, stack |-> todo]
  /\ calls' = [calls EXCEPT ![s] = << >>]
  /\ UNCHANGED <<coins, height, activating, job>>

\* One turn of process_orphans_for_parent_unlocked, lock held.  An orphan
\* that is gone meanwhile is skipped; one that is accepted starts a nested
\* loop over its own children.
RetryOrphan ==
  \E o \in Head(work.stack \o <<{}>>) :
    LET there == o \in ToSet(mp.orphans)
        p == RemoveOrphans(mp, {o})
        q == IF there THEN AfterAdd(p, o, work.height) ELSE mp
        nested == IF there /\ Accepted(p, q, o) THEN <<ReadyFor(q, o)>> ELSE << >>
        todo == Pending(nested \o <<Head(work.stack) \ {o}>> \o Tail(work.stack))
    IN /\ mp' = q
       /\ admitted' = admitted \cup (q.txs \ mp.txs)
       /\ work' = IF todo = << >> THEN NoCall ELSE [work EXCEPT !.stack = todo]
       /\ UNCHANGED <<coins, height, activating, calls, job>>

-----------------------------------------------------------------------------
(* activate_path *)

ActivateHeight(t) ==
  /\ activating = NoTask
  /\ height' = t.height
  /\ activating' = [phase |-> "coins", tip |-> t]
  /\ UNCHANGED <<mp, coins, calls, work, admitted, job>>

ActivateCoins ==
  /\ activating.phase = "coins"
  /\ coins' = activating.tip.coins
  /\ activating' = [phase |-> "clear"]
  /\ UNCHANGED <<mp, height, calls, work, admitted, job>>

\* The mutant: the clear empties the orphan store only.
ClearOrphans ==
  /\ activating.phase = "clear" /\ Unlocked
  /\ mp' = [mp EXCEPT !.orphans = << >>, !.waiting = {}]
  /\ admitted' = {}
  /\ activating' = NoTask
  /\ UNCHANGED <<coins, height, calls, work, job>>
ClearPool ==
  /\ activating.phase = "clear" /\ Unlocked
  /\ mp' = EmptyPool
  /\ admitted' = {}
  /\ activating' = NoTask
  /\ UNCHANGED <<coins, height, calls, work, job>>

-----------------------------------------------------------------------------
(* get_mineable_transactions, for build_template *)

\* The turn of one entry.  What does not fit is dropped for good, what does not
\* apply waits for the next pass.
TryEntry(st, tx, h) ==
  IF st.bytes + TxSize[tx] > BlockSpace THEN st
  ELSE LET r == Applied(st.coins, tx, h)
       IN  IF r.ok
           THEN [st EXCEPT !.coins = r.coins, !.txs = Append(@, tx),
                           !.bytes = @ + TxSize[tx], !.progress = TRUE]
           ELSE [st EXCEPT !.coins = r.coins, !.later = Append(@, tx)]

\* One turn of the loops: the next entry, best fee rate first, or the next pass.
\* The passes end with the first that selects nothing.
Turn(st, h) ==
  IF st.pending # << >> THEN [TryEntry(st, Head(st.pending), h) EXCEPT !.pending = Tail(@)]
  ELSE IF st.progress THEN [st EXCEPT !.pending = st.later, !.later = << >>, !.progress = FALSE]
  ELSE st

\* The state of the loops after every number of turns.  With n entries there are
\* at most n + 1 passes, each of at most n entries.
Start(list, c) == [coins |-> c, txs |-> << >>, bytes |-> 0, pending |-> list,
                   later |-> << >>, progress |-> FALSE]
MaxTurns(list) == (Len(list) + 1) * (Len(list) + 2)
Turns(list, c, h) ==
  LET after[k \in 0..MaxTurns(list)] ==
        IF k = 0 THEN Start(list, c) ELSE Turn(after[k - 1], h)
  IN  after

Selection(list, c, h) == Turns(list, c, h)[MaxTurns(list)].txs

\* sorted_by_feerate_, from its end.
ByFeerate(S) ==
  LET ranks == {TxRank[t] : t \in S}
  IN  Reverse(AtPositions([r \in ranks |-> CHOOSE t \in S : TxRank[t] = r], ranks))

MinerReadsHeight ==
  /\ job = NoTask
  /\ job' = [phase |-> "height", next |-> height + 1]
  /\ UNCHANGED <<mp, coins, height, activating, calls, work, admitted>>

MinerReadsPool ==
  /\ job.phase = "height" /\ Unlocked
  /\ job' = [phase |-> "pool", next |-> job.next, list |-> ByFeerate(mp.txs)]
  /\ UNCHANGED <<mp, coins, height, activating, calls, work, admitted>>

\* The set of unspent outputs is copied; the selection works on the copy.
MinerSelects ==
  /\ job.phase = "pool"
  /\ job' = [phase |-> "block", next |-> job.next, list |-> job.list, base |-> coins,
             txs |-> Selection(job.list, coins, job.next)]
  /\ UNCHANGED <<mp, coins, height, activating, calls, work, admitted>>

\* The block is mined or given up; connecting it is an activation.
MinerDone ==
  /\ job.phase = "block"
  /\ job' = NoTask
  /\ UNCHANGED <<mp, coins, height, activating, calls, work, admitted>>

MempoolInit ==
  /\ mp = EmptyPool
  /\ \E t \in Tips : coins = t.coins /\ height = t.height
  /\ activating = NoTask
  /\ calls = [s \in Submitters |-> << >>]
  /\ work = NoCall
  /\ admitted = {}
  /\ job = NoTask

MempoolNext ==
  \/ \E s \in Submitters, tx \in PoolTx : Submit(s, tx)
  \/ \E s \in Submitters : Add(s)
  \/ RetryOrphan
  \/ \E t \in Tips : ActivateHeight(t)
  \/ ActivateCoins
  \/ ClearPool
  \/ MinerReadsHeight
  \/ MinerReadsPool
  \/ MinerSelects
  \/ MinerDone

MempoolSpec == MempoolInit /\ [][MempoolNext]_mempoolVars

-----------------------------------------------------------------------------
(* Properties *)

\* The pool's indices agree and its limits hold whenever its lock is free:
\* no two entries spend one output, every spend of an entry is booked under
\* it and no other is, the byte counter is the sum, and neither the entries
\* nor the orphans exceed their limits (check_double_spend, the eviction and
\* the orphan store of mempool.cpp keep five containers in step).
PoolConsistent ==
  /\ mp.spentBy = [o \in UNION {TxSpends[t] : t \in mp.txs} |->
                     CHOOSE t \in mp.txs : o \in TxSpends[t]]
  /\ \A a, b \in mp.txs : a # b => TxSpends[a] \cap TxSpends[b] = {}
  /\ mp.bytes = SumSize(mp.txs)
  /\ WithinLimits(mp)
  /\ Len(mp.orphans) <= OrphanLimit /\ IsInjective(mp.orphans)
  /\ mp.txs \cap ToSet(mp.orphans) = {}

\* No orphan is stuck: whenever the lock is free and no clear is due, each
\* orphan waits for a parent that is in neither the pool nor the chain, and
\* the index names stored orphans only (process_orphans takes its list before
\* the nested calls change the index).
OrphansWaitForMissing ==
  Unlocked /\ activating.phase # "clear" =>
    /\ {w[2] : w \in mp.waiting} = ToSet(mp.orphans)
    /\ \A o \in ToSet(mp.orphans) :
         \E x \in TxSpends[o] : /\ <<x[1], o>> \in mp.waiting
                                /\ x \notin DOMAIN coins /\ x[1] \notin mp.txs

\* Once an activation has cleared the pool, nothing in it was resolved against
\* the chain that went: every input is an output of the active chain or of a
\* transaction that was admitted on top of it (the clear follows the swap, and
\* an addition that was under way is wiped by it).
PoolOnActiveChain ==
  activating.phase # "clear" =>
    \A t \in mp.txs : \A o \in TxSpends[t] :
      o \in DOMAIN coins \/ o[1] \in admitted

\* What is unspent on the outputs base after the first k transactions of s: what
\* base has, or one of them made, and no later one of them spends.
Unspent(base, s, k) ==
  {o \in DOMAIN base : \A j \in 1..k : o \notin TxSpends[s[j]]}
  \cup UNION {{o \in OutPoints(s[i]) : \A j \in (i + 1)..k : o \notin TxSpends[s[j]]} :
                i \in 1..k}
Timely(base, next) == \A o \in DOMAIN base : base[o].height < next
Mature(base, next, tx) ==
  \A o \in TxSpends[tx] \cap DOMAIN base :
    base[o].coinbase => next - base[o].height >= Maturity

\* A template is a valid block body on the outputs it was built from: each
\* transaction spends outputs that exist and are unspent at its place, it
\* fits, and nobody was left out who would still apply and fit, so that no
\* failed attempt has eaten outputs (get_mineable_transactions).  Maturity is
\* asked of a ledger that is Timely: built for a height below that of one of its
\* outputs, the age of the output wraps around, and nothing is promised.
TemplateValid ==
  job.phase = "block" =>
    LET s == job.txs
        n == Len(s)
        mature(t) == Mature(job.base, job.next, t)
    IN /\ \A k \in 1..n : /\ TxSpends[s[k]] \subseteq Unspent(job.base, s, k - 1)
                          /\ Timely(job.base, job.next) => mature(s[k])
       /\ SumSize(ToSet(s)) <= BlockSpace
       /\ \A t \in ToSet(job.list) \ ToSet(s) :
            \/ ~(TxSpends[t] \subseteq Unspent(job.base, s, n)) \/ ~mature(t)
            \/ SumSize(ToSet(s)) + TxSize[t] > BlockSpace

MempoolTypeOK ==
  /\ mp.txs \subseteq PoolTx /\ mp.bytes \in Int
  /\ mp.orphans \in Seq(PoolTx)
  /\ \A w \in mp.waiting : w[2] \in PoolTx
  /\ height \in {t.height : t \in Tips} /\ coins \in {t.coins : t \in Tips}
  /\ admitted \subseteq PoolTx /\ mp.txs \subseteq admitted
  /\ \A i \in 1..Len(work.stack) : work.stack[i] \in SUBSET PoolTx
  /\ activating.phase \in {"none", "coins", "clear"}
  /\ job.phase \in {"none", "height", "pool", "block"}
=============================================================================
