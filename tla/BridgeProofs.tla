----------------------------- MODULE BridgeProofs -----------------------------
(***************************************************************************)
(* For any deposits, redemptions, confirmation depth, batch length and     *)
(* bounds: the supply of the wrapped token is backed, a redemption is paid *)
(* once but for crashes and lost replies, none is skipped, and what the    *)
(* daemon records as finished was paid.                                    *)
(***************************************************************************)
EXTENDS Bridge, FiniteSetTheorems, SequenceTheorems, TLAPS

Payment == Redemption \X Nat
Releasing == UNION {[R -> Payment \cup {NoTxid}] : R \in SUBSET Redemption}
DaemonState == [last : Int, done : SUBSET Deposit, minting : SUBSET Deposit,
                finished : SUBSET Redemption, releasing : Releasing]
Phase == {"idle", "mints", "deposits", "events", "releases", "persist"}
Item == Deposit \cup Redemption
EvmRecord == [minted : SUBSET Deposit, supply : Int, queue : [Deposit -> Int],
              burnedAt : [Redemption -> Nat], block : Nat, paused : BOOLEAN]
RunRecord == [phase : Phase, todo : SUBSET Item, completed : SUBSET Item,
              final : Int, upper : Int]
History == ToSet(native.history)
NativeRecord == [history : Seq(History), paid : SUBSET Payment, lost : SUBSET Payment,
                 approved : BOOLEAN]

BridgeTyped ==
  /\ native \in NativeRecord
  /\ evm \in EvmRecord
  /\ mem \in DaemonState /\ disk \in DaemonState
  /\ run \in RunRecord
  /\ faults \in Nat /\ troubles \in Nat
  /\ \A r \in Redemption : IsFiniteSet(Payments(r))

\* The deposits: only confirmed ones are ever on their way to the token.
Burned == {r \in Redemption : evm.burnedAt[r] > 0}
MintsConfirmed ==
  /\ \A d \in Deposit : evm.queue[d] > 0 => d \in History
  /\ mem.minting \cup disk.minting \subseteq History
  /\ run.phase \in {"mints", "deposits"} => run.todo \subseteq History \cap Deposit
  /\ IsFiniteSet(evm.minted) /\ IsFiniteSet(Burned)

\* The cursor: the events of the batch at hand are tracked or still to visit, and
\* no burn to come falls behind a height the scan has read.
Tracked(s) == DOMAIN s.releasing \cup s.finished
CursorBehind == mem.last \in 0..evm.block /\ disk.last \in 0..evm.block
BatchCovered ==
  run.phase = "events" =>
    /\ mem.last <= run.upper /\ run.upper <= run.final
    /\ run.final <= evm.block - EvmConfirmations + 1
    /\ \A r \in Redemption :
         evm.burnedAt[r] \in 1..run.upper => r \in run.todo \cup Tracked(mem)
    /\ \A r \in run.todo : r \in Redemption /\ evm.burnedAt[r] \in 1..run.upper

\* The releases: the loop over them sees entries of the state, and pops what the
\* state has as finished.
LoopOverEntries ==
  run.phase = "releases" =>
    run.todo \subseteq DOMAIN mem.releasing /\ run.completed \subseteq mem.finished

\* The payments: what the state does not know as paid was paid only by faults, and
\* the state file lags by one crash at most.
BurnFinal(r) == evm.burnedAt[r] \in 1..(evm.block - EvmConfirmations + 1)
PaymentsCounted ==
  \A r \in Redemption :
    /\ ~KnownPaid(mem, r) => Cardinality(Payments(r)) <= faults
    /\ \A s \in {mem, disk} :
         r \in DOMAIN s.releasing =>
           BurnFinal(r) /\ (r \in s.finished => s.releasing[r] # NoTxid)

PaymentsInv == PaymentsCounted /\ PaidOncePerFault /\ FinishedIsPaid

BridgeInv ==
  /\ BridgeTyped
  /\ MintsConfirmed /\ SupplyBacked
  /\ LoopOverEntries
  /\ CursorBehind /\ BatchCovered /\ RedemptionsTracked
  /\ PaymentsInv

-----------------------------------------------------------------------------
(* Lemmas                                                                  *)

\* Appending to the history of the reserve keeps what it holds.
LEMMA ToSetAppend ==
  ASSUME NEW S, NEW s \in Seq(S), NEW x
  PROVE  /\ ToSet(Append(s, x)) = ToSet(s) \cup {x}
         /\ Append(s, x) \in Seq(ToSet(s) \cup {x})
<1>1. s \in Seq(S \cup {x}) /\ Len(s) \in Nat /\ DOMAIN s = 1..Len(s)
  OBVIOUS
<1>2. /\ DOMAIN Append(s, x) = 1..(Len(s) + 1)
      /\ Append(s, x)[Len(s) + 1] = x
      /\ \A i \in 1..Len(s) : Append(s, x)[i] = s[i]
  BY <1>1
<1>3. ToSet(Append(s, x)) = ToSet(s) \cup {x}
  BY <1>1, <1>2 DEF ToSet
<1>4. \A i \in 1..(Len(s) + 1) : Append(s, x)[i] \in ToSet(s) \cup {x}
  BY <1>1, <1>2 DEF ToSet
<1>5. Append(s, x) \in [1..(Len(s) + 1) -> ToSet(s) \cup {x}]
  <2>1. Append(s, x) \in Seq(S \cup {x}) /\ Len(Append(s, x)) = Len(s) + 1
    BY <1>1
  <2>2. Append(s, x) \in [1..(Len(s) + 1) -> S \cup {x}]
    BY <2>1, LenProperties
  <2> QED
    BY <2>2, <1>4
<1>6. Append(s, x) \in Seq(ToSet(s) \cup {x})
  <2> DEFINE T == ToSet(s) \cup {x}
  <2>1. Seq(T) = UNION {[1..n -> T] : n \in Nat}
    BY SeqDef
  <2>2. Len(s) + 1 \in Nat /\ Append(s, x) \in [1..(Len(s) + 1) -> T]
    BY <1>1, <1>5
  <2> HIDE DEF T
  <2>3. Append(s, x) \in Seq(T)
    BY <2>1, <2>2
  <2> QED
    BY <2>3 DEF T
<1> QED
  BY <1>3, <1>6

\* What a turn does with an r that is not known as paid.
Enters(r, caught) == Release(r, mem.releasing, caught) \/ NoteEvent(r)

\* submit_native_release writes the entry of r, with or without a txid, leaves the
\* other entries alone, and sends at most one payment.
LEMMA ReleaseEffect ==
  ASSUME BridgeTyped, NEW r \in Redemption, NEW caught \in BOOLEAN,
         Enters(r, caught)
  PROVE  /\ mem' = [mem EXCEPT !.releasing = mem'.releasing]
         /\ DOMAIN mem'.releasing = DOMAIN mem.releasing \cup {r}
         /\ \A q \in DOMAIN mem.releasing \ {r} : mem'.releasing[q] = mem.releasing[q]
         /\ mem'.releasing \in Releasing
         /\ Visit(r) \/ run' = Idle
         /\ \/ native' = native /\ mem'.releasing[r] = NoTxid /\ UNCHANGED faults
            \/ /\ native' = [native EXCEPT !.paid = @ \cup {NextPayment(r)}]
               /\ \/ mem'.releasing[r] = NextPayment(r) /\ UNCHANGED faults
                  \/ mem'.releasing[r] = NoTxid /\ faults' = faults + 1
<1> DEFINE With(t) == WithEntry(mem.releasing, r, t)
<1>1. mem.releasing \in [DOMAIN mem.releasing -> Payment \cup {NoTxid}]
      /\ DOMAIN mem.releasing \subseteq Redemption
  BY DEF BridgeTyped, NativeRecord, DaemonState, Releasing
<1>2. NextPayment(r) \in Payment
  BY FS_CardinalityType DEF BridgeTyped, NativeRecord, NextPayment, Payment
<1>3. ASSUME NEW t \in {NoTxid, NextPayment(r)}
      PROVE  /\ DOMAIN With(t) = DOMAIN mem.releasing \cup {r}
             /\ With(t)[r] = t
             /\ \A q \in DOMAIN mem.releasing \ {r} : With(t)[q] = mem.releasing[q]
             /\ With(t) \in Releasing
  <2>1. With(t) \in [DOMAIN mem.releasing \cup {r} -> Payment \cup {NoTxid}]
    BY <1>1, <1>2 DEF WithEntry
  <2> QED
    BY <1>1, <2>1 DEF Releasing, WithEntry
<1> DEFINE Put(t) == [mem EXCEPT !.releasing = With(t)]
<1>4. \A t : Put(t).releasing = With(t) /\ Put(t) = [mem EXCEPT !.releasing = Put(t).releasing]
  BY DEF BridgeTyped, NativeRecord, DaemonState
<1>5. CASE ~native.approved /\ mem' = Put(NoTxid) /\ Visit(r) /\ UNCHANGED <<native, faults>>
  BY <1>3, <1>4, <1>5
<1>6. CASE /\ native' = [native EXCEPT !.paid = @ \cup {NextPayment(r)}]
           /\ mem' = Put(NextPayment(r)) /\ Visit(r) /\ UNCHANGED faults
  BY <1>3, <1>4, <1>6
<1>7. CASE /\ native' = [native EXCEPT !.paid = @ \cup {NextPayment(r)}]
           /\ mem' = Put(NoTxid) /\ faults' = faults + 1 /\ (Visit(r) \/ run' = Idle)
  BY <1>3, <1>4, <1>7
<1>8. CASE /\ mem' = Put(NoTxid) /\ (Visit(r) \/ run' = Idle)
           /\ UNCHANGED <<native, faults>>
  BY <1>3, <1>4, <1>8
<1>9. CASE NoteEvent(r)
  BY <1>3, <1>4, <1>9 DEF NoteEvent
<1>10. CASE Release(r, mem.releasing, caught)
  BY <1>5, <1>6, <1>7, <1>8, <1>10 DEF Release
<1> QED
  BY <1>9, <1>10 DEF Enters

\* sendtoaddress adds at most one payment, to those of r.
LEMMA PaymentEffect ==
  ASSUME BridgeTyped, NEW r \in Redemption,
         native' = [native EXCEPT !.paid = @ \cup {NextPayment(r)}]
  PROVE  /\ NextPayment(r) \in Payments(r)' /\ History' = History
         /\ native' \in NativeRecord
         /\ \A q \in Redemption :
              /\ Payments(q) \subseteq Payments(q)' /\ IsFiniteSet(Payments(q)')
              /\ Cardinality(Payments(q)') <= Cardinality(Payments(q)) + (IF q = r THEN 1 ELSE 0)
<1>1. NextPayment(r) \in Payment /\ NextPayment(r)[1] = r
  BY FS_CardinalityType DEF BridgeTyped, NativeRecord, NextPayment, Payment
<1>2. native'.paid = native.paid \cup {NextPayment(r)} /\ native'.history = native.history
  BY DEF BridgeTyped, NativeRecord
<1>3. ASSUME NEW q \in Redemption
      PROVE  /\ Payments(q) \subseteq Payments(q)' /\ IsFiniteSet(Payments(q)')
             /\ Cardinality(Payments(q)') <= Cardinality(Payments(q)) + (IF q = r THEN 1 ELSE 0)
  <2>1. IsFiniteSet(Payments(q)) /\ Cardinality(Payments(q)) \in Nat
    BY FS_CardinalityType DEF BridgeTyped, NativeRecord
  <2>2. CASE q = r
    <3>1. Payments(q)' = Payments(q) \cup {NextPayment(r)}
      BY <1>1, <1>2, <2>2 DEF Payments
    <3> QED
      BY <2>1, <2>2, <3>1, FS_AddElement
  <2>3. CASE q # r
    <3>1. Payments(q)' = Payments(q)
      BY <1>1, <1>2, <2>3 DEF Payments
    <3> QED
      BY <2>1, <2>3, <3>1
  <2> QED
    BY <2>2, <2>3
<1>4. NextPayment(r) \in Payments(r)'
  BY <1>1, <1>2 DEF Payments
<1> QED
  BY <1>1, <1>2, <1>3, <1>4 DEF BridgeTyped, NativeRecord, History

\* The two chains only go forward: nothing leaves the reserve's history, and a burn is
\* in a block above all earlier ones, for good.
ChainsForward ==
  /\ History \subseteq History' /\ native.paid \subseteq native'.paid
  /\ evm.minted \subseteq evm'.minted
  /\ evm.block <= evm'.block
  /\ \A r \in Redemption :
       \/ evm'.burnedAt[r] = evm.burnedAt[r]
       \/ evm.burnedAt[r] = 0 /\ evm'.burnedAt[r] = evm.block + 1 /\ evm'.block = evm.block + 1

-----------------------------------------------------------------------------
(* Types                                                                   *)

LEMMA RunTyped ==
  ASSUME BridgeTyped
  PROVE  /\ Idle \in RunRecord /\ ReleasePhase \in RunRecord
         /\ \A x : Visit(x) => run' \in RunRecord
         /\ \A x \in Item : VisitAndPop(x) => run' \in RunRecord
         /\ \A from, final \in Int : EventBatch(from, final) \in RunRecord
<1>1. run \in RunRecord /\ DOMAIN mem.releasing \subseteq Redemption
  BY DEF BridgeTyped, NativeRecord, DaemonState, Releasing
<1>2. Idle \in RunRecord
  BY DEF Idle, RunRecord, Phase
<1>3. ReleasePhase \in RunRecord
  BY <1>1, <1>2 DEF ReleasePhase, Idle, RunRecord, Phase, Item
<1>4. ASSUME NEW x, Visit(x) PROVE run' \in RunRecord
  BY <1>1, <1>4 DEF Visit, RunRecord
<1>5. ASSUME NEW x \in Item, VisitAndPop(x) PROVE run' \in RunRecord
  BY <1>1, <1>5 DEF VisitAndPop, RunRecord
<1>6. ASSUME NEW from \in Int, NEW final \in Int
      PROVE  EventBatch(from, final) \in RunRecord
  <2>1. Least(final, from + BatchBlocks - 1) \in Int
    BY BridgeAssumption DEF Least
  <2> QED
    BY <2>1 DEF EventBatch, Idle, RunRecord, Phase, Item, EventsIn
<1> QED
  BY <1>2, <1>3, <1>4, <1>5, <1>6

LEMMA DaemonTyped ==
  ASSUME BridgeTyped, UNCHANGED native, evm' \in EvmRecord, mem' \in DaemonState,
         disk' \in DaemonState, run' \in RunRecord, faults' \in Nat, troubles' \in Nat
  PROVE  BridgeTyped'
<1>1. History' = History /\ \A r \in Redemption : Payments(r)' = Payments(r)
  BY DEF History, Payments
<1> QED
  BY <1>1 DEF BridgeTyped, NativeRecord

\* What the daemon knows of deposits changes by one item at a time.
LEMMA StateTyped ==
  ASSUME BridgeTyped
  PROVE  /\ \A S \in SUBSET Deposit : [mem EXCEPT !.done = S] \in DaemonState
         /\ \A S \in SUBSET Deposit : [mem EXCEPT !.minting = S] \in DaemonState
         /\ \A S \in SUBSET Redemption : [mem EXCEPT !.finished = S] \in DaemonState
         /\ \A f \in Releasing : [mem EXCEPT !.releasing = f] \in DaemonState
         /\ \A n \in Int : [mem EXCEPT !.last = n] \in DaemonState
BY DEF BridgeTyped, NativeRecord, DaemonState

LEMMA EvmFields ==
  ASSUME BridgeTyped
  PROVE  /\ evm = [minted |-> evm.minted, supply |-> evm.supply, queue |-> evm.queue,
                   burnedAt |-> evm.burnedAt, block |-> evm.block, paused |-> evm.paused]
         /\ evm.minted \subseteq Deposit /\ evm.supply \in Int
         /\ evm.queue \in [Deposit -> Int] /\ evm.burnedAt \in [Redemption -> Nat]
         /\ evm.block \in Nat /\ evm.paused \in BOOLEAN
BY DEF BridgeTyped, NativeRecord, EvmRecord

\* Steps of the native chain and of the EVM chain.
LEMMA HistoryStep ==
  ASSUME BridgeTyped, NEW x, native' = [native EXCEPT !.history = Append(@, x)],
         UNCHANGED <<evm, mem, disk, run, faults, troubles>>
  PROVE  BridgeTyped' /\ ChainsForward
<1>1. native.history \in Seq(History)
  BY DEF BridgeTyped, NativeRecord
<1>2. native'.history = Append(native.history, x) /\ native'.paid = native.paid
      /\ native'.approved = native.approved
  BY DEF BridgeTyped, NativeRecord
<1>3. History' = History \cup {x} /\ native'.history \in Seq(History')
  <2>1. ToSet(native'.history) = ToSet(native.history) \cup {x}
        /\ native'.history \in Seq(ToSet(native.history) \cup {x})
    BY <1>1, <1>2, ToSetAppend
  <2> QED
    BY <2>1 DEF History
<1>4. native' \in NativeRecord'
  BY <1>2, <1>3 DEF BridgeTyped, NativeRecord
<1>5. \A r \in Redemption : Payments(r)' = Payments(r)
  BY <1>2 DEF Payments
<1>6. BridgeTyped'
  BY <1>4, <1>5 DEF BridgeTyped, NativeRecord
<1> QED
  BY <1>2, <1>3, <1>6, EvmFields DEF ChainsForward

LEMMA ApprovalStep ==
  ASSUME BridgeTyped, NEW b \in BOOLEAN, native' = [native EXCEPT !.approved = b],
         UNCHANGED <<evm, mem, disk, run, faults>>, troubles' \in Nat
  PROVE  BridgeTyped' /\ ChainsForward
<1>1. native'.history = native.history /\ native'.paid = native.paid
      /\ native' \in NativeRecord
  BY DEF BridgeTyped, NativeRecord
<1>2. History' = History /\ \A r \in Redemption : Payments(r)' = Payments(r)
  BY <1>1 DEF History, Payments
<1>3. BridgeTyped'
  BY <1>1, <1>2 DEF BridgeTyped, NativeRecord
<1> QED
  BY <1>1, <1>2, <1>3, EvmFields DEF ChainsForward

LEMMA LossStep ==
  ASSUME BridgeTyped, NEW p \in native.paid, LosePayment(p)
  PROVE  BridgeTyped' /\ ChainsForward
<1>1. native' = [native EXCEPT !.lost = @ \cup {p}]
      /\ UNCHANGED <<evm, mem, disk, run, faults, troubles>>
  BY DEF LosePayment
<1>2. native'.history = native.history /\ native'.paid = native.paid /\ native' \in NativeRecord
  BY <1>1 DEF BridgeTyped, NativeRecord
<1>3. History' = History /\ \A r \in Redemption : Payments(r)' = Payments(r)
  BY <1>2 DEF History, Payments
<1>4. NativeRecord' = NativeRecord
  BY <1>3 DEF NativeRecord
<1>5. BridgeTyped'
  BY <1>1, <1>2, <1>3, <1>4 DEF BridgeTyped, NativeRecord
<1> QED
  BY <1>1, <1>2, <1>3, <1>5, EvmFields DEF ChainsForward

LEMMA EvmStep ==
  ASSUME BridgeTyped,
         \/ \E d \in Deposit : MineMint(d) \/ LoseMint(d)
         \/ \E r \in Redemption : Redeem(r)
         \/ MineEmpty \/ Pause \/ Unpause
  PROVE  BridgeTyped' /\ ChainsForward
<1>1. evm \in EvmRecord /\ troubles \in Nat
  BY DEF BridgeTyped, NativeRecord
<1> SUFFICES evm' \in EvmRecord /\ ChainsForward /\ troubles' \in Nat
             /\ UNCHANGED <<native, mem, disk, run, faults>>
  BY DaemonTyped DEF BridgeTyped, NativeRecord
<1> DEFINE Forward ==
  /\ evm.minted \subseteq evm'.minted /\ evm.block <= evm'.block
  /\ \A r \in Redemption :
       \/ evm'.burnedAt[r] = evm.burnedAt[r]
       \/ evm.burnedAt[r] = 0 /\ evm'.burnedAt[r] = evm.block + 1 /\ evm'.block = evm.block + 1
<1>2. ASSUME NEW d \in Deposit, MineMint(d)
      PROVE  evm' \in EvmRecord /\ Forward
  <2>1. /\ evm' = [minted |-> evm'.minted, supply |-> evm'.supply, queue |-> evm'.queue,
                   burnedAt |-> evm.burnedAt, block |-> evm.block, paused |-> evm.paused]
        /\ evm'.minted \in {evm.minted, evm.minted \cup {d}}
        /\ evm'.supply \in {evm.supply, evm.supply + 1}
        /\ evm'.queue = [evm.queue EXCEPT ![d] = @ - 1]
    BY <1>2, EvmFields DEF MineMint
  <2>2. evm'.queue \in [Deposit -> Int]
    BY <2>1, EvmFields
  <2>3. evm'.minted \subseteq Deposit /\ evm.minted \subseteq evm'.minted /\ evm'.supply \in Int
    BY <2>1, EvmFields
  <2>4. evm' \in EvmRecord
    BY <2>1, <2>2, <2>3, EvmFields DEF EvmRecord
  <2>5. evm'.block = evm.block /\ evm'.burnedAt = evm.burnedAt
    BY <2>1
  <2> QED
    BY <2>3, <2>4, <2>5, EvmFields
<1>3. ASSUME NEW d \in Deposit, LoseMint(d)
      PROVE  evm' \in EvmRecord /\ Forward
  BY <1>3, EvmFields DEF LoseMint, EvmRecord
<1>4. ASSUME NEW r \in Redemption, Redeem(r)
      PROVE  evm' \in EvmRecord /\ Forward
  <2>1. /\ evm' = [minted |-> evm.minted, supply |-> evm.supply - 1, queue |-> evm.queue,
                   burnedAt |-> [evm.burnedAt EXCEPT ![r] = evm.block + 1],
                   block |-> evm.block + 1, paused |-> evm.paused]
        /\ evm.burnedAt[r] = 0
    BY <1>4, EvmFields DEF Redeem
  <2>2. [evm.burnedAt EXCEPT ![r] = evm.block + 1] \in [Redemption -> Nat]
    BY EvmFields
  <2>3. evm' \in EvmRecord
    BY <2>1, <2>2, EvmFields DEF EvmRecord
  <2>4. evm'.burnedAt = [evm.burnedAt EXCEPT ![r] = evm.block + 1] /\ evm'.block = evm.block + 1
        /\ evm'.minted = evm.minted
    BY <2>1
  <2> QED
    BY <2>1, <2>3, <2>4, EvmFields
<1>5. ASSUME MineEmpty \/ Pause \/ Unpause
      PROVE  evm' \in EvmRecord /\ Forward
  <2>1. \E n \in {evm.block, evm.block + 1}, b \in BOOLEAN :
          evm' = [minted |-> evm.minted, supply |-> evm.supply, queue |-> evm.queue,
                  burnedAt |-> evm.burnedAt, block |-> n, paused |-> b]
    BY <1>5, EvmFields DEF MineEmpty, Pause, Unpause
  <2> QED
    BY <2>1, EvmFields DEF EvmRecord
<1>6. UNCHANGED <<native, mem, disk, run, faults>> /\ troubles' \in Nat
  <2>1. troubles + 1 \in Nat
    BY <1>1
  <2>2. troubles' \in {troubles, troubles + 1}
    BY DEF MineMint, LoseMint, Redeem, MineEmpty, Pause, Unpause
  <2>3. UNCHANGED <<native, mem, disk, run, faults>>
    BY DEF MineMint, LoseMint, Redeem, MineEmpty, Pause, Unpause
  <2> QED
    BY <1>1, <2>1, <2>2, <2>3
<1> HIDE DEF Forward
<1>7. evm' \in EvmRecord /\ Forward
  BY <1>2, <1>3, <1>4, <1>5
<1> QED
  BY <1>6, <1>7 DEF ChainsForward, History, Forward

\* What cast send changes: one submission more, and the state and the run as told.
LEMMA SendMintEffect ==
  ASSUME BridgeTyped, NEW d \in Deposit, NEW recorded, SendMint(d, recorded)
  PROVE  /\ evm' = [evm EXCEPT !.queue[d] = @ + 1] /\ evm' \in EvmRecord
         /\ evm'.queue = [evm.queue EXCEPT ![d] = @ + 1]
         /\ \A q \in Deposit : q # d => evm'.queue[q] = evm.queue[q]
         /\ \/ mem' = recorded /\ Visit(d) /\ UNCHANGED faults
            \/ mem' = mem /\ run' = Idle /\ faults' = faults + 1
         /\ evm'.minted = evm.minted /\ evm'.supply = evm.supply
         /\ evm'.block = evm.block /\ evm'.burnedAt = evm.burnedAt
<1>1. evm' = [evm EXCEPT !.queue[d] = @ + 1]
  BY DEF SendMint
<1>2. evm' = [minted |-> evm.minted, supply |-> evm.supply,
              queue |-> [evm.queue EXCEPT ![d] = @ + 1],
              burnedAt |-> evm.burnedAt, block |-> evm.block, paused |-> evm.paused]
  BY <1>1, EvmFields
<1>3. [evm.queue EXCEPT ![d] = @ + 1] \in [Deposit -> Int]
  BY EvmFields
<1>4. evm' \in EvmRecord
  BY <1>2, <1>3, EvmFields DEF EvmRecord
<1> QED
  BY <1>1, <1>2, <1>4, EvmFields DEF SendMint

LEMMA DaemonStepTyped ==
  ASSUME BridgeTyped, DaemonStep \/ FailCycle \/ CrashDaemon
  PROVE  BridgeTyped' /\ ChainsForward
<1>1. /\ mem \in DaemonState /\ disk \in DaemonState /\ run \in RunRecord /\ evm \in EvmRecord
      /\ faults \in Nat /\ troubles \in Nat /\ faults + 1 \in Nat /\ troubles + 1 \in Nat
  BY DEF BridgeTyped, NativeRecord
<1>2. /\ mem.done \subseteq Deposit /\ mem.minting \subseteq Deposit
      /\ mem.finished \subseteq Redemption
      /\ mem.last \in Int /\ run.upper \in Int /\ run.final \in Int
      /\ run.todo \subseteq Item /\ run.completed \subseteq Item
  BY <1>1 DEF DaemonState, RunRecord
<1>3. ASSUME UNCHANGED <<native, evm>>,
             mem' \in DaemonState, disk' \in DaemonState, run' \in RunRecord,
             faults' \in {faults, faults + 1}, troubles' \in {troubles, troubles + 1}
      PROVE  BridgeTyped' /\ ChainsForward
  <2>1. BridgeTyped'
    BY <1>1, <1>3, DaemonTyped
  <2> QED
    BY <1>3, <2>1, EvmFields DEF ChainsForward, History
<1>4. ASSUME NEW d \in Deposit, NEW recorded \in DaemonState, SendMint(d, recorded),
             UNCHANGED <<native, disk, troubles>>
      PROVE  BridgeTyped' /\ ChainsForward
  <2>1. run' \in RunRecord /\ mem' \in DaemonState /\ faults' \in Nat
    BY <1>1, <1>4, SendMintEffect, RunTyped
  <2>2. BridgeTyped'
    BY <1>1, <1>4, <2>1, DaemonTyped, SendMintEffect
  <2> QED
    <3>1. evm'.minted = evm.minted /\ evm'.block = evm.block /\ evm'.burnedAt = evm.burnedAt
      BY <1>4, SendMintEffect
    <3>2. History' = History /\ native' = native
      BY <1>4 DEF History
    <3> QED
      BY <2>2, <3>1, <3>2, EvmFields DEF ChainsForward
<1>5. ASSUME NEW r \in Redemption, NEW caught \in BOOLEAN,
             Enters(r, caught), UNCHANGED <<evm, disk>>
      PROVE  BridgeTyped' /\ ChainsForward
  <2>1. mem' \in DaemonState /\ run' \in RunRecord
    BY <1>5, ReleaseEffect, StateTyped, RunTyped
  <2>2. faults' \in {faults, faults + 1} /\ troubles' \in {troubles, troubles + 1}
    BY <1>5 DEF Enters, NoteEvent, Release
  <2>3. CASE native' = native
    BY <1>1, <1>3, <1>5, <2>1, <2>2, <2>3
  <2>4. CASE native' = [native EXCEPT !.paid = @ \cup {NextPayment(r)}]
    <3>1. History' = History /\ native.paid \subseteq native'.paid
      BY <2>4, PaymentEffect DEF BridgeTyped, NativeRecord
    <3>2. \A q \in Redemption : IsFiniteSet(Payments(q)')
      BY <2>4, PaymentEffect
    <3>3. BridgeTyped'
      BY <1>1, <1>5, <2>1, <2>2, <2>4, <3>1, <3>2, PaymentEffect DEF BridgeTyped, NativeRecord
    <3> QED
      BY <1>5, <3>1, <3>3, EvmFields DEF ChainsForward
  <2> QED
    BY <1>5, <2>3, <2>4, ReleaseEffect
<1>6. CASE StartCycle
  <2>1. run' \in RunRecord
    BY <1>2, <1>6, RunTyped DEF StartCycle, Idle, RunRecord, Phase, Item
  <2> QED
    BY <1>1, <1>3, <1>6, <2>1 DEF StartCycle
<1>7. CASE EndMints
  <2>1. mem.minting \ run.completed \in SUBSET Deposit
    BY <1>2
  <2>2. mem' \in DaemonState
    BY <1>7, <2>1, StateTyped DEF EndMints
  <2>3. run' \in RunRecord
    <3>1. run' = [phase |-> "deposits", todo |-> Listed \cap Deposit, completed |-> {},
                  final |-> 0, upper |-> 0]
      BY <1>7 DEF EndMints, Idle
    <3> QED
      BY <3>1 DEF RunRecord, Phase, Item
  <2> QED
    BY <1>1, <1>3, <1>7, <2>2, <2>3 DEF EndMints
<1>8. CASE EndDeposits
  <2>1. evm.block - EvmConfirmations + 1 \in Int /\ mem.last + 1 \in Int
    BY <1>2, EvmFields, BridgeAssumption
  <2>2. run' \in RunRecord
    BY <1>8, <2>1, RunTyped DEF EndDeposits
  <2> QED
    BY <1>1, <1>3, <1>8, <2>2 DEF EndDeposits
<1>9. CASE EndBatch
  <2>1. run' \in RunRecord
    <3>1. run.upper + 1 \in Int
      BY <1>2
    <3>2. run' \in {EventBatch(run.upper + 1, run.final), ReleasePhase}
      BY <1>9 DEF EndBatch
    <3> QED
      BY <1>2, <3>1, <3>2, RunTyped
  <2>2. mem' \in DaemonState
    BY <1>2, <1>9, StateTyped DEF EndBatch
  <2> QED
    BY <1>1, <1>3, <1>9, <2>1, <2>2 DEF EndBatch
<1>10. CASE EndReleases
  <2>1. [r \in DOMAIN mem.releasing \ run.completed |-> mem.releasing[r]] \in Releasing
    <3>1. PICK R \in SUBSET Redemption : mem.releasing \in [R -> Payment \cup {NoTxid}]
      BY <1>1 DEF DaemonState, Releasing
    <3>2. [r \in R \ run.completed |-> mem.releasing[r]]
            \in [R \ run.completed -> Payment \cup {NoTxid}]
      BY <3>1
    <3> QED
      BY <3>1, <3>2 DEF Releasing
  <2>2. run' \in RunRecord
    BY <1>10 DEF EndReleases, Idle, RunRecord, Phase
  <2>3. mem' \in DaemonState
    BY <1>10, <2>1, StateTyped DEF EndReleases
  <2> QED
    BY <1>1, <1>3, <1>10, <2>2, <2>3 DEF EndReleases
<1>11. CASE Persist
  BY <1>1, <1>3, <1>11, RunTyped DEF Persist
<1>12. ASSUME NEW d \in Deposit, RefreshMint(d)
       PROVE  BridgeTyped' /\ ChainsForward
  <2>1. CASE SendMint(d, mem)
    BY <1>1, <1>4, <1>12, <2>1 DEF RefreshMint
  <2>2. CASE ~Minted(d) /\ Visit(d) /\ UNCHANGED <<evm, mem, faults>>
    BY <1>1, <1>3, <1>12, <2>2, RunTyped DEF RefreshMint
  <2>3. CASE /\ mem' = [mem EXCEPT !.done = @ \cup {d}] /\ VisitAndPop(d)
             /\ UNCHANGED <<evm, faults>>
    <3>1. mem' \in DaemonState
      BY <1>2, <2>3, StateTyped
    <3>2. run' \in RunRecord
      BY <2>3, RunTyped DEF Item
    <3> QED
      BY <1>1, <1>3, <1>12, <2>3, <3>1, <3>2 DEF RefreshMint
  <2> QED
    BY <1>12, <2>1, <2>2, <2>3 DEF RefreshMint
<1>13. ASSUME NEW d \in Deposit, ScanDeposit(d)
       PROVE  BridgeTyped' /\ ChainsForward
  <2>1. CASE SendMint(d, Recorded(d))
    <3>1. Recorded(d) \in DaemonState
      BY <1>2, StateTyped DEF Recorded
    <3> QED
      BY <1>4, <1>13, <2>1, <3>1 DEF ScanDeposit
  <2>2. CASE Visit(d) /\ UNCHANGED <<evm, mem, faults>>
    BY <1>1, <1>3, <1>13, <2>2, RunTyped DEF ScanDeposit
  <2>3. CASE /\ mem' = [mem EXCEPT !.done = @ \cup {d}] /\ Visit(d)
             /\ UNCHANGED <<evm, faults>>
    <3>1. mem' \in DaemonState
      BY <1>2, <2>3, StateTyped
    <3> QED
      BY <1>1, <1>3, <1>13, <2>3, <3>1, RunTyped DEF ScanDeposit
  <2> QED
    BY <1>13, <2>1, <2>2, <2>3 DEF ScanDeposit
<1>14. ASSUME NEW r \in Redemption, ScanEvent(r)
       PROVE  BridgeTyped' /\ ChainsForward
  <2>1. CASE Enters(r, FALSE)
    BY <1>5, <1>14, <2>1 DEF ScanEvent, ReleaseOrNote, Enters
  <2>2. CASE Visit(r) /\ UNCHANGED <<native, mem, faults, troubles>>
    BY <1>1, <1>3, <1>14, <2>2, RunTyped DEF ScanEvent, ReleaseOrNote, Enters
  <2> QED
    BY <1>14, <2>1, <2>2 DEF ScanEvent, ReleaseOrNote, Enters
<1>15. ASSUME NEW r \in Redemption, RefreshRelease(r)
       PROVE  BridgeTyped' /\ ChainsForward
  <2>1. CASE Enters(r, TRUE)
    BY <1>5, <1>15, <2>1 DEF RefreshRelease, Enters
  <2>2. CASE CheckRelease(r)
    <3>1. mem' \in DaemonState
      BY <1>1, <1>2, <2>2, StateTyped DEF CheckRelease
    <3>2. run' \in RunRecord
      BY <2>2, RunTyped DEF CheckRelease, Item
    <3> QED
      BY <1>1, <1>3, <1>15, <2>2, <3>1, <3>2 DEF RefreshRelease, CheckRelease
  <2>3. CASE Visit(r) /\ UNCHANGED <<native, mem, faults, troubles>>
    BY <1>1, <1>3, <1>15, <2>3, RunTyped DEF RefreshRelease
  <2> QED
    BY <1>15, <2>1, <2>2, <2>3 DEF RefreshRelease, Enters
<1>16. CASE FailCycle
  BY <1>1, <1>3, <1>16, RunTyped DEF FailCycle
<1>17. CASE CrashDaemon
  BY <1>1, <1>3, <1>17, RunTyped DEF CrashDaemon
<1> QED
  BY <1>6, <1>7, <1>8, <1>9, <1>10, <1>11, <1>12, <1>13, <1>14, <1>15, <1>16, <1>17
  DEF DaemonStep

LEMMA StepTyped ==
  ASSUME BridgeTyped, BridgeNext
  PROVE  BridgeTyped' /\ ChainsForward
<1>1. CASE DaemonStep \/ FailCycle \/ CrashDaemon
  BY <1>1, DaemonStepTyped
<1>2. CASE \/ \E d \in Deposit : MineMint(d) \/ LoseMint(d)
           \/ \E r \in Redemption : Redeem(r)
           \/ MineEmpty \/ Pause \/ Unpause
  BY <1>2, EvmStep
<1>3. CASE ConfirmDeposit
  BY <1>3, HistoryStep DEF ConfirmDeposit
<1>4. ASSUME NEW p \in native.paid, ConfirmPayment(p) \/ LosePayment(p)
      PROVE  BridgeTyped' /\ ChainsForward
  BY <1>4, HistoryStep, LossStep DEF ConfirmPayment
<1>5. CASE Approve \/ RevokeApproval
  <2>1. troubles' \in Nat
    BY <1>5 DEF Approve, RevokeApproval, BridgeTyped, NativeRecord
  <2> QED
    BY <1>5, <2>1, ApprovalStep DEF Approve, RevokeApproval
<1> QED
  BY <1>1, <1>2, <1>3, <1>4, <1>5 DEF BridgeNext

-----------------------------------------------------------------------------
(* Deposits and the supply                                                 *)

LEMMA ListedInHistory == ASSUME BridgeTyped PROVE Listed \subseteq History
<1>1. native.history \in Seq(History) /\ Len(native.history) \in Nat
      /\ DOMAIN native.history = 1..Len(native.history)
  BY DEF BridgeTyped, NativeRecord
<1> DEFINE n == Least(Len(native.history), ScanLimit)
<1>2. n \in Nat /\ n <= Len(native.history)
  BY <1>1, BridgeAssumption DEF Least
<1> HIDE DEF n
<1>3. /\ DOMAIN SubSeq(native.history, 1, n) = 1..n
      /\ \A i \in 1..n : SubSeq(native.history, 1, n)[i] = native.history[i]
  BY <1>1, <1>2
<1> QED
  BY <1>1, <1>2, <1>3 DEF Listed, History, ToSet, n

\* A step that mints and burns nothing, submits only confirmed deposits and counts
\* only minted ones as done.
LEMMA NothingMinted ==
  ASSUME MintsConfirmed, SupplyBacked, History \subseteq History',
         evm'.minted = evm.minted, evm'.supply = evm.supply, evm'.burnedAt = evm.burnedAt,
         \A d \in Deposit : evm'.queue[d] > 0 => evm.queue[d] > 0 \/ d \in History,
         mem'.minting \subseteq History, mem'.done \subseteq evm.minted,
         disk' \in {disk, mem},
         run'.phase \in {"mints", "deposits"} => run'.todo \subseteq History \cap Deposit
  PROVE  MintsConfirmed' /\ SupplyBacked'
<1>1. Burned' = Burned
  BY DEF Burned
<1>2. MintsConfirmed'
  BY <1>1 DEF MintsConfirmed
<1>3. History = ToSet(native.history) /\ History' = ToSet(native'.history)
  BY DEF History
<1> QED
  BY <1>2, <1>3 DEF SupplyBacked

LEMMA MintBacked ==
  ASSUME BridgeTyped, MintsConfirmed, SupplyBacked, NEW d \in Deposit, MineMint(d)
  PROVE  MintsConfirmed' /\ SupplyBacked'
<1>1. /\ evm'.minted \in {evm.minted, evm.minted \cup {d}}
      /\ evm'.minted = evm.minted => evm'.supply = evm.supply
      /\ evm'.minted # evm.minted => d \notin evm.minted /\ evm'.supply = evm.supply + 1
      /\ evm'.burnedAt = evm.burnedAt
      /\ evm'.queue = [evm.queue EXCEPT ![d] = @ - 1]
      /\ d \in History
  BY EvmFields DEF MineMint, Minted, MintsConfirmed
<1>2. UNCHANGED <<native, mem, disk, run>> /\ History' = History
  BY DEF MineMint, History
<1>3. \A q \in Deposit : evm'.queue[q] > 0 => q \in History
  BY <1>1, EvmFields DEF MintsConfirmed
<1>4. /\ IsFiniteSet(evm'.minted)
      /\ Cardinality(evm'.minted) - evm'.supply = Cardinality(evm.minted) - evm.supply
      /\ evm'.supply \in Int /\ evm.supply \in Int
      /\ Cardinality(evm'.minted) \in Nat /\ Cardinality(evm.minted) \in Nat
  <2>1. IsFiniteSet(evm.minted) /\ Cardinality(evm.minted) \in Nat /\ evm.supply \in Int
    BY FS_CardinalityType, EvmFields DEF MintsConfirmed
  <2>2. CASE evm'.minted = evm.minted
    BY <1>1, <2>1, <2>2
  <2>3. CASE evm'.minted # evm.minted
    <3>1. evm'.minted = evm.minted \cup {d} /\ d \notin evm.minted
          /\ evm'.supply = evm.supply + 1
      BY <1>1, <2>3
    <3>2. IsFiniteSet(evm'.minted) /\ Cardinality(evm'.minted) = Cardinality(evm.minted) + 1
      BY <2>1, <3>1, FS_AddElement
    <3> QED
      BY <2>1, <3>1, <3>2
  <2> QED
    BY <2>2, <2>3
<1>5. Burned' = Burned
  BY <1>1 DEF Burned
<1>6. MintsConfirmed'
  BY <1>2, <1>3, <1>4, <1>5 DEF MintsConfirmed
<1>7. IsFiniteSet(Burned) /\ Cardinality(Burned) \in Nat
  BY FS_CardinalityType DEF MintsConfirmed
<1>8. evm'.supply + Cardinality(Burned') = Cardinality(evm'.minted)
  <2>1. evm.supply + Cardinality(Burned) = Cardinality(evm.minted)
    BY DEF SupplyBacked, Burned
  <2> QED
    BY <1>4, <1>5, <1>7, <2>1
<1> QED
  BY <1>1, <1>2, <1>6, <1>8 DEF SupplyBacked, Burned, History

LEMMA RedeemBacked ==
  ASSUME BridgeTyped, MintsConfirmed, SupplyBacked, NEW r \in Redemption, Redeem(r)
  PROVE  MintsConfirmed' /\ SupplyBacked'
<1>1. /\ evm'.minted = evm.minted /\ evm'.supply = evm.supply - 1 /\ evm'.queue = evm.queue
      /\ evm'.burnedAt = [evm.burnedAt EXCEPT ![r] = evm.block + 1]
      /\ evm.burnedAt[r] = 0
  BY EvmFields DEF Redeem
<1>2. UNCHANGED <<native, mem, disk, run>> /\ History' = History
  BY DEF Redeem, History
<1>3. r \notin Burned /\ Burned' = Burned \cup {r}
  BY <1>1, EvmFields DEF Burned
<1>4. /\ IsFiniteSet(Burned) /\ Cardinality(Burned) \in Nat
      /\ IsFiniteSet(Burned') /\ Cardinality(Burned') = Cardinality(Burned) + 1
  BY <1>3, FS_AddElement, FS_CardinalityType DEF MintsConfirmed
<1>5. MintsConfirmed'
  BY <1>1, <1>2, <1>4 DEF MintsConfirmed
<1>6. evm'.supply + Cardinality(Burned') = Cardinality(evm'.minted)
  BY <1>1, <1>4, EvmFields DEF SupplyBacked, Burned
<1> QED
  BY <1>1, <1>2, <1>5, <1>6 DEF SupplyBacked, Burned, History

LEMMA DepositsPreserved ==
  ASSUME BridgeTyped, MintsConfirmed, SupplyBacked, BridgeNext
  PROVE  MintsConfirmed' /\ SupplyBacked'
<1>1. History \subseteq History' /\ BridgeTyped'
  BY StepTyped DEF ChainsForward
<1>2. /\ mem.minting \subseteq History /\ mem.done \subseteq evm.minted
      /\ disk.minting \subseteq History /\ disk.done \subseteq evm.minted
      /\ \A d \in Deposit : evm.queue[d] > 0 => d \in History
  BY DEF MintsConfirmed, SupplyBacked
<1> DEFINE LoopFine == run'.phase \in {"mints", "deposits"} => run'.todo \subseteq History \cap Deposit
           Still == evm'.minted = evm.minted /\ evm'.supply = evm.supply
                    /\ evm'.burnedAt = evm.burnedAt
<1>3. ASSUME UNCHANGED evm, LoopFine, disk' \in {disk, mem},
             mem'.minting \subseteq History, mem'.done \subseteq evm.minted
      PROVE  MintsConfirmed' /\ SupplyBacked'
  BY <1>1, <1>2, <1>3, NothingMinted
<1>4. ASSUME UNCHANGED <<mem, disk, run>>, Still,
             \A d \in Deposit : evm'.queue[d] > 0 => evm.queue[d] > 0
      PROVE  MintsConfirmed' /\ SupplyBacked'
  <2>1. LoopFine
    BY <1>4 DEF MintsConfirmed
  <2> QED
    BY <1>1, <1>2, <1>4, <2>1, NothingMinted
<1>5. ASSUME NEW x, Visit(x) PROVE LoopFine
  BY <1>5 DEF Visit, MintsConfirmed, BridgeTyped, NativeRecord, RunRecord
<1>6. ASSUME NEW x, VisitAndPop(x) PROVE LoopFine
  BY <1>6 DEF VisitAndPop, MintsConfirmed, BridgeTyped, NativeRecord, RunRecord
<1>7. ASSUME run' = Idle PROVE LoopFine
  BY <1>7 DEF Idle
<1>8. ASSUME NEW d \in Deposit, NEW recorded, SendMint(d, recorded), d \in History,
             recorded.minting \subseteq History, recorded.done \subseteq evm.minted,
             UNCHANGED disk
      PROVE  MintsConfirmed' /\ SupplyBacked'
  <2>1. LoopFine
    BY <1>5, <1>7, <1>8, SendMintEffect
  <2>2. mem'.minting \subseteq History /\ mem'.done \subseteq evm.minted
    BY <1>2, <1>8, SendMintEffect
  <2>3. Still /\ \A q \in Deposit : q # d => evm'.queue[q] = evm.queue[q]
    BY <1>8, SendMintEffect
  <2> QED
    BY <1>1, <1>8, <2>1, <2>2, <2>3, NothingMinted
<1>9. ASSUME NEW r \in Redemption, NEW caught \in BOOLEAN,
             Enters(r, caught), UNCHANGED <<evm, disk>>
      PROVE  MintsConfirmed' /\ SupplyBacked'
  <2>1. mem'.minting = mem.minting /\ mem'.done = mem.done
    BY <1>9, ReleaseEffect DEF BridgeTyped, NativeRecord, DaemonState
  <2>2. LoopFine
    BY <1>5, <1>7, <1>9, ReleaseEffect
  <2> QED
    BY <1>2, <1>3, <1>9, <2>1, <2>2
<1>10. CASE StartCycle
  <2>1. run'.todo = mem.minting
    BY <1>10 DEF StartCycle, Idle
  <2>2. LoopFine
    BY <1>2, <2>1 DEF BridgeTyped, NativeRecord, DaemonState
  <2> QED
    BY <1>2, <1>3, <1>10, <2>2 DEF StartCycle
<1>11. CASE EndMints
  <2>1. run'.todo = Listed \cap Deposit
    BY <1>11 DEF EndMints, Idle
  <2>2. LoopFine
    BY <2>1, ListedInHistory
  <2>3. mem'.minting = mem.minting \ run.completed /\ mem'.done = mem.done
    BY <1>11 DEF EndMints, BridgeTyped, NativeRecord, DaemonState
  <2> QED
    BY <1>2, <1>3, <1>11, <2>2, <2>3 DEF EndMints
<1>12. CASE EndDeposits
  <2>1. run'.phase \in {"events", "releases"}
    BY <1>12 DEF EndDeposits, ReleasePhase, EventBatch, Idle
  <2> QED
    BY <1>2, <1>3, <1>12, <2>1 DEF EndDeposits
<1>13. CASE EndBatch
  <2>1. run'.phase \in {"events", "releases"}
    BY <1>13 DEF EndBatch, ReleasePhase, EventBatch, Idle
  <2>2. mem'.minting = mem.minting /\ mem'.done = mem.done
    BY <1>13 DEF EndBatch, BridgeTyped, NativeRecord, DaemonState
  <2> QED
    BY <1>2, <1>3, <1>13, <2>1, <2>2 DEF EndBatch
<1>14. CASE EndReleases
  <2>1. run'.phase = "persist"
    BY <1>14 DEF EndReleases, Idle
  <2>2. mem'.minting = mem.minting /\ mem'.done = mem.done
    BY <1>14 DEF EndReleases, BridgeTyped, NativeRecord, DaemonState
  <2> QED
    BY <1>2, <1>3, <1>14, <2>1, <2>2 DEF EndReleases
<1>15. CASE Persist \/ FailCycle \/ CrashDaemon
  <2>1. run' = Idle /\ UNCHANGED evm /\ mem' \in {mem, disk} /\ disk' \in {mem, disk}
    BY <1>15 DEF Persist, FailCycle, CrashDaemon
  <2> QED
    BY <1>2, <1>3, <1>7, <2>1
<1>16. ASSUME NEW d \in Deposit, RefreshMint(d)
       PROVE  MintsConfirmed' /\ SupplyBacked'
  <2>1. d \in History
    BY <1>16 DEF RefreshMint, MintsConfirmed
  <2>2. CASE SendMint(d, mem)
    BY <1>2, <1>8, <1>16, <2>1, <2>2 DEF RefreshMint
  <2>3. CASE Visit(d) /\ UNCHANGED <<evm, mem>>
    BY <1>2, <1>3, <1>5, <1>16, <2>3 DEF RefreshMint
  <2>4. CASE /\ Minted(d) /\ mem' = [mem EXCEPT !.done = @ \cup {d}] /\ VisitAndPop(d)
             /\ UNCHANGED evm
    <3>1. mem'.minting = mem.minting /\ mem'.done = mem.done \cup {d} /\ d \in evm.minted
      BY <2>4 DEF BridgeTyped, NativeRecord, DaemonState, Minted
    <3> QED
      BY <1>2, <1>3, <1>6, <1>16, <2>4, <3>1 DEF RefreshMint
  <2> QED
    BY <1>16, <2>2, <2>3, <2>4 DEF RefreshMint
<1>17. ASSUME NEW d \in Deposit, ScanDeposit(d)
       PROVE  MintsConfirmed' /\ SupplyBacked'
  <2>1. d \in History
    BY <1>17 DEF ScanDeposit, MintsConfirmed
  <2>2. CASE SendMint(d, Recorded(d))
    <3>1. Recorded(d).minting = mem.minting \cup {d} /\ Recorded(d).done = mem.done
      BY DEF Recorded, BridgeTyped, NativeRecord, DaemonState
    <3> QED
      BY <1>2, <1>8, <1>17, <2>1, <2>2, <3>1 DEF ScanDeposit
  <2>3. CASE Visit(d) /\ UNCHANGED <<evm, mem>>
    BY <1>2, <1>3, <1>5, <1>17, <2>3 DEF ScanDeposit
  <2>4. CASE /\ Minted(d) /\ mem' = [mem EXCEPT !.done = @ \cup {d}] /\ Visit(d)
             /\ UNCHANGED evm
    <3>1. mem'.minting = mem.minting /\ mem'.done = mem.done \cup {d} /\ d \in evm.minted
      BY <2>4 DEF BridgeTyped, NativeRecord, DaemonState, Minted
    <3> QED
      BY <1>2, <1>3, <1>5, <1>17, <2>4, <3>1 DEF ScanDeposit
  <2> QED
    BY <1>17, <2>2, <2>3, <2>4 DEF ScanDeposit
<1>18. ASSUME NEW r \in Redemption, ScanEvent(r) \/ RefreshRelease(r)
       PROVE  MintsConfirmed' /\ SupplyBacked'
  <2>1. CASE \E caught \in BOOLEAN : Enters(r, caught)
    BY <1>9, <1>18, <2>1 DEF ScanEvent, ReleaseOrNote, Enters, RefreshRelease
  <2>2. CASE Visit(r) /\ UNCHANGED mem
    BY <1>2, <1>3, <1>5, <1>18, <2>2 DEF ScanEvent, ReleaseOrNote, Enters, RefreshRelease
  <2>3. CASE CheckRelease(r)
    <3>1. mem'.minting = mem.minting /\ mem'.done = mem.done
      BY <2>3 DEF CheckRelease, BridgeTyped, NativeRecord, DaemonState
    <3>2. LoopFine
      BY <1>5, <1>6, <2>3 DEF CheckRelease
    <3> QED
      BY <1>2, <1>3, <1>18, <3>1, <3>2 DEF ScanEvent, ReleaseOrNote, Enters, RefreshRelease
  <2> QED
    BY <1>18, <2>1, <2>2, <2>3 DEF ScanEvent, ReleaseOrNote, Enters, RefreshRelease
<1>19. ASSUME NEW d \in Deposit, LoseMint(d)
       PROVE  MintsConfirmed' /\ SupplyBacked'
  <2>1. Still /\ evm'.queue = [evm.queue EXCEPT ![d] = @ - 1]
    BY <1>19, EvmFields DEF LoseMint
  <2>2. \A q \in Deposit : evm'.queue[q] > 0 => evm.queue[q] > 0
    BY <2>1, EvmFields
  <2> QED
    BY <1>4, <1>19, <2>1, <2>2 DEF LoseMint
<1>20. CASE MineEmpty \/ Pause \/ Unpause
  <2>1. Still /\ evm'.queue = evm.queue
    BY <1>20, EvmFields DEF MineEmpty, Pause, Unpause
  <2> QED
    BY <1>4, <1>20, <2>1 DEF MineEmpty, Pause, Unpause
<1>21. CASE ConfirmDeposit \/ (\E p \in native.paid : ConfirmPayment(p) \/ LosePayment(p))
            \/ Approve \/ RevokeApproval
  BY <1>4, <1>21 DEF ConfirmDeposit, ConfirmPayment, LosePayment, Approve, RevokeApproval
<1> QED
  BY <1>10, <1>11, <1>12, <1>13, <1>14, <1>15, <1>16, <1>17, <1>18, <1>19, <1>20, <1>21,
     MintBacked, RedeemBacked
  DEF BridgeNext, DaemonStep

-----------------------------------------------------------------------------
(* The releases                                                            *)

LEMMA VisitEffect ==
  ASSUME BridgeTyped, NEW x, Visit(x) \/ VisitAndPop(x)
  PROVE  /\ run'.phase = run.phase /\ run'.todo = run.todo \ {x}
         /\ run'.upper = run.upper /\ run'.final = run.final
         /\ Visit(x) => run'.completed = run.completed
         /\ VisitAndPop(x) => run'.completed = run.completed \cup {x}
BY DEF Visit, VisitAndPop, BridgeTyped, NativeRecord, RunRecord

\* The daemon's steps that leave releases, finished ones and the cursor as they are.
DepositStep ==
  \/ StartCycle \/ EndMints
  \/ \E d \in Deposit : RefreshMint(d) \/ ScanDeposit(d)

LEMMA DepositStepEffect ==
  ASSUME BridgeTyped, DepositStep
  PROVE  /\ mem'.releasing = mem.releasing /\ mem'.finished = mem.finished
         /\ mem'.last = mem.last
         /\ UNCHANGED <<native, disk>> /\ evm'.block = evm.block /\ evm'.burnedAt = evm.burnedAt
         /\ run'.phase \in {"idle", "mints", "deposits"}
         /\ faults' \in {faults, faults + 1}
<1>1. CASE StartCycle
  BY <1>1 DEF StartCycle, Idle
<1>2. CASE EndMints
  BY <1>2 DEF EndMints, Idle, BridgeTyped, NativeRecord, DaemonState
<1>3. ASSUME NEW d \in Deposit, NEW recorded, SendMint(d, recorded),
             recorded.releasing = mem.releasing, recorded.finished = mem.finished,
             recorded.last = mem.last, run.phase \in {"mints", "deposits"}
      PROVE  /\ mem'.releasing = mem.releasing /\ mem'.finished = mem.finished
             /\ mem'.last = mem.last
             /\ evm'.block = evm.block /\ evm'.burnedAt = evm.burnedAt
             /\ run'.phase \in {"idle", "mints", "deposits"}
             /\ faults' \in {faults, faults + 1}
  <2>1. run' = Idle => run'.phase = "idle"
    BY DEF Idle
  <2> QED
    BY <1>3, <2>1, SendMintEffect, VisitEffect
<1>4. ASSUME NEW d \in Deposit, RefreshMint(d) \/ ScanDeposit(d)
      PROVE  /\ mem'.releasing = mem.releasing /\ mem'.finished = mem.finished
             /\ mem'.last = mem.last
             /\ evm'.block = evm.block /\ evm'.burnedAt = evm.burnedAt
             /\ run'.phase \in {"idle", "mints", "deposits"}
             /\ faults' \in {faults, faults + 1}
  <2>1. run.phase \in {"mints", "deposits"}
    BY <1>4 DEF RefreshMint, ScanDeposit
  <2>2. CASE \E recorded \in {mem, Recorded(d)} : SendMint(d, recorded)
    BY <1>3, <2>1, <2>2 DEF Recorded, BridgeTyped, NativeRecord, DaemonState
  <2>3. CASE /\ mem' \in {mem, [mem EXCEPT !.done = @ \cup {d}]}
             /\ UNCHANGED <<evm, faults>> /\ (Visit(d) \/ VisitAndPop(d))
    <3>1. run'.phase = run.phase
      BY <2>3, VisitEffect
    <3>2. mem'.releasing = mem.releasing /\ mem'.finished = mem.finished /\ mem'.last = mem.last
      BY <2>3 DEF BridgeTyped, NativeRecord, DaemonState
    <3> QED
      BY <2>1, <2>3, <3>1, <3>2
  <2> QED
    BY <1>4, <2>2, <2>3 DEF RefreshMint, ScanDeposit
<1>5. CASE \E d \in Deposit : RefreshMint(d) \/ ScanDeposit(d)
  BY <1>4, <1>5 DEF RefreshMint, ScanDeposit
<1> QED
  BY <1>1, <1>2, <1>5 DEF DepositStep

\* The steps of the two chains and of those who use them.
ChainStep ==
  \/ ConfirmDeposit \/ Approve \/ RevokeApproval
  \/ \E p \in native.paid : ConfirmPayment(p) \/ LosePayment(p)
  \/ \E d \in Deposit : MineMint(d) \/ LoseMint(d)
  \/ \E r \in Redemption : Redeem(r)
  \/ MineEmpty \/ Pause \/ Unpause

LEMMA ChainStepEffect ==
  ASSUME BridgeTyped, ChainStep
  PROVE  UNCHANGED <<mem, disk, run, faults>> /\ native'.paid = native.paid
BY DEF ChainStep, ConfirmDeposit, Approve, RevokeApproval, ConfirmPayment, LosePayment, MineMint,
       LoseMint, Redeem, MineEmpty, Pause, Unpause, BridgeTyped, NativeRecord

\* finished grows by a release whose payment is confirmed (refresh_pending_releases).
LEMMA CheckReleaseEffect ==
  ASSUME BridgeTyped, NEW r \in Redemption, CheckRelease(r)
  PROVE  /\ mem'.releasing = mem.releasing /\ mem'.last = mem.last
         /\ \/ mem'.finished = mem.finished /\ Visit(r)
            \/ /\ mem'.finished = mem.finished \cup {r} /\ VisitAndPop(r)
               /\ Confirmed(mem.releasing[r])
         /\ UNCHANGED <<native, faults>>
BY DEF CheckRelease, Settled, BridgeTyped, NativeRecord, DaemonState

LEMMA EndReleasesEffect ==
  ASSUME BridgeTyped, EndReleases
  PROVE  /\ DOMAIN mem'.releasing = DOMAIN mem.releasing \ run.completed
         /\ \A r \in DOMAIN mem'.releasing : mem'.releasing[r] = mem.releasing[r]
         /\ mem'.finished = mem.finished /\ mem'.last = mem.last
         /\ run'.phase = "persist" /\ run.phase = "releases"
         /\ UNCHANGED <<native, evm, disk, faults>>
BY DEF EndReleases, Idle, BridgeTyped, NativeRecord, DaemonState

LEMMA EndBatchEffect ==
  ASSUME BridgeTyped, EndBatch
  PROVE  /\ mem'.releasing = mem.releasing /\ mem'.finished = mem.finished
         /\ mem'.last = run.upper
         /\ run.phase = "events" /\ run.todo = {}
         /\ run' = IF run.upper < run.final THEN EventBatch(run.upper + 1, run.final)
                   ELSE ReleasePhase
         /\ UNCHANGED <<native, evm, disk, faults>>
BY DEF EndBatch, BridgeTyped, NativeRecord, DaemonState

LEMMA ReleaseFields ==
  ASSUME BridgeTyped, NEW r \in Redemption, NEW caught \in BOOLEAN,
         Enters(r, caught)
  PROVE  mem'.finished = mem.finished /\ mem'.last = mem.last
BY ReleaseEffect DEF BridgeTyped, NativeRecord, DaemonState

LEMMA LoopPreserved ==
  ASSUME BridgeTyped, LoopOverEntries, BridgeNext
  PROVE  LoopOverEntries'
<1>1. ASSUME run' = ReleasePhase, mem'.releasing = mem.releasing PROVE LoopOverEntries'
  BY <1>1 DEF LoopOverEntries, ReleasePhase, Idle
<1>2. ASSUME run'.phase # "releases" PROVE LoopOverEntries'
  BY <1>2 DEF LoopOverEntries
<1>3. ASSUME run' = Idle PROVE LoopOverEntries'
  BY <1>2, <1>3 DEF Idle
<1>4. CASE ChainStep
  BY <1>4, ChainStepEffect DEF LoopOverEntries
<1>5. CASE DepositStep
  BY <1>2, <1>5, DepositStepEffect
<1>6. CASE EndDeposits
  <2>1. CASE run' = ReleasePhase
    BY <1>1, <1>6, <2>1 DEF EndDeposits
  <2>2. CASE \E from, final : run' = EventBatch(from, final)
    BY <1>2, <2>2 DEF EventBatch, Idle
  <2> QED
    BY <1>6, <2>1, <2>2 DEF EndDeposits
<1>7. CASE EndBatch
  <2>1. CASE run' = ReleasePhase
    BY <1>1, <1>7, <2>1, EndBatchEffect
  <2>2. CASE run' = EventBatch(run.upper + 1, run.final)
    BY <1>2, <2>2 DEF EventBatch, Idle
  <2> QED
    BY <1>7, <2>1, <2>2, EndBatchEffect
<1>8. CASE EndReleases
  BY <1>2, <1>8, EndReleasesEffect
<1>9. CASE Persist \/ FailCycle \/ CrashDaemon
  BY <1>3, <1>9 DEF Persist, FailCycle, CrashDaemon
<1>10. ASSUME NEW r \in Redemption, NEW caught \in BOOLEAN,
              Enters(r, caught)
       PROVE  LoopOverEntries'
  <2>1. CASE run' = Idle
    BY <1>3, <2>1
  <2>2. CASE Visit(r)
    BY <1>10, <2>2, ReleaseEffect, ReleaseFields, VisitEffect DEF LoopOverEntries
  <2> QED
    BY <1>10, <2>1, <2>2, ReleaseEffect
<1>11. ASSUME NEW r \in Redemption, CheckRelease(r) PROVE LoopOverEntries'
  BY <1>11, CheckReleaseEffect, VisitEffect DEF LoopOverEntries
<1>12. ASSUME NEW r \in Redemption, Visit(r), UNCHANGED mem PROVE LoopOverEntries'
  BY <1>12, VisitEffect DEF LoopOverEntries
<1>13. ASSUME NEW r \in Redemption, ScanEvent(r) \/ RefreshRelease(r)
       PROVE  LoopOverEntries'
  BY <1>10, <1>11, <1>12, <1>13 DEF ScanEvent, ReleaseOrNote, Enters, RefreshRelease
<1> QED
  BY <1>4, <1>5, <1>6, <1>7, <1>8, <1>9, <1>13
  DEF BridgeNext, DaemonStep, ChainStep, DepositStep

-----------------------------------------------------------------------------
(* The cursor                                                              *)

\* A burn to come is above every height the chain has reached.
LEMMA BurnsAbove ==
  ASSUME BridgeTyped, ChainsForward, NEW r \in Redemption, NEW n \in Int, n <= evm.block
  PROVE  evm'.burnedAt[r] \in 1..n <=> evm.burnedAt[r] \in 1..n
BY EvmFields DEF ChainsForward

\* What is tracked stays tracked, unless the daemon starts again with its file.
LEMMA TrackedKept ==
  ASSUME BridgeTyped, LoopOverEntries, BridgeNext, ~CrashDaemon
  PROVE  Tracked(mem) \subseteq Tracked(mem')
<1>1. ASSUME NEW r \in Redemption, NEW caught \in BOOLEAN,
             Enters(r, caught)
      PROVE  Tracked(mem) \subseteq Tracked(mem')
  BY <1>1, ReleaseEffect, ReleaseFields DEF Tracked
<1>2. ASSUME NEW r \in Redemption, ScanEvent(r) \/ RefreshRelease(r)
      PROVE  Tracked(mem) \subseteq Tracked(mem')
  <2>1. CASE CheckRelease(r)
    BY <2>1, CheckReleaseEffect DEF Tracked
  <2> QED
    BY <1>1, <1>2, <2>1 DEF ScanEvent, ReleaseOrNote, Enters, RefreshRelease
<1>3. CASE EndReleases
  BY <1>3, EndReleasesEffect DEF Tracked, LoopOverEntries
<1>4. CASE EndBatch
  BY <1>4, EndBatchEffect DEF Tracked
<1>5. CASE EndDeposits \/ Persist \/ FailCycle
  BY <1>5 DEF EndDeposits, Persist, FailCycle
<1>6. CASE DepositStep
  BY <1>6, DepositStepEffect DEF Tracked
<1>7. CASE ChainStep
  BY <1>7, ChainStepEffect
<1> QED
  BY <1>2, <1>3, <1>4, <1>5, <1>6, <1>7
  DEF BridgeNext, DaemonStep, ChainStep, DepositStep

\* The cursor moves at the end of a batch only.
LEMMA CursorMoves ==
  ASSUME BridgeTyped, BridgeNext
  PROVE  \/ EndBatch
         \/ CrashDaemon /\ mem' = disk /\ disk' = disk
         \/ mem'.last = mem.last /\ disk' \in {disk, mem} /\ (disk' = mem => mem' = mem)
         \/ mem'.last = mem.last /\ disk' = disk
<1>1. ASSUME NEW r \in Redemption, ScanEvent(r) \/ RefreshRelease(r)
      PROVE  mem'.last = mem.last /\ disk' = disk
  BY <1>1, ReleaseFields, CheckReleaseEffect DEF ScanEvent, ReleaseOrNote, Enters, RefreshRelease
<1>2. CASE EndReleases
  BY <1>2, EndReleasesEffect
<1>3. CASE EndDeposits \/ Persist \/ FailCycle \/ CrashDaemon
  BY <1>3 DEF EndDeposits, Persist, FailCycle, CrashDaemon
<1>4. CASE DepositStep
  BY <1>4, DepositStepEffect
<1>5. CASE ChainStep
  BY <1>5, ChainStepEffect
<1> QED
  BY <1>1, <1>2, <1>3, <1>4, <1>5 DEF BridgeNext, DaemonStep, ChainStep, DepositStep

LEMMA CursorPreserved ==
  ASSUME BridgeTyped, LoopOverEntries, CursorBehind, BatchCovered, RedemptionsTracked, BridgeNext
  PROVE  CursorBehind' /\ RedemptionsTracked'
<1> DEFINE Behind(s) == /\ s.last \in 0..evm'.block
                        /\ \A r \in Redemption : evm'.burnedAt[r] \in 1..s.last => r \in Tracked(s)
<1>1. ChainsForward /\ BridgeTyped'
  BY StepTyped
<1>2. /\ mem.last \in 0..evm.block /\ disk.last \in 0..evm.block
      /\ mem.last \in Int /\ disk.last \in Int /\ evm.block \in Nat /\ evm'.block \in Nat
      /\ evm.block <= evm'.block
  BY <1>1, EvmFields DEF CursorBehind, BridgeTyped, NativeRecord, EvmRecord, ChainsForward
<1>3. Behind(mem) /\ Behind(disk)
  <2>1. ASSUME NEW s \in {mem, disk} PROVE Behind(s)
    <3>1. s.last \in 0..evm.block /\ s.last \in Int /\ s.last <= evm.block
      BY <1>2, <2>1
    <3>2. ASSUME NEW r \in Redemption, evm'.burnedAt[r] \in 1..s.last
          PROVE  r \in Tracked(s)
      BY <1>1, <3>1, <3>2, BurnsAbove DEF RedemptionsTracked, Tracked
    <3> QED
      BY <1>2, <3>1, <3>2
  <2> QED
    BY <2>1
<1>4. Behind(mem')
  <2>1. CASE EndBatch
    <3>1. mem'.last = run.upper /\ run.phase = "events" /\ run.todo = {}
          /\ Tracked(mem') = Tracked(mem)
      BY <2>1, EndBatchEffect DEF Tracked
    <3>2. run.upper \in Int /\ run.final \in Int
      BY DEF BridgeTyped, NativeRecord, RunRecord
    <3>3. run.upper \in 0..evm.block
      BY <1>2, <3>1, <3>2, BridgeAssumption DEF BatchCovered
    <3>4. ASSUME NEW r \in Redemption, evm'.burnedAt[r] \in 1..run.upper
          PROVE  r \in Tracked(mem)
      <4>1. evm.burnedAt[r] \in 1..run.upper
        BY <1>1, <3>3, <3>4, BurnsAbove
      <4> QED
        BY <3>1, <4>1 DEF BatchCovered
    <3> QED
      BY <1>2, <3>1, <3>3, <3>4
  <2>2. CASE CrashDaemon
    BY <1>3, <2>2 DEF CrashDaemon
  <2>3. CASE mem'.last = mem.last /\ ~CrashDaemon
    <3>1. Tracked(mem) \subseteq Tracked(mem')
      BY <2>3, TrackedKept
    <3> QED
      BY <1>3, <2>3, <3>1
  <2> QED
    BY <2>1, <2>2, <2>3, CursorMoves DEF EndBatch, CrashDaemon
<1>5. Behind(disk')
  <2>1. CASE EndBatch
    BY <1>3, <2>1, EndBatchEffect
  <2> QED
    BY <1>3, <2>1, CursorMoves
<1> QED
  BY <1>4, <1>5 DEF CursorBehind, RedemptionsTracked, Tracked

\* A batch begins right above the cursor.
LEMMA NewBatch ==
  ASSUME BridgeTyped, UNCHANGED evm, NEW from \in Int, NEW final \in Int,
         1 <= from, from <= final, final <= evm.block - EvmConfirmations + 1,
         run' = EventBatch(from, final), mem'.last = from - 1,
         \A r \in Redemption : evm.burnedAt[r] \in 1..(from - 1) => r \in Tracked(mem')
  PROVE  BatchCovered'
<1> DEFINE upper == Least(final, from + BatchBlocks - 1)
<1>1. upper \in Int /\ from <= upper /\ upper <= final
  BY BridgeAssumption DEF Least
<1>2. run'.upper = upper /\ run'.final = final /\ run'.todo = EventsIn(from, upper)
  BY DEF EventBatch, Idle
<1> HIDE DEF upper
<1>3. ASSUME NEW r \in Redemption, evm.burnedAt[r] \in 1..upper
      PROVE  r \in EventsIn(from, upper) \cup Tracked(mem')
  <2>1. evm.burnedAt[r] \in 1..(from - 1) \/ evm.burnedAt[r] \in from..upper
    BY <1>1, <1>3
  <2> QED
    BY <2>1 DEF EventsIn
<1>4. \A r \in EventsIn(from, upper) : r \in Redemption /\ evm.burnedAt[r] \in 1..upper
  BY <1>1 DEF EventsIn
<1> QED
  BY <1>1, <1>2, <1>3, <1>4 DEF BatchCovered

LEMMA BatchPreserved ==
  ASSUME BridgeTyped, LoopOverEntries, CursorBehind, BatchCovered, RedemptionsTracked, BridgeNext
  PROVE  BatchCovered'
<1>1. ChainsForward
  BY StepTyped
<1>2. /\ mem.last \in Int /\ run.upper \in Int /\ run.final \in Int
      /\ evm.block \in Nat /\ evm'.block \in Nat /\ evm.block <= evm'.block
      /\ mem.last \in 0..evm.block
  BY <1>1, StepTyped, EvmFields
  DEF CursorBehind, BridgeTyped, NativeRecord, DaemonState, RunRecord, EvmRecord, ChainsForward
<1>3. ASSUME run'.phase # "events" PROVE BatchCovered'
  BY <1>3 DEF BatchCovered
<1>4. ASSUME run' \in {Idle, ReleasePhase} PROVE BatchCovered'
  <2>1. Idle.phase = "idle" /\ ReleasePhase.phase = "releases"
    BY DEF Idle, ReleasePhase
  <2> QED
    BY <1>3, <1>4, <2>1
<1>5. CASE EndDeposits
  <2>1. PICK from \in Int, final \in Int :
          /\ from = mem.last + 1 /\ final = evm.block - EvmConfirmations + 1
          /\ run' = IF final < from THEN ReleasePhase ELSE EventBatch(from, final)
    BY <1>2, <1>5, BridgeAssumption DEF EndDeposits
  <2>2. UNCHANGED <<mem, evm>>
    BY <1>5 DEF EndDeposits
  <2>3. CASE from <= final
    <3>1. run' = EventBatch(from, final) /\ mem'.last = from - 1 /\ 1 <= from
      BY <1>2, <2>1, <2>2, <2>3
    <3>2. from - 1 = mem.last
      BY <1>2, <2>1
    <3>3. \A r \in Redemption : evm.burnedAt[r] \in 1..(from - 1) => r \in Tracked(mem')
      BY <2>2, <3>2 DEF RedemptionsTracked, Tracked
    <3>4. final <= evm.block - EvmConfirmations + 1
      BY <2>1
    <3> QED
      BY <2>2, <2>3, <3>1, <3>3, <3>4, NewBatch
  <2> QED
    BY <1>4, <2>1, <2>3
<1>6. CASE EndBatch
  <2>1. CASE run.upper < run.final
    <3>1. /\ run' = EventBatch(run.upper + 1, run.final) /\ UNCHANGED evm
          /\ mem'.last = run.upper + 1 - 1
          /\ run.phase = "events" /\ run.todo = {} /\ Tracked(mem') = Tracked(mem)
      BY <1>2, <1>6, <2>1, EndBatchEffect DEF Tracked
    <3>2. /\ 1 <= run.upper + 1 /\ run.upper + 1 <= run.final
          /\ run.final <= evm.block - EvmConfirmations + 1
      BY <1>2, <2>1, <3>1 DEF BatchCovered
    <3>3. \A r \in Redemption :
            evm.burnedAt[r] \in 1..(run.upper + 1 - 1) => r \in Tracked(mem')
      BY <1>2, <3>1 DEF BatchCovered
    <3>4. run.upper + 1 \in Int
      BY <1>2
    <3> QED
      BY <1>2, <3>1, <3>2, <3>3, <3>4, NewBatch
  <2> QED
    BY <1>4, <1>6, <2>1, EndBatchEffect
<1>7. ASSUME NEW r \in Redemption, ScanEvent(r)
      PROVE  BatchCovered'
  <2>1. CASE run' = Idle
    BY <1>4, <2>1
  <2>2. CASE /\ Visit(r) /\ mem'.last = mem.last
             /\ r \in Tracked(mem') /\ Tracked(mem) \subseteq Tracked(mem')
    <3>1. run.phase = "events" /\ UNCHANGED evm
      BY <1>7 DEF ScanEvent, ReleaseOrNote, Enters
    <3>2. run'.todo = run.todo \ {r} /\ run'.upper = run.upper /\ run'.final = run.final
      BY <2>2, VisitEffect
    <3> QED
      BY <2>2, <3>1, <3>2 DEF BatchCovered
  <2>3. CASE Enters(r, FALSE)
    <3>1. /\ mem'.last = mem.last /\ (Visit(r) \/ run' = Idle)
          /\ r \in Tracked(mem') /\ Tracked(mem) \subseteq Tracked(mem')
      BY <2>3, ReleaseEffect, ReleaseFields DEF Tracked
    <3> QED
      BY <2>1, <2>2, <3>1
  <2> QED
    BY <1>7, <2>2, <2>3 DEF ScanEvent, ReleaseOrNote, Enters, KnownPaid, Tracked
<1>8. ASSUME NEW r \in Redemption, RefreshRelease(r)
      PROVE  BatchCovered'
  <2>1. run.phase = "releases" /\ (Visit(r) \/ VisitAndPop(r) \/ run' = Idle)
    BY <1>8, ReleaseEffect DEF RefreshRelease, Enters, CheckRelease
  <2>2. run' = Idle => run'.phase = "idle"
    BY DEF Idle
  <2> QED
    BY <1>3, <2>1, <2>2, VisitEffect
<1>9. CASE EndReleases
  BY <1>3, <1>9, EndReleasesEffect
<1>10. CASE Persist \/ FailCycle \/ CrashDaemon
  BY <1>4, <1>10 DEF Persist, FailCycle, CrashDaemon
<1>11. CASE DepositStep
  BY <1>3, <1>11, DepositStepEffect
<1>12. CASE ChainStep
  <2>1. UNCHANGED <<mem, run>>
    BY <1>12, ChainStepEffect
  <2>2. CASE run.phase = "events"
    <3>1. run.upper <= evm.block /\ run.final <= evm'.block - EvmConfirmations + 1
      BY <1>2, <2>2, BridgeAssumption DEF BatchCovered
    <3>2. \A r \in Redemption : evm'.burnedAt[r] \in 1..run.upper
                                  <=> evm.burnedAt[r] \in 1..run.upper
      BY <1>1, <1>2, <3>1, BurnsAbove
    <3> QED
      BY <2>1, <2>2, <3>1, <3>2 DEF BatchCovered
  <2> QED
    BY <1>3, <2>1, <2>2
<1> QED
  BY <1>5, <1>6, <1>7, <1>8, <1>9, <1>10, <1>11, <1>12
  DEF BridgeNext, DaemonStep, ChainStep, DepositStep

-----------------------------------------------------------------------------
(* The payments                                                            *)

\* What the invariants say of a state s of the daemon, with the chains as they are
\* after the step.
SoundAfter(s) ==
  /\ \A r \in DOMAIN s.releasing :
       /\ BurnFinal(r)' /\ (r \in s.finished => s.releasing[r] # NoTxid)
       /\ s.releasing[r] \in Payments(r)' \cup {NoTxid}
  /\ \A r \in s.finished : \E p \in Payments(r)' : Confirmed(p)'

\* What they say of the payments of r, when a state of the daemon knows r as paid
\* or not.
CountedAfter(r, known) ==
  /\ Cardinality(Payments(r)') <= 1 + faults'
  /\ ~known => Cardinality(Payments(r)') <= faults'
  /\ Payments(r)' # {} => BurnFinal(r)'

LEMMA PaymentsSplit ==
  ASSUME BridgeTyped', SoundAfter(mem'), SoundAfter(disk'),
         \A r \in Redemption : CountedAfter(r, KnownPaid(mem, r)')
  PROVE  PaymentsInv'
<1>1. \A s \in {mem', disk'} : DOMAIN s.releasing \subseteq Redemption
  BY DEF BridgeTyped, NativeRecord, DaemonState, Releasing
<1>2. PaymentsCounted'
  BY <1>1 DEF PaymentsCounted, SoundAfter, CountedAfter
<1>3. FinishedIsPaid'
  BY DEF FinishedIsPaid, SoundAfter
<1>4. PaidOncePerFault'
  BY DEF PaidOncePerFault, CountedAfter, BurnFinal
<1> QED
  BY <1>2, <1>3, <1>4 DEF PaymentsInv

LEMMA FinalKept ==
  ASSUME BridgeTyped, BridgeTyped', ChainsForward, NEW r \in Redemption, BurnFinal(r)
  PROVE  BurnFinal(r)'
<1>1. evm.block \in Nat /\ evm'.block \in Nat /\ evm.block <= evm'.block
  BY DEF BridgeTyped, NativeRecord, EvmRecord, ChainsForward
<1>2. evm.burnedAt[r] \in 1..(evm.block - EvmConfirmations + 1)
  BY DEF BurnFinal
<1>3. evm'.burnedAt[r] = evm.burnedAt[r]
  BY <1>2 DEF ChainsForward
<1> QED
  BY <1>1, <1>2, <1>3, BridgeAssumption DEF BurnFinal

LEMMA SoundKept ==
  ASSUME BridgeTyped, BridgeTyped', ChainsForward, PaymentsInv
  PROVE  SoundAfter(mem) /\ SoundAfter(disk)
<1>1. \A r : Payments(r) \subseteq Payments(r)'
  BY DEF ChainsForward, Payments
<1>2. \A p : Confirmed(p) => Confirmed(p)'
  BY DEF ChainsForward, Confirmed, History
<1>3. \A s \in {mem, disk} : DOMAIN s.releasing \subseteq Redemption
  BY DEF BridgeTyped, NativeRecord, DaemonState, Releasing
<1> SUFFICES ASSUME NEW s \in {mem, disk} PROVE SoundAfter(s)
  OBVIOUS
<1>4. ASSUME NEW r \in DOMAIN s.releasing
      PROVE  /\ BurnFinal(r)' /\ (r \in s.finished => s.releasing[r] # NoTxid)
             /\ s.releasing[r] \in Payments(r)' \cup {NoTxid}
  <2>1. r \in Redemption /\ BurnFinal(r) /\ (r \in s.finished => s.releasing[r] # NoTxid)
    BY <1>3, <1>4 DEF PaymentsInv, PaymentsCounted
  <2>2. s.releasing[r] \in Payments(r) \cup {NoTxid}
    BY <1>4 DEF PaymentsInv, FinishedIsPaid
  <2> QED
    BY <1>1, <2>1, <2>2, FinalKept
<1>5. \A r \in s.finished : \E p \in Payments(r)' : Confirmed(p)'
  BY <1>1, <1>2 DEF PaymentsInv, FinishedIsPaid
<1> QED
  BY <1>4, <1>5 DEF SoundAfter

LEMMA CountKept ==
  ASSUME BridgeTyped, BridgeTyped', ChainsForward, PaymentsInv, NEW r \in Redemption,
         Payments(r)' = Payments(r), faults' \in {faults, faults + 1},
         NEW known \in BOOLEAN, KnownPaid(mem, r) => known
  PROVE  CountedAfter(r, known)
<1>1. Cardinality(Payments(r)) \in Nat /\ faults \in Nat
  BY FS_CardinalityType DEF BridgeTyped, NativeRecord
<1>2. /\ Cardinality(Payments(r)) <= 1 + faults
      /\ ~KnownPaid(mem, r) => Cardinality(Payments(r)) <= faults
      /\ Payments(r) # {} => BurnFinal(r)
  BY DEF PaymentsInv, PaymentsCounted, PaidOncePerFault, BurnFinal
<1>3. Payments(r)' # {} => BurnFinal(r)'
  BY <1>2, FinalKept
<1> QED
  BY <1>1, <1>2, <1>3 DEF CountedAfter

\* A release that the state does not know as paid: the one extra payment that may
\* come of it is one for the lost reply.
LEMMA ReleaseKeepsPayments ==
  ASSUME BridgeTyped, BridgeTyped', ChainsForward, PaymentsInv, UNCHANGED disk,
         NEW r \in Redemption, NEW caught \in BOOLEAN, Enters(r, caught),
         ~KnownPaid(mem, r), BurnFinal(r)
  PROVE  PaymentsInv'
<1>1. /\ DOMAIN mem'.releasing = DOMAIN mem.releasing \cup {r}
      /\ \A q \in DOMAIN mem.releasing \ {r} : mem'.releasing[q] = mem.releasing[q]
      /\ mem'.finished = mem.finished
  BY ReleaseEffect, ReleaseFields
<1>2. BurnFinal(r)'
  BY FinalKept
<1>3. r \notin mem.finished
  BY DEF KnownPaid
<1>4. \/ native' = native /\ mem'.releasing[r] = NoTxid /\ faults' = faults
      \/ /\ native' = [native EXCEPT !.paid = @ \cup {NextPayment(r)}]
         /\ \/ mem'.releasing[r] = NextPayment(r) /\ faults' = faults
            \/ mem'.releasing[r] = NoTxid /\ faults' = faults + 1
  BY ReleaseEffect
<1>5. mem'.releasing[r] \in Payments(r)' \cup {NoTxid}
  BY <1>4, PaymentEffect
<1>6. SoundAfter(mem')
  BY <1>1, <1>2, <1>3, <1>5, SoundKept DEF SoundAfter
<1>7. SoundAfter(disk')
  BY SoundKept
<1>8. CountedAfter(r, KnownPaid(mem, r)')
  <2>1. Cardinality(Payments(r)) <= faults /\ Cardinality(Payments(r)) \in Nat /\ faults \in Nat
    BY FS_CardinalityType DEF BridgeTyped, NativeRecord, PaymentsInv, PaymentsCounted
  <2>2. CASE native' = native
    <3>1. Payments(r)' = Payments(r) /\ faults' \in {faults, faults + 1}
      BY <1>4, <2>2 DEF Payments
    <3>2. Cardinality(Payments(r)') <= faults' /\ Cardinality(Payments(r)') <= 1 + faults'
      BY <2>1, <3>1
    <3> QED
      BY <1>2, <3>2 DEF CountedAfter
  <2>3. CASE native' = [native EXCEPT !.paid = @ \cup {NextPayment(r)}]
    <3>1. /\ IsFiniteSet(Payments(r)')
          /\ Cardinality(Payments(r)') <= Cardinality(Payments(r)) + 1
      BY <2>3, PaymentEffect
    <3>2. Cardinality(Payments(r)') \in Nat
      BY <3>1, FS_CardinalityType
    <3>3. CASE mem'.releasing[r] = NextPayment(r) /\ faults' = faults
      <4>1. NextPayment(r) # NoTxid
        BY DEF NextPayment, NoTxid
      <4>2. KnownPaid(mem, r)'
        BY <1>1, <3>3, <4>1 DEF KnownPaid
      <4>3. Cardinality(Payments(r)') <= 1 + faults'
        BY <2>1, <3>1, <3>2, <3>3
      <4> QED
        BY <1>2, <4>2, <4>3 DEF CountedAfter
    <3>4. CASE faults' = faults + 1
      <4>1. Cardinality(Payments(r)') <= faults' /\ Cardinality(Payments(r)') <= 1 + faults'
        BY <2>1, <3>1, <3>2, <3>4
      <4> QED
        BY <1>2, <4>1 DEF CountedAfter
    <3>5. CASE native' = native /\ mem'.releasing[r] = NoTxid /\ faults' = faults
      BY <2>2, <3>5
    <3> QED
      BY <1>4, <3>3, <3>4, <3>5
  <2> QED
    BY <1>4, <2>2, <2>3
<1>9. ASSUME NEW q \in Redemption, q # r
      PROVE  CountedAfter(q, KnownPaid(mem, q)')
  <2>1. Payments(q)' = Payments(q)
    <3>1. NextPayment(r)[1] = r
      BY DEF NextPayment
    <3>2. native'.paid \in {native.paid, native.paid \cup {NextPayment(r)}}
      BY <1>4 DEF BridgeTyped, NativeRecord
    <3> QED
      BY <1>9, <3>1, <3>2 DEF Payments
  <2>2. KnownPaid(mem, q) => KnownPaid(mem, q)'
    BY <1>1, <1>9 DEF KnownPaid
  <2>3. faults' \in {faults, faults + 1} /\ KnownPaid(mem, q)' \in BOOLEAN
    BY <1>4 DEF KnownPaid
  <2> QED
    BY <2>1, <2>2, <2>3, CountKept
<1> QED
  BY <1>6, <1>7, <1>8, <1>9, PaymentsSplit

LEMMA PaymentsPreserved ==
  ASSUME BridgeTyped, LoopOverEntries, BatchCovered, PaymentsInv, BridgeNext
  PROVE  PaymentsInv'
<1>1. BridgeTyped' /\ ChainsForward
  BY StepTyped
<1>2. SoundAfter(mem) /\ SoundAfter(disk)
  BY <1>1, SoundKept
<1>3. ASSUME native'.paid = native.paid, faults' \in {faults, faults + 1},
             SoundAfter(mem'), disk' \in {mem, disk},
             \A r \in Redemption : KnownPaid(mem, r) => KnownPaid(mem, r)'
      PROVE  PaymentsInv'
  <2>1. SoundAfter(disk')
    BY <1>2, <1>3
  <2>2. ASSUME NEW r \in Redemption PROVE CountedAfter(r, KnownPaid(mem, r)')
    <3>1. Payments(r)' = Payments(r)
      BY <1>3 DEF Payments
    <3>2. KnownPaid(mem, r)' \in BOOLEAN
      BY DEF KnownPaid
    <3> QED
      BY <1>1, <1>3, <3>1, <3>2, CountKept
  <2> QED
    BY <1>1, <1>3, <2>1, <2>2, PaymentsSplit
<1>4. ASSUME mem'.releasing = mem.releasing, mem'.finished = mem.finished,
             native'.paid = native.paid, faults' \in {faults, faults + 1}, disk' \in {mem, disk}
      PROVE  PaymentsInv'
  <2>1. SoundAfter(mem')
    BY <1>2, <1>4 DEF SoundAfter
  <2>2. \A r \in Redemption : KnownPaid(mem, r) => KnownPaid(mem, r)'
    BY <1>4 DEF KnownPaid
  <2> QED
    BY <1>3, <1>4, <2>1, <2>2
<1>5. CASE ChainStep
  BY <1>4, <1>5, ChainStepEffect
<1>6. CASE DepositStep
  BY <1>4, <1>6, DepositStepEffect
<1>7. CASE EndDeposits \/ Persist \/ FailCycle
  BY <1>4, <1>7 DEF EndDeposits, Persist, FailCycle
<1>8. CASE EndBatch
  BY <1>4, <1>8, EndBatchEffect
<1>9. CASE EndReleases
  <2>1. SoundAfter(mem')
    BY <1>2, <1>9, EndReleasesEffect DEF SoundAfter
  <2>2. \A r \in Redemption : KnownPaid(mem, r) => KnownPaid(mem, r)'
    BY <1>9, EndReleasesEffect DEF KnownPaid, LoopOverEntries
  <2> QED
    BY <1>3, <1>9, <2>1, <2>2, EndReleasesEffect
<1>10. CASE CrashDaemon
  <2>1. SoundAfter(mem') /\ SoundAfter(disk')
    BY <1>2, <1>10 DEF CrashDaemon
  <2>2. ASSUME NEW r \in Redemption PROVE CountedAfter(r, KnownPaid(mem, r)')
    <3>1. Payments(r)' = Payments(r) /\ faults' = faults + 1
      BY <1>10 DEF CrashDaemon, Payments
    <3>2. CountedAfter(r, TRUE)
      BY <1>1, <3>1, CountKept
    <3>3. Cardinality(Payments(r)) <= 1 + faults
      BY DEF PaymentsInv, PaidOncePerFault
    <3>4. Cardinality(Payments(r)') <= faults'
      BY <3>1, <3>3 DEF BridgeTyped, NativeRecord
    <3> QED
      BY <3>2, <3>4 DEF CountedAfter
  <2> QED
    BY <1>1, <2>1, <2>2, PaymentsSplit
<1>11. ASSUME NEW r \in Redemption, CheckRelease(r), mem.releasing[r] # NoTxid,
              r \in DOMAIN mem.releasing, UNCHANGED disk
       PROVE  PaymentsInv'
  <2>1. CASE mem'.finished = mem.finished
    BY <1>4, <1>11, <2>1, CheckReleaseEffect
  <2>2. CASE mem'.finished = mem.finished \cup {r} /\ Confirmed(mem.releasing[r])
    <3>1. mem'.releasing = mem.releasing /\ UNCHANGED <<native, faults>>
      BY <1>11, CheckReleaseEffect
    <3>2. mem.releasing[r] \in Payments(r)'
      BY <1>2, <1>11 DEF SoundAfter
    <3>3. Confirmed(mem.releasing[r])'
      <4>1. ToSet(native'.history) = ToSet(native.history)
        BY <3>1
      <4>2. \A p : Confirmed(p)' <=> p \in ToSet(native.history)
        BY <4>1 DEF Confirmed
      <4>3. mem'.releasing[r] \in ToSet(native.history)
        BY <2>2, <3>1 DEF Confirmed
      <4> QED
        BY <3>1, <4>1, <4>3 DEF Confirmed
    <3>4. SoundAfter(mem')
      BY <1>2, <1>11, <2>2, <3>1, <3>2, <3>3 DEF SoundAfter, Confirmed
    <3>5. \A q \in Redemption : KnownPaid(mem, q) => KnownPaid(mem, q)'
      BY <2>2, <3>1 DEF KnownPaid
    <3> QED
      BY <1>3, <1>11, <3>1, <3>4, <3>5
  <2> QED
    BY <1>11, <2>1, <2>2, CheckReleaseEffect
<1>12. ASSUME NEW r \in Redemption, ScanEvent(r) PROVE PaymentsInv'
  <2>1. CASE KnownPaid(mem, r)
    BY <1>4, <1>12, <2>1 DEF ScanEvent, ReleaseOrNote, Enters, KnownPaid
  <2>2. CASE ~KnownPaid(mem, r)
    <3>1. Enters(r, FALSE) /\ UNCHANGED disk /\ run.phase = "events"
          /\ r \in run.todo
      BY <1>12, <2>2 DEF ScanEvent, ReleaseOrNote, Enters, KnownPaid
    <3>2. BurnFinal(r)
      <4>1. /\ evm.burnedAt[r] \in 1..run.upper /\ run.upper <= run.final
            /\ run.final <= evm.block - EvmConfirmations + 1
        BY <3>1 DEF BatchCovered
      <4>2. run.upper \in Int /\ run.final \in Int
        BY DEF BridgeTyped, NativeRecord, RunRecord
      <4> QED
        BY <4>1, <4>2, EvmFields, BridgeAssumption DEF BurnFinal
    <3> QED
      BY <1>1, <2>2, <3>1, <3>2, ReleaseKeepsPayments
  <2> QED
    BY <2>1, <2>2
<1>13. ASSUME NEW r \in Redemption, RefreshRelease(r) PROVE PaymentsInv'
  <2>1. r \in DOMAIN mem.releasing /\ UNCHANGED disk
    BY <1>13 DEF RefreshRelease, LoopOverEntries
  <2>2. CASE mem.releasing[r] = NoTxid
    <3>1. Enters(r, TRUE) \/ UNCHANGED <<native, mem, faults>>
      BY <1>13, <2>2 DEF RefreshRelease, Enters
    <3>2. BurnFinal(r) /\ ~KnownPaid(mem, r)
      BY <2>1, <2>2 DEF PaymentsInv, PaymentsCounted, KnownPaid
    <3>3. CASE UNCHANGED <<native, mem, faults>>
      BY <1>4, <2>1, <3>3
    <3> QED
      BY <1>1, <2>1, <3>1, <3>2, <3>3, ReleaseKeepsPayments
  <2>3. CASE mem.releasing[r] # NoTxid
    BY <1>11, <1>13, <2>1, <2>3 DEF RefreshRelease
  <2> QED
    BY <2>2, <2>3
<1> QED
  BY <1>5, <1>6, <1>7, <1>8, <1>9, <1>10, <1>12, <1>13
  DEF BridgeNext, DaemonStep, ChainStep, DepositStep

-----------------------------------------------------------------------------
(* Together                                                                *)

LEMMA BridgeStarts == BridgeInit => BridgeInv
<1> SUFFICES ASSUME BridgeInit PROVE BridgeInv
  OBVIOUS
<1>1. /\ native = [history |-> << >>, paid |-> {}, lost |-> {}, approved |-> TRUE]
      /\ evm = [minted |-> {}, supply |-> 0, queue |-> [d \in Deposit |-> 0],
                burnedAt |-> [r \in Redemption |-> 0], block |-> 0, paused |-> FALSE]
      /\ mem = EmptyState /\ disk = EmptyState /\ run = Idle /\ faults = 0 /\ troubles = 0
  BY DEF BridgeInit
<1>2. IsFiniteSet({}) /\ Cardinality({}) = 0
  BY FS_EmptySet
<1>3. EmptyState \in DaemonState /\ EmptyState.releasing = << >> /\ DOMAIN EmptyState.releasing = {}
      /\ EmptyState.last = 0 /\ EmptyState.done = {} /\ EmptyState.minting = {}
      /\ EmptyState.finished = {}
  <2>1. << >> \in [{} -> Payment \cup {NoTxid}]
    OBVIOUS
  <2>2. << >> \in Releasing
    BY <2>1 DEF Releasing
  <2> QED
    BY <2>2 DEF EmptyState, DaemonState
<1>4. \A r \in Redemption : Payments(r) = {}
  BY <1>1 DEF Payments
<1>5. BridgeTyped
  <2>1. native \in NativeRecord
    BY <1>1 DEF NativeRecord
  <2>2. evm \in EvmRecord
    BY <1>1 DEF EvmRecord
  <2>3. run \in RunRecord
    BY <1>1 DEF Idle, RunRecord, Phase
  <2> QED
    BY <1>1, <1>2, <1>3, <1>4, <2>1, <2>2, <2>3 DEF BridgeTyped, NativeRecord
<1>6. Burned = {} /\ evm.minted = {} /\ evm.supply = 0
  BY <1>1 DEF Burned
<1>7. MintsConfirmed /\ SupplyBacked
  <2>1. /\ \A d \in Deposit : evm.queue[d] = 0
        /\ run.phase = "idle"
        /\ mem.minting = {} /\ disk.minting = {} /\ mem.done = {} /\ disk.done = {}
    BY <1>1, <1>3 DEF Idle
  <2>2. MintsConfirmed
    BY <1>2, <1>6, <2>1 DEF MintsConfirmed
  <2>3. evm.supply + Cardinality(Burned) = Cardinality(evm.minted)
    BY <1>2, <1>6
  <2> QED
    BY <1>6, <2>1, <2>2, <2>3 DEF SupplyBacked, Burned
<1>8. LoopOverEntries /\ BatchCovered
  BY <1>1 DEF LoopOverEntries, BatchCovered, Idle
<1>9. CursorBehind /\ RedemptionsTracked
  BY <1>1, <1>3 DEF CursorBehind, RedemptionsTracked
<1>10. PaymentsInv
  <2>1. \A r \in Redemption : Cardinality(Payments(r)) = 0
    BY <1>2, <1>4
  <2>2. DOMAIN mem.releasing = {} /\ DOMAIN disk.releasing = {}
        /\ mem.finished = {} /\ disk.finished = {}
    BY <1>1, <1>3
  <2> QED
    BY <1>1, <1>4, <2>1, <2>2
    DEF PaymentsInv, PaymentsCounted, PaidOncePerFault, FinishedIsPaid
<1> QED
  BY <1>5, <1>7, <1>8, <1>9, <1>10 DEF BridgeInv

LEMMA BridgePreserved == BridgeInv /\ [BridgeNext]_bridgeVars => BridgeInv'
<1> SUFFICES ASSUME BridgeInv, [BridgeNext]_bridgeVars PROVE BridgeInv'
  OBVIOUS
<1>1. CASE BridgeNext
  BY <1>1, StepTyped, DepositsPreserved, LoopPreserved, CursorPreserved, BatchPreserved,
     PaymentsPreserved
  DEF BridgeInv
<1>2. CASE UNCHANGED bridgeVars
  BY <1>2 DEF bridgeVars, BridgeInv, BridgeTyped, NativeRecord, History, Payments,
     MintsConfirmed, SupplyBacked, Burned, LoopOverEntries, CursorBehind, BatchCovered, RedemptionsTracked, Tracked,
     PaymentsInv, PaymentsCounted, KnownPaid, BurnFinal, PaidOncePerFault, FinishedIsPaid, Confirmed
<1> QED
  BY <1>1, <1>2

LEMMA BridgeInvariant == BridgeSpec => []BridgeInv
  BY BridgeStarts, BridgePreserved, PTL DEF BridgeSpec

\* Every wrapped unit stands for its own confirmed deposit, whatever is submitted
\* twice, lost, paused or interrupted (mintFromBridge, refresh_pending_mints).
THEOREM SupplyAlwaysBacked == BridgeSpec => []SupplyBacked
<1>1. BridgeInv => SupplyBacked
  BY DEF BridgeInv
<1> QED
  BY <1>1, BridgeInvariant, PTL

\* No number of failed batches, crashes and restarts makes the cursor of
\* scan_evm_redemptions pass a redemption that nobody tracks.
THEOREM NoRedemptionSkipped == BridgeSpec => []RedemptionsTracked
<1>1. BridgeInv => RedemptionsTracked
  BY DEF BridgeInv
<1> QED
  BY <1>1, BridgeInvariant, PTL

\* A redemption is paid again at most once per crash or lost reply, and never
\* before its burn is final.
THEOREM ExtraPaymentsAreFaults == BridgeSpec => []PaidOncePerFault
<1>1. BridgeInv => PaidOncePerFault
  BY DEF BridgeInv, PaymentsInv
<1> QED
  BY <1>1, BridgeInvariant, PTL

\* What the state of the daemon or its file calls finished was paid and confirmed.
THEOREM FinishedWasPaid == BridgeSpec => []FinishedIsPaid
<1>1. BridgeInv => FinishedIsPaid
  BY DEF BridgeInv, PaymentsInv
<1> QED
  BY <1>1, BridgeInvariant, PTL
=============================================================================
