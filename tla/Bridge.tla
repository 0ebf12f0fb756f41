-------------------------------- MODULE Bridge --------------------------------
(***************************************************************************)
(* The EVM bridge: the daemon (src/evm/bridge/bridge_daemon.py) between    *)
(* the native chain, whose reserve address takes deposits and pays         *)
(* redemptions, and the wrapped token (src/evm/src/WrappedCryptEX.sol).    *)
(*                                                                         *)
(* mem is the daemon's self.state, disk the state file it loads when it    *)
(* starts.  run is where a cycle of run_cycle stands: the phase, the items *)
(* its loop has still to visit, and those it will pop after the loop.      *)
(* Any call of the daemon may raise, which ends the cycle and keeps mem; a *)
(* call may also take effect and raise, and the daemon may die anywhere.   *)
(* autoRelease is auto_release_redemptions of its configuration, off by    *)
(* default; auto_mint is left at its default, on.                          *)
(***************************************************************************)
EXTENDS Integers, Sequences, FiniteSets, SequencesExt

CONSTANTS
  DepositQueue, \* the deposits in the order the native chain confirms them
  Redemption,   \* the redemptions users may request
  ScanLimit,    \* native.scan_limit: length of the list getaddresstxids gives
  EvmConfirmations,
  BatchBlocks,  \* redemption_block_batch_size
  MaxEvmBlock,  \* bound: height of the EVM chain
  MaxSubmits,   \* bound: mint transactions under way for one deposit
  MaxFaults,    \* bound: crashes and lost replies
  MaxTroubles   \* bound: failed calls, pauses, revoked approvals, lost mints

ASSUME BridgeAssumption ==
  /\ ScanLimit \in Nat /\ EvmConfirmations \in Nat \ {0} /\ BatchBlocks \in Nat \ {0}
  /\ MaxFaults \in Nat /\ MaxTroubles \in Nat

VARIABLES native, evm, mem, disk, run, autoRelease, faults, troubles
bridgeVars == <<native, evm, mem, disk, run, autoRelease, faults, troubles>>

Deposit == ToSet(DepositQueue)
NoTxid == << >>
Idle == [phase |-> "idle", todo |-> {}, completed |-> {}, final |-> 0, upper |-> 0]
EmptyState == [last |-> 0, done |-> {}, minting |-> {}, finished |-> {},
               releasing |-> << >>]

Least(a, b) == IF a < b THEN a ELSE b
Minted(d) == d \in evm.minted          \* isProcessedDeposit
Payments(r) == {p \in native.paid : p[1] = r}
NextPayment(r) == <<r, Cardinality(Payments(r)) + 1>>
\* getaddresstxids: every transaction of the reserve address, oldest first,
\* cut at the limit.  The history holds deposits and confirmed payments.
Listed == ToSet(SubSeq(native.history, 1, Least(Len(native.history), ScanLimit)))
Confirmed(p) == p \in ToSet(native.history)

-----------------------------------------------------------------------------
(* The two chains *)

ConfirmDeposit ==
  LET seen == Cardinality(ToSet(native.history) \cap Deposit) IN
  /\ seen < Len(DepositQueue)
  /\ native' = [native EXCEPT !.history = Append(@, DepositQueue[seen + 1])]
  /\ UNCHANGED <<evm, mem, disk, run, autoRelease, faults, troubles>>

\* A payment waits in the pools until a block comes: that block holds it, or wipes
\* it with the rest of the pool (activate_path), and nobody sends it again.
InPool(p) == p \in native.paid \ native.lost /\ ~Confirmed(p)
ConfirmPayment(p) ==
  /\ InPool(p)
  /\ native' = [native EXCEPT !.history = Append(@, p)]
  /\ UNCHANGED <<evm, mem, disk, run, autoRelease, faults, troubles>>

LosePayment(p) ==
  /\ InPool(p)
  /\ native' = [native EXCEPT !.lost = @ \cup {p}]
  /\ UNCHANGED <<evm, mem, disk, run, autoRelease, faults, troubles>>

\* The node's sync approval, which sendtoaddress needs.
Approve ==
  /\ ~native.approved
  /\ native' = [native EXCEPT !.approved = TRUE]
  /\ UNCHANGED <<evm, mem, disk, run, autoRelease, faults, troubles>>

RevokeApproval ==
  /\ native.approved /\ troubles < MaxTroubles
  /\ native' = [native EXCEPT !.approved = FALSE]
  /\ troubles' = troubles + 1
  /\ UNCHANGED <<evm, mem, disk, run, autoRelease, faults>>

\* The mutant: the deposit id is not remembered before the tokens are minted.
MineMintTwice(d) ==
  /\ evm.queue[d] > 0
  /\ evm' = [evm EXCEPT !.queue[d] = @ - 1,
                        !.minted = IF evm.paused THEN @ ELSE @ \cup {d},
                        !.supply = IF evm.paused THEN @ ELSE @ + 1]
  /\ UNCHANGED <<native, mem, disk, run, autoRelease, faults, troubles>>

\* mintFromBridge: a second mint of one deposit id reverts, and so does any
\* mint while the token is paused.
MineMint(d) ==
  /\ evm.queue[d] > 0
  /\ evm' = [evm EXCEPT !.queue[d] = @ - 1,
                        !.minted = IF evm.paused THEN @ ELSE @ \cup {d},
                        !.supply = IF evm.paused \/ Minted(d) THEN @ ELSE @ + 1]
  /\ UNCHANGED <<native, mem, disk, run, autoRelease, faults, troubles>>

LoseMint(d) ==
  /\ evm.queue[d] > 0 /\ troubles < MaxTroubles
  /\ evm' = [evm EXCEPT !.queue[d] = @ - 1]
  /\ troubles' = troubles + 1
  /\ UNCHANGED <<native, mem, disk, run, autoRelease, faults>>

\* requestRedemption burns one unit and emits its event in a new block.
Redeem(r) ==
  /\ evm.burnedAt[r] = 0 /\ ~evm.paused /\ evm.supply > 0
  /\ evm.block + EvmConfirmations <= MaxEvmBlock
  /\ evm' = [evm EXCEPT !.supply = @ - 1, !.block = @ + 1, !.burnedAt[r] = evm.block + 1]
  /\ UNCHANGED <<native, mem, disk, run, autoRelease, faults, troubles>>

MineEmpty ==
  /\ evm.block < MaxEvmBlock
  /\ evm' = [evm EXCEPT !.block = @ + 1]
  /\ UNCHANGED <<native, mem, disk, run, autoRelease, faults, troubles>>

Pause ==
  /\ ~evm.paused /\ troubles < MaxTroubles
  /\ evm' = [evm EXCEPT !.paused = TRUE]
  /\ troubles' = troubles + 1
  /\ UNCHANGED <<native, mem, disk, run, autoRelease, faults>>

Unpause ==
  /\ evm.paused
  /\ evm' = [evm EXCEPT !.paused = FALSE]
  /\ UNCHANGED <<native, mem, disk, run, autoRelease, faults, troubles>>

-----------------------------------------------------------------------------
(* The calls that take effect outside the daemon *)

Visit(x) == run' = [run EXCEPT !.todo = @ \ {x}]
VisitAndPop(x) == run' = [run EXCEPT !.todo = @ \ {x}, !.completed = @ \cup {x}]

\* cast send --async: it raises while the token is paused, since the gas
\* estimate reverts.  The reply may be lost after the mint is on its way.
SendMint(d, recorded) ==
  /\ ~evm.paused /\ evm.queue[d] < MaxSubmits
  /\ evm' = [evm EXCEPT !.queue[d] = @ + 1]
  /\ \/ mem' = recorded /\ Visit(d) /\ UNCHANGED faults
     \/ /\ faults < MaxFaults /\ faults' = faults + 1
        /\ run' = Idle /\ UNCHANGED mem

\* releasing[r] = txid, of an entry that is there or a new one.
WithEntry(releasing, r, txid) ==
  [q \in DOMAIN releasing \cup {r} |-> IF q = r THEN txid ELSE releasing[q]]

\* submit_native_release for r, whose entry the caller has put in releasing.
\* An exception ends the cycle, or only this turn where the caller catches it.
Release(r, releasing, caught) ==
  LET waiting == [mem EXCEPT !.releasing = WithEntry(releasing, r, NoTxid)]
      sent == [mem EXCEPT !.releasing = WithEntry(releasing, r, NextPayment(r))]
  IN
  \/ /\ ~native.approved
     /\ mem' = waiting /\ Visit(r)
     /\ UNCHANGED <<native, faults, troubles>>
  \/ /\ native.approved
     /\ native' = [native EXCEPT !.paid = @ \cup {NextPayment(r)}]
     /\ \/ mem' = sent /\ Visit(r) /\ UNCHANGED faults
        \/ /\ faults < MaxFaults /\ faults' = faults + 1
           /\ mem' = waiting
           /\ IF caught THEN Visit(r) ELSE run' = Idle
     /\ UNCHANGED troubles
  \/ /\ troubles < MaxTroubles /\ troubles' = troubles + 1
     /\ mem' = waiting
     /\ IF caught THEN Visit(r) ELSE run' = Idle
     /\ UNCHANGED <<native, faults>>

-----------------------------------------------------------------------------
(* run_cycle *)

StartCycle ==
  /\ run.phase = "idle"
  /\ run' = [Idle EXCEPT !.phase = "mints", !.todo = mem.minting]
  /\ UNCHANGED <<native, evm, mem, disk, autoRelease, faults, troubles>>

\* refresh_pending_mints, one turn: settled, not due yet, or sent again.
RefreshMint(d) ==
  /\ run.phase = "mints" /\ d \in run.todo
  /\ \/ /\ Minted(d)
        /\ mem' = [mem EXCEPT !.done = @ \cup {d}] /\ VisitAndPop(d)
        /\ UNCHANGED <<evm, faults>>
     \/ ~Minted(d) /\ Visit(d) /\ UNCHANGED <<evm, mem, faults>>
     \/ ~Minted(d) /\ SendMint(d, mem)
  /\ UNCHANGED <<native, disk, autoRelease, troubles>>

\* The turns of it that submit the mint again.
ResendMint(d) == RefreshMint(d) /\ evm' # evm

EndMints ==
  /\ run.phase = "mints" /\ run.todo = {}
  /\ mem' = [mem EXCEPT !.minting = @ \ run.completed]
  /\ run' = [Idle EXCEPT !.phase = "deposits", !.todo = Listed \cap Deposit]
  /\ UNCHANGED <<native, evm, disk, autoRelease, faults, troubles>>

\* The mutant: a deposit counts as processed once its mint is sent.
RecordedDone(d) == [mem EXCEPT !.done = @ \cup {d}]
Recorded(d) == [mem EXCEPT !.minting = @ \cup {d}]

\* scan_native_deposits, one deposit.
ScanDeposit(d) ==
  /\ run.phase = "deposits" /\ d \in run.todo
  /\ \/ /\ d \in mem.done \cup mem.minting
        /\ Visit(d) /\ UNCHANGED <<evm, mem, faults>>
     \/ /\ d \notin mem.done \cup mem.minting /\ Minted(d)
        /\ mem' = [mem EXCEPT !.done = @ \cup {d}] /\ Visit(d)
        /\ UNCHANGED <<evm, faults>>
     \/ /\ d \notin mem.done \cup mem.minting /\ ~Minted(d)
        /\ SendMint(d, Recorded(d))
  /\ UNCHANGED <<native, disk, autoRelease, troubles>>

ReleasePhase == [Idle EXCEPT !.phase = "releases", !.todo = DOMAIN mem.releasing]
EventsIn(from, to) == {r \in Redemption : evm.burnedAt[r] \in from..to}
EventBatch(from, final) ==
  LET upper == Least(final, from + BatchBlocks - 1)
  IN  [Idle EXCEPT !.phase = "events", !.todo = EventsIn(from, upper),
                   !.final = final, !.upper = upper]

\* scan_evm_redemptions: the finalized height is read once, before the loop.
EndDeposits ==
  /\ run.phase = "deposits" /\ run.todo = {}
  /\ LET final == evm.block - EvmConfirmations + 1
     IN  run' = IF final < mem.last + 1 THEN ReleasePhase
                ELSE EventBatch(mem.last + 1, final)
  /\ UNCHANGED <<native, evm, mem, disk, autoRelease, faults, troubles>>

\* The event of r gets its entry, and is paid at once if releases are automatic.
NoteEvent(r) ==
  /\ mem' = [mem EXCEPT !.releasing = WithEntry(@, r, NoTxid)] /\ Visit(r)
  /\ UNCHANGED <<native, faults, troubles>>
ReleaseOrNote(r) == \/ autoRelease /\ Release(r, mem.releasing, FALSE)
                    \/ ~autoRelease /\ NoteEvent(r)

\* The mutant: what the state says of the release is overwritten by the event.
ScanEventAfresh(r) ==
  /\ run.phase = "events" /\ r \in run.todo
  /\ \/ /\ r \in mem.finished
        /\ Visit(r) /\ UNCHANGED <<native, mem, faults, troubles>>
     \/ r \notin mem.finished /\ ReleaseOrNote(r)
  /\ UNCHANGED <<evm, disk, autoRelease>>

\* processed_redemptions has r, or its entry has a native_release_txid.
KnownPaid(s, r) == \/ r \in s.finished
                   \/ r \in DOMAIN s.releasing /\ s.releasing[r] # NoTxid
ScanEvent(r) ==
  /\ run.phase = "events" /\ r \in run.todo
  /\ \/ /\ KnownPaid(mem, r)
        /\ Visit(r) /\ UNCHANGED <<native, mem, faults, troubles>>
     \/ ~KnownPaid(mem, r) /\ ReleaseOrNote(r)
  /\ UNCHANGED <<evm, disk, autoRelease>>

\* The mutant: the cursor goes to the finalized height with the first batch.
EndBatchAtFinal ==
  /\ run.phase = "events" /\ run.todo = {}
  /\ mem' = [mem EXCEPT !.last = run.final]
  /\ run' = IF run.upper < run.final THEN EventBatch(run.upper + 1, run.final)
            ELSE ReleasePhase
  /\ UNCHANGED <<native, evm, disk, autoRelease, faults, troubles>>

EndBatch ==
  /\ run.phase = "events" /\ run.todo = {}
  /\ mem' = [mem EXCEPT !.last = run.upper]
  /\ run' = IF run.upper < run.final THEN EventBatch(run.upper + 1, run.final)
            ELSE ReleasePhase
  /\ UNCHANGED <<native, evm, disk, autoRelease, faults, troubles>>

\* The mutant: a payment is final when it is sent.
Sent(p) == p \in native.paid
Settled(p) == Confirmed(p)

\* refresh_pending_releases, one turn; every exception is caught.
CheckRelease(r) ==
  /\ \/ /\ Settled(mem.releasing[r])
        /\ mem' = [mem EXCEPT !.finished = @ \cup {r}] /\ VisitAndPop(r)
        /\ UNCHANGED troubles
     \/ ~Settled(mem.releasing[r]) /\ Visit(r) /\ UNCHANGED <<mem, troubles>>
     \/ /\ troubles < MaxTroubles /\ troubles' = troubles + 1
        /\ Visit(r) /\ UNCHANGED mem
  /\ UNCHANGED <<native, faults>>

\* The mutant: an entry without a txid is left to the scan of the events.
RefreshReleaseSkipping(r) ==
  /\ run.phase = "releases" /\ r \in run.todo
  /\ IF mem.releasing[r] = NoTxid
     THEN Visit(r) /\ UNCHANGED <<native, mem, faults, troubles>>
     ELSE CheckRelease(r)
  /\ UNCHANGED <<evm, disk, autoRelease>>

RefreshRelease(r) ==
  /\ run.phase = "releases" /\ r \in run.todo
  /\ \/ mem.releasing[r] = NoTxid /\ autoRelease /\ Release(r, mem.releasing, TRUE)
     \/ /\ mem.releasing[r] = NoTxid /\ ~autoRelease
        /\ Visit(r) /\ UNCHANGED <<native, mem, faults, troubles>>
     \/ mem.releasing[r] # NoTxid /\ CheckRelease(r)
  /\ UNCHANGED <<evm, disk, autoRelease>>

EndReleases ==
  /\ run.phase = "releases" /\ run.todo = {}
  /\ mem' = [mem EXCEPT !.releasing =
               [r \in DOMAIN mem.releasing \ run.completed |-> mem.releasing[r]]]
  /\ run' = [Idle EXCEPT !.phase = "persist"]
  /\ UNCHANGED <<native, evm, disk, autoRelease, faults, troubles>>

\* persist_state, by a temporary file and a rename.
Persist ==
  /\ run.phase = "persist"
  /\ disk' = mem
  /\ run' = Idle
  /\ UNCHANGED <<native, evm, mem, autoRelease, faults, troubles>>

\* A call that raises without effect: cast send while the token is paused, at
\* no cost to the bound, or any call of the cycle.
FailCycle ==
  /\ run.phase # "idle"
  /\ \/ /\ evm.paused
        /\ \E d \in run.todo \cap Deposit :
             ~Minted(d) /\ (run.phase = "deposits" => d \notin mem.done \cup mem.minting)
        /\ UNCHANGED troubles
     \/ troubles < MaxTroubles /\ troubles' = troubles + 1
  /\ run' = Idle
  /\ UNCHANGED <<native, evm, mem, disk, autoRelease, faults>>

\* The daemon dies and is started again: parse_config reads the configuration,
\* which the operator may have changed, and _load_state the state file.
CrashDaemon ==
  /\ faults < MaxFaults /\ faults' = faults + 1
  /\ mem' = disk
  /\ autoRelease' \in BOOLEAN
  /\ run' = Idle
  /\ UNCHANGED <<native, evm, disk, troubles>>

BridgeInit ==
  /\ native = [history |-> << >>, paid |-> {}, lost |-> {}, approved |-> TRUE]
  /\ evm = [minted |-> {}, supply |-> 0, queue |-> [d \in Deposit |-> 0],
            burnedAt |-> [r \in Redemption |-> 0], block |-> 0, paused |-> FALSE]
  /\ mem = EmptyState /\ disk = EmptyState
  /\ run = Idle /\ autoRelease \in BOOLEAN
  /\ faults = 0 /\ troubles = 0

DaemonStep ==
  \/ StartCycle \/ EndMints \/ EndDeposits \/ EndBatch \/ EndReleases \/ Persist
  \/ \E d \in Deposit : RefreshMint(d) \/ ScanDeposit(d)
  \/ \E r \in Redemption : ScanEvent(r) \/ RefreshRelease(r)

BridgeNext ==
  \/ DaemonStep
  \/ FailCycle
  \/ CrashDaemon
  \/ ConfirmDeposit
  \/ \E p \in native.paid : ConfirmPayment(p) \/ LosePayment(p)
  \/ Approve
  \/ RevokeApproval
  \/ \E d \in Deposit : MineMint(d) \/ LoseMint(d)
  \/ \E r \in Redemption : Redeem(r)
  \/ MineEmpty
  \/ Pause
  \/ Unpause

BridgeSpec == BridgeInit /\ [][BridgeNext]_bridgeVars

-----------------------------------------------------------------------------
(* Properties *)

\* Every wrapped unit in circulation stands for its own confirmed deposit that
\* was not redeemed, and what the daemon calls processed was really minted, in
\* memory and on disk (resubmitted mints, lost replies and the contract's
\* _processedDeposits together).
SupplyBacked ==
  /\ evm.supply + Cardinality({r \in Redemption : evm.burnedAt[r] > 0})
       = Cardinality(evm.minted)
  /\ evm.minted \subseteq ToSet(native.history)
  /\ mem.done \cup disk.done \subseteq evm.minted

\* A redemption is paid only after its burn is final on the EVM chain, and more
\* than once only by a crash or a lost reply, one extra payment for each:
\* sendtoaddress comes before the state file is written, and scan_evm_redemptions
\* and refresh_pending_releases both retry an entry without a txid.
PaidOncePerFault ==
  \A r \in Redemption :
    /\ Cardinality(Payments(r)) <= 1 + faults
    /\ Payments(r) # {} => evm.burnedAt[r] \in 1..(evm.block - EvmConfirmations + 1)

\* No redemption is skipped: below the cursor last_evm_block every event is
\* either being released or finished, in memory and in the state file, wherever
\* a batch failed or the daemon died.
RedemptionsTracked ==
  \A s \in {mem, disk}, r \in Redemption :
    evm.burnedAt[r] \in 1..s.last => r \in DOMAIN s.releasing \cup s.finished

\* A finished redemption has a confirmed payment on the native chain, and a txid
\* in the state is a payment of that redemption (fetch_native_transaction).
FinishedIsPaid ==
  \A s \in {mem, disk} :
    /\ \A r \in s.finished : \E p \in Payments(r) : Confirmed(p)
    /\ \A r \in DOMAIN s.releasing : s.releasing[r] \in Payments(r) \cup {NoTxid}

\* A deposit the native chain has confirmed is minted in the end, through failed
\* cycles, lost mints, pauses and crashes (scan_native_deposits rescans, and
\* refresh_pending_mints submits again), with auto_mint on and as long as
\* getaddresstxids lists the whole history of the reserve: a deposit behind the
\* first ScanLimit entries is never seen.
DepositMinted ==
  \A d \in Deposit : d \in ToSet(native.history) ~> Minted(d)

\* The state has the txid of a payment that a block wiped from the pools.
AwaitsLost(r) == r \in DOMAIN mem.releasing /\ mem.releasing[r] \in native.lost

\* A burned redemption is paid and recorded as finished in the state file, through
\* failed cycles, a revoked approval, lost replies and crashes (scan_evm_redemptions,
\* refresh_pending_releases), with two ways out that the code has: the operator has
\* auto_release_redemptions off, or the payment was wiped before a block held it,
\* and an entry with a txid is never sent again.
RedemptionReleased ==
  \A r \in Redemption :
    evm.burnedAt[r] > 0 ~> (r \in disk.finished \/ ~autoRelease \/ AwaitsLost(r))

BridgeState == [last : 0..MaxEvmBlock, done : SUBSET Deposit, minting : SUBSET Deposit,
                finished : SUBSET Redemption,
                releasing : UNION {[R -> native.paid \cup {NoTxid}] : R \in SUBSET Redemption}]
BridgeTypeOK ==
  /\ mem \in BridgeState /\ disk \in BridgeState
  /\ IsInjective(native.history)
  /\ native.lost \subseteq native.paid \ ToSet(native.history)
  /\ evm.supply \in Nat /\ evm.block \in 0..MaxEvmBlock
  /\ run.phase \in {"idle", "mints", "deposits", "events", "releases", "persist"}
  /\ run.todo \subseteq Deposit \cup Redemption
=============================================================================
