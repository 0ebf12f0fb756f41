# TLA+ models of the CryptEX node

CryptEX (`src/src`) is a C++ full node: a proof-of-work block chain with a UTXO
ledger, a peer-to-peer network with chat, mail and voice calls, a wallet, an RPC
server and two miners, and beside it an EVM bridge daemon (`src/evm`). This
directory holds TLA+ models of its logic, TLC configurations that check them on
small instances, and TLAPS proofs that hold for every instance.

Modelled are the block tree with the choice of the active chain, its files and its
recovery at startup; the transaction pool; the wallet file; the miners; the download
of blocks with the approval that opens the wallet; dials, sessions and bans; the
replicas of a mail; voice calls; and the bridge daemon between its two chains.

## 1. Inventory

| Component | Code | State it keeps | Operations | What makes it correct |
|---|---|---|---|---|
| Block tree and active chain | `blockchain.cpp` | `height_map_`, `index_`, `link_index_`, `block_pool_`, `chain_work_`, `block_height_`, `height_index_`, `children_`, checkpoint, sync approval | `accept_block`, `connect_block`, purge, activate, pin/unpin/refresh checkpoint, constructor | the active chain is a sound hash path; it moves only to heavier chains within policy; a restart keeps it |
| Block store | `block_store.cpp` | `blocks/blk<h>.dat`, `blocks-by-hash/<hash>.dat` | store, load, remove, prune | a height file never serves an abandoned branch; a torn one is never taken for a block |
| UTXO set | `utxo.cpp` | outpoint map, snapshot `chainstate.dat` | `apply_transaction`, `swap_in`, snapshot | equals the replay of the active chain; no output spent twice; maturity |
| Mempool | `mempool.cpp` | transactions, spent outpoints, fee order, orphans | add, trim, orphan processing, clear, mineable set | no two entries spend one output; indices agree; a template is a valid body |
| Difficulty, blocks | `block.cpp` | none | LWMA retarget, merkle, work | target stays in its bounds |
| P2P and block sync | `network.cpp` | sessions, peer heights, download queue, in-flight set, pending dials | dial, accept, handshake, headers, block request/answer, session loss, switch off | every missing block is eventually asked for again, once at a time; no label stays blocked for dialling |
| Peer scoring | `network.cpp` | score and ban per label | punish, decay, ban | a peer that is up gets its turn; honest peers are not punished |
| Sync approval | `blockchain.cpp`, `network.cpp` | approval record, heights heard of | update, gate of wallet and bridge | the wallet is open only at an approved tip |
| Mail replicas | `network.cpp` | records, receipts, open challenges | store, receipt, challenge, proof, slash, prune | a receipt is verified by its own replica, and slashed for a failure only |
| Voice calls | `network.cpp`, `voice_call.cpp` | one call record, audio inbox | offer, answer, decline, hangup, frames | both ends are in the same call or in none |
| Chat text | `network.cpp`, `chat_state.cpp` | envelopes, history | send, relay | not modelled |
| Wallet | `wallet.cpp` | the wallet file, its backup, a temporary file | load, change, persist, recover | an acknowledged key is never lost |
| RPC, miners | `rpc.cpp`, `main.cpp`, `powminer_main.cpp` | jobs, nonce ranges, found blocks | template, refresh, search, submit | workers follow the job; no nonce twice |
| Intelligence bus | `intelligence/` | event queue | publish, subscribe | bounded queue |
| EVM bridge | `evm/bridge/bridge_daemon.py`, `evm/src/WrappedCryptEX.sol` | pending mints and releases, last scanned block, consumed deposit ids | scan, mint, redeem, release, persist | one deposit mints once; one redemption pays once |
| GUI, website, scripts, primitives | `gui`, `website`, `scripts` | views | | not modelled: presentation and libraries |

Interaction: peers, RPC threads and the miner call `accept_block`;
`activate_path` swaps the UTXO set, clears the mempool and rewrites the block
files; the network thread reads the height maps for headers and locators and
writes the sync approval the wallet and the bridge daemon wait for.

What is hard here: blocks arrive in any order and a block that connects starts
a recursion over the blocks that waited for it, each of which may reorganise or
purge; five maps describe one tree and different paths of the code write
different subsets of them; one activation writes six kinds of files, and the process
may stop between any two; RPC threads, worker threads, the miner and the network
thread share records with few locks; peers vanish with requests in flight; answers
come late, by other routes or from somebody else; daemons crash between paying and
recording.  `PROJECT.json` lists every hazard with its line and the property that
covers it.

## 2. Modules

| Module | What it is |
|---|---|
| `BlockTree` | The blocks of the world as constants: the path of each to genesis (`Chain`), its work, whether the checks of `validated_prefix_length` accept it |
| `ChainPolicy` | Pure rules: reorg depth, trailing checkpoint, checkpoint match |
| `ActiveChain` | Abstract specification: one chain that switches, is truncated, pinned or unpinned |
| `Blockchain` | The class `Blockchain` with its block store: all maps, all files, the recursion of `accept_block`, the constructor. Its last section instantiates `ActiveChain` |
| `ChainStorage` | The writes of one `activate_path` and of the constructor, one by one, with crashes and failed writes |
| `Mempool` | The transaction pool, `apply_transaction`, and templates, while the chain switches |
| `WalletFile` | The wallet file and its copies, persist step by step |
| `Miner` | The threads of `powminer_main.cpp` and the `mine` command of `main.cpp` |
| `PeerSync` | The block download of the class `NetworkNode` over sessions with peers, and the sync approval it feeds |
| `Peers` | Dials, inbound sessions, bans and `set_network_active` of one node |
| `MailReplicas` | Receipts and storage proofs for the replicas of one mail |
| `VoiceCall` | The call records of two nodes and the signals between them |
| `Bridge` | The bridge daemon, its state file, the native chain and the token |
| `Positions` | Part of a sequence by positions: what a loop leaves of a queue |
| `BlockchainProofs` | Lemmas about paths, and `LinkedContents`; the inductive invariant and the safety theorems; `Blockchain` implements `ActiveChain`; a restart keeps the chain |
| `MempoolProofs` | The containers of the pool, its orphans, its clearing when the chain switches, and the templates |
| `PeerSyncProofs` | Block download and approval |
| `PositionsTheorems` | Lemmas about `Positions` and least numbers, for the last two and `StorageProofs` |
| `StorageProofs` | The files of a node: the inductive invariant and the safety of `ChainStorage`, and that of `WalletFile` |
| `MinerProofs`, `BridgeProofs` | The safety of `Miner` and `Bridge` |
| `CommunicationProofs` | The safety of `VoiceCall`, `MailReplicas` and `Peers` |
| `SmallTrees`, `MCBlockchain`, `MCStorage`, `MCBridge`, `MCPeers` | Small constants for TLC |
| `MCNode`, `MCNetwork`, `MCLive`, `MCSync` | Roots of runs: several parts side by side |

The last four put parts that share no variable next to each other. A variable `focus`,
chosen in the initial state, says which part moves, so the state spaces add up where a
product would multiply them; since the parts share nothing, behaviours that mix them
would show nothing more. They save starts of the checker and are not claims about
interaction: where parts do interact, one module has both sides (the chain switch under
the pool in `Mempool`, the moving tip in `Miner`, the approval in `PeerSync` and
`Bridge`, both nodes in `VoiceCall`, all nodes in `MailReplicas`).

### How `Blockchain` corresponds to the code

* A block stands for its 512-bit proof-of-work id and for its 256-bit link hash:
  `link_index_` is written and erased together with `index_`. `Chain[b]` is what
  following `prev_block_hash` gives; `Parent`, `Height` and `Connected` are read
  off it.
* `heightMap` is `height_map_` as a sequence, genesis first, and also `index.dat`,
  which is saved whenever the map changes. `best_height_`, `tip_hash_` and
  `tip_bits_` are its length and last element.
* `chainWork`, `blockHeight`, `heightIndex` are maps with `Absent` for no entry.
  `children` is a set per parent; order and duplicates of the vector do not
  matter, since a second retry of a processed block is `AcceptKnown`.
* `pending` is the stack of the recursion in lines 717-727: each element is the
  set of children one invocation has still to retry. `SubmitBlock` is a call from
  outside and runs when the stack is empty; `RetryParked` is one recursive call.
  A `Restart` may come at any time, so the process may die between two calls.
* Each disjunct of `AcceptBlock` is one way through the function, in the order of
  the code: bad timestamp (nothing cached), already processed, orphan, purge,
  policy rejection, side branch, activation.  Stateless rejections (non-canonical
  bits, proof of work, merkle root, sizes, a timestamp too far in the future)
  change nothing and are left out.
* `Fetch` is `get_block_by_hash`, with its trust in the height file of a block that
  `height_index_` knows. Validation reads the *contents* of a path through it and
  compares each content's parent with the previous content, as the code does; that
  the contents are then the path itself is a theorem and not an assumption.
* `StartKept` and `StartRepaired` are the constructor, from `load_index` to the
  final checkpoint check, with the repair, the restoring of height files, the
  clearing of a stale checkpoint and the exception (`started = FALSE`).
* `LoseHeightFile` and `LoseHashFile` are the outside world.

Left out of these actions: the reset of the sync approval by the repair; two threads
inside `accept_block` at once, which the code does not lock against; the explorer and
locator queries.

### How `ChainStorage` corresponds to the code

* `node` is the memory of the process, `disk` its files. `writes` is what the running
  call has still to do, in the order of the code: `ActivationWrites` for
  `activate_path` (height files of the whole path, then the maps and `utxo_`, the removal
  of height files above, checkpoint, `index.dat`, `headers.dat`, `chainstate.dat`).
* `DoWrite` does the next one. `FailWrite` is a write that fails: `store` makes
  `activate_path` return false with the maps untouched, `save_index` and
  `persist_headers` return in silence. `StorageCrash` ends the process between two writes
  or within one; every file is truncated when it is opened, so `TornBy` says what a
  write cut short may leave and what its reader makes of it.
* `Load`, `Replay`, `Repair` and `Check` are the constructor: the index and the headers, with
  `rebuild_from_blocks` when there is no index; the chainstate snapshot or the replay of the
  block files that replaces it; `repair_active_chain_if_needed`; the checkpoint. They write,
  so they may be cut short as well. `Refuse` is a constructor that throws.
* `lapses` remembers which file a mishap left behind; the properties say which lapses
  explain what.

What the model shows beside the properties: a crash while a reorg rewrites height files
leaves blocks of the new branch below hashes of the old one, and
`validated_prefix_length` compares the contents with each other, not with the index, so
the node restarts with the tip hash of one branch and the blocks of another
(`RestartedChainSound` leaves the lapse "reorg" out for this reason). A repair that finds
no block at all leaves the genesis block as the chain and the UTXO set as it was read, made
of blocks that are gone; the lapse "unrepaired" stands for it, in memory and in
`chainstate.dat`, until a snapshot with the right set is written. Every extension
rewrites all height files from 0, so a torn `blk<N>.dat` costs the chain above N, and a
torn `blk0.dat` leaves a chain whose genesis cannot be read. In the code and not in the
model: `load_block_file` reads magic and length of an empty file uninitialised;
a block cut within a transaction makes `Block::deserialize` throw out of the constructor
(here one outcome of `TornBlock`); `write_block_file` returns before it closes its
file, so a full disk is not noticed.

### How `Mempool` corresponds to the code

`mp` holds the five containers of the class, which change under one lock:
`AfterAdd` is the locked part of `add_transaction`, and the recursion of
`process_orphans_for_parent_unlocked` is a stack (`Pending`, `RetryOrphan`).
`RemoveTxs` and `RemoveOrphans` are the calls a loop makes of `remove_transaction_unlocked`
and `remove_orphan_unlocked`, for the set of transactions it makes them for: `Trim` takes the
fewest of the lowest fee rates that bring the pool into its limits.
`activate_path` is three steps, as no lock spans them: height, UTXO swap, pool clear.
The template reads the height, then the pool, then selects with `apply_transaction` on
a copy of the UTXO set (`Applied`, with the inputs erased before the sums are compared).
The two nested loops of `get_mineable_transactions` are a recursive function over their
turns (`Turns`): a turn takes the next entry (`TryEntry`) or starts the next pass, and after
`MaxTurns` of them the loops have ended, which is proved. `CoinsAssumption` says of the
ledgers what the class `UTXOSet` sees to: an output has a height, and is a coinbase's only
if it is one.
Heights wrap at `HeightModulus`. `remove_transaction` and `expire_old_transactions` have
no caller in `src/` and are left out. Seen and not a property: an entry may be
evicted in favour of one that is refused for space afterwards; evicted parents leave
children that never reach a template; every block wipes the pool.

### How `WalletFile` corresponds to the code

`stored` maps the three file names to content, and persist is one action per system call:
`OpenTemp`, `WriteTemp`, `RemoveBackup`, `Rotate`, `Replace`. An open file follows its
rename. RPC connections have a thread each and no lock, so two may change one wallet at
once: `overlapped` notes it, and `AckedKeysLoadable` speaks of changes that did not
overlap. The comment in `wallet.cpp:1341` says "atomically"; two crashes between renames,
or two overlapping threads, do lose keys.

### How `Miner` corresponds to the code

A block is the path that leads to it. `command` picks the miner: of
`powminer_main.cpp` the refresh thread, the workers and the checks of a found block;
of `main.cpp` the chunks of nonce ranges over worker processes. A refresh of the
timestamp alone replaces `current_job` without a new version, so workers do not take it up
before the next job; the powminer broadcasts a found block also when it was rejected.
`MinerAssumption` asks for at least one worker, since `worker_limit` divides by their number,
and for workers times cycles within `NonceSpan`, 2^32 in the code: beyond it `next_nonce_seed`,
a `uint32_t`, wraps around and the ranges of a cycle meet earlier ones, which is left out.

### How `PeerSync` corresponds to the code

* All peers are on one chain, so a block is its height and `have` is the set of
  blocks `get_block_by_hash` finds; the tip is the end of the run of heights from
  genesis (`Best`), which is what `accept_block` makes of blocks in any order when
  there is no fork. Forks are the subject of `Blockchain`.
* A session is a TCP connection: `toPeer[p]` and `fromPeer[p]` are its two
  directions, first in first out, and its loss empties both. The daemon runs its
  `io_context` on one thread, so each handler is one action: `ReceiveVersion`,
  `ReceiveHeaders`, `ReceiveBlock`, `ReceiveInv`. A handler sends its messages in the
  order of the code, among them those of `pump_block_downloads`.
* `queue`, `queued`, `inflight` are `block_download_queue_`, `queued_blocks_`,
  `inflight_blocks_`. A queue entry holds a `weak_ptr` to its session, which is
  `NoPeer` once the session is gone. `Popped` is the number of turns of the loop of
  `pump_block_downloads`; the pumps between the blocks of one HEADERS message are one
  pump at the end, which is the same because a queue only waits when no slot is free
  (`QueueWaitsForSlot`).
* `peerHeights` is `peer_heights_`. `approval` has the two fields of the record that
  decide something here; `set_sync_approval` and `wallet_state_approved` are
  `SetSyncApproval` and `WalletOpen`. The anchor (height and tip of the record) is
  always on the chain when there is one chain.
* `RemoveSession` may strike at any time (`MaxDrops`), `Connect` opens or reopens a
  session, and the timer is `Maintain`.
* `Serve` and `Grow` are a peer: it runs the same handlers on its own chain, which
  grows at any time and is announced by an INV, also before the handshake.
* Every VERSION is answered by a VERSION and by GETHEADERS, so the handshake of a
  session never ends. The model keeps it.

* `MCSync` takes the steps with `UNCHANGED drops`: sessions that stay open.

Left out: two sessions with one label, a session kept alive by a write after its
removal; the peer's own downloads from this node; blocks mined here or submitted; a
peer that does not answer GETBLOCK, invalid messages. `set_network_active`, inbound
sessions and bans are in `Peers`, whose sessions are not those of `PeerSync`.

### How `Peers` corresponds to the code

* A label stands for its peer. A dial is a record with its stage, since `connect` is
  a chain of handlers: `BeginDial` (the synchronous part), `Resolved`, `DialConnects` or
  `DialFails`, and `AddSession`, which is a step of its own because set_network_active of
  an RPC thread may come between the last check and the push.  With a proxy there is one
  posted function, which does not look at `network_active`.
* `DialKnown` is `connect_known_peers`: the decay of the scores, the order of the
  candidates (source, then score; the further keys are left open, and so is which of the
  labels left alone have decayed), and the two loops over them as folds. The second
  loop counts candidates the first has dialled.
* `SwitchOff`, `CloseSessions`, `ClearPending` are `set_network_active(false)` in the order
  of its locks; `SwitchOn` dials.
* `rested` holds the labels with nothing noted since the last round: only their score decays.
* `GoDown` and `ComeUp` are the peers.

Seen and not a property: an unreachable peer of a better source starves a peer of its
netgroup for good, since failures cap the score and never ban; a proxied dial, or one
between its check and its push, leaves a session listed on a node that is switched off;
clearing `pending_connects_` with dials in flight permits two dials to one label;
`set_ban` does not close sessions; an inbound session may adopt a banned label at its
VERSION; `MAX_PEER_CONNECTIONS` is not enforced.

### How `MailReplicas` corresponds to the code

* One mail, its receipts by `replica_label` at each node (`receipts`), the open challenges
  and first-in-first-out wires between linked nodes. A fan-out reaches all peers, as
  `replica_target` does by default in a small network.
* `MailTargets` is `send_to_or_relay_mail_peer`: the peer with the label, or else all
  peers, none of whom forwards anything: each handles the message as its own.
* `OwnLabel` is how a replica calls itself: its advertised endpoint, or else the label of
  whoever asks, for a node that does not know its endpoint.
* `IssueChallenges` is `maybe_issue_mail_storage_challenge` over a set of receipts,
  called for a new receipt and by `MaintainMail`, which first slashes the receipts of
  expired challenges. `MaintainMail` waits until nothing is under way at its node
  (`Quiet`): its intervals are an hour against the seconds of a message.
* `SpendBond`, `DropWallet`, `LoseLink`, `EvictMail`, `DeleteMail` are what may go wrong.

Left out: lookups and the import of found mail, the copies that travel as chat
messages, the wrong proof hash of a dishonest replica, an RPC delete that races an upsert.

### How `VoiceCall` corresponds to the code

`call[p]` is the record under `voice_call_mutex_`; an RPC thread changes it and sends
after it released the lock (`duties`), so signals may leave in another order than the
changes. A message arrives once, late, or not at all. `DecodeFrame` and `QueueFrame` are
the two halves of `handle_voice_frame`, which decrypts without the lock. `ignored` notes
the calls of which a signal was lost or dropped by a node in another call.

### How `Bridge` corresponds to the code

`mem` and `disk` are the daemon's state and its state file, `run` where the cycle stands;
each call to a chain is a step with its reply, which may be lost (`faults`) or be an error
that ends the cycle (`FailCycle`, `run_forever`). `native` is the reserve's history with
the approval of the node, `evm` the token. `ScanLimit` cuts the list of transactions
oldest first, as `getaddresstxids` does; the runs keep fewer entries than that, and
`DepositMinted` is claimed no further: beyond the limit a deposit that confirms late is never
seen. One failing mint ends every cycle before the redemptions and before the state is saved.

A payment that was sent waits in the pools (`InPool`) until the next block of the native
chain, which holds it (`ConfirmPayment`) or not (`LosePayment`): `activate_path` wipes the
pool with every block, the node does not send its transactions again, and the daemon does not
resend a release that has a `native_release_txid`. A redemption whose payment was wiped stays
pending for good, and `RedemptionReleased` names that case (`AwaitsLost`).
`autoRelease` is `auto_release_redemptions`, False unless configured; a daemon that is started
again may find it changed. Without it redemptions are noted and neither
paid nor finished. `auto_mint` is left at its default, True.

## 3. Runs

| Run | Root | Instance | Question |
|---|---|---|---|
| `chain_forks` | `MCLive` | seven blocks: branches a1-a2 and b1-b2 that overtake each other, an invalid x1 under b1 and its heavy child x2 with a bad timestamp; reorg limit 1. A bridge with one deposit, one redemption, two submissions of a mint under way, one fault, one trouble; releases automatic or not | Does any order of arrivals, pins and restarts break the chain, the maps or headers.dat; does every switch obey `ActiveChain`; does the recursion end? Is every deposit minted in the end, and every redemption finished unless releases are off or its payment was wiped from the pools? |
| `chain_storage` | `MCNode` | a1-a2-a3 and a shorter, heavier fork b2; up to two lost block files, up to two crashes or failed writes; six transactions with a conflict, orphans, an immature and an overspending one on two tips; two wallet threads and two keys; two workers | Do files, checkpoint and restarts stay right while files vanish and writes are cut short; does the pool stay consistent under a switch; are keys kept; do miners follow their job? |
| `peer_sync` | `MCNetwork` | two peers, chains up to two blocks, header batches of two, one download slot, one session lost; a bridge with one deposit, two submissions and two faults; two calling nodes; three nodes with a mail, one of which does not know its endpoint, and one loss; one peer to dial with three upsets | Is a block asked for twice or a slot left unused; does the wallet open too early; is the wrapped supply backed and a redemption paid once; do calls mix up; does a proof count for another replica; does a label stay blocked? |
| `peer_sync_live` | `MCSync` | the same two peers with batches of one and no session lost; two peers to dial in one netgroup, one of which may stay down | Does the node get every chain; does the wallet end up open; is a live peer dialled again? |
| `heaviest` | `MCBlockchain` | the forks, reorg limit 2, no restart | Violated: the heaviest admissible chain at hand is not always active |
| `rejected` | `MCBlockchain` | b2 with a bad timestamp | Violated: a rejected block stays known when it came before its parent |
| `height_files` | `MCBlockchain` | five blocks, two lost files | Violated: a start does not restore missing height files, it cuts the chain |
| `stale_checkpoint` | `MCBlockchain` | as `height_files` | Violated: a start that repairs below a pinned checkpoint throws |
| `storage_crash` | `MCStorage` | five blocks, one mishap | Violated: a crash between `index.dat` and `headers.dat` stops every later start |
| `late_sync` | `PeerSync` | two peers, one block, one session lost | Violated: a lost session leaves its block in flight and the node behind |
| `wallet_lock` | `PeerSync` | two peers, two blocks | Violated: the wallet opens without approval |
| `mail_slash` | `MailReplicas` | three nodes, nothing lost | Violated: a replica slashes its own receipt though nothing failed |

Why the bounds are enough. `chain_forks` has an orphan with two parked children on two
branches, a reorg in both directions, a refused reorg, a purge in the middle of
the recursion and one that meets an active block. `chain_storage` has a reorg to a
*lower* height, so a height file is left over above the tip, a trailing checkpoint that
leaves genesis, repairs at every height, and a second mishap during the start after the
first; its pool holds three of six transactions and two orphans, so both evict, and its
templates are cut by size; its wallet has a crash inside persist and inside the recovery
that follows. One download slot makes the second of two blocks wait, and batches of one
make the node ask for headers again. A mint may be submitted twice, and a crash or a lost
reply may fall between any payment and its record. Two RPC calls under way and a
message that overtakes another make calls cross. The mail needs a third node, whose proof
can be taken for the second one's. One label is enough for `PendingIsUnderWay`, which is
about two calls, a dial and the switch; `KnownPeerReconnects` needs a second peer as a
rival. The two peers of `PeerSync` and the two nodes of `VoiceCall` are symmetric in `peer_sync`
(`MCNetwork!Symmetry`): no definition tells them apart, and the run has no liveness
property. Deadlock is checked in every run.

Properties, by hazard:

* `ActiveChainSound`: the chain is the sound hash path of its tip and `utxo_` its
  replay. Broken by skipping the linkage comparison, because a height file may hold
  another branch's block at the time it is read.
* `Bookkeeping`: what the code reads with `at()` and `find()` is there and says the
  same in every map.
* `HeadersPersisted`: `load_headers` can read the files at any moment of death between
  two calls.
* `HeightFilesServeChain`, `CheckpointOnChain`: the files on disk fit the chain.
* `ImplementsActiveChain` (refinement): strictly heavier, through the checkpoint,
  within the depth, or a truncation at startup.
* `RestartKeepsChain`: a start over intact height files succeeds and keeps the
  chain, whatever it interrupted.
* `RestartedChainSound`, `RefusesOnlyLaggingHeaders`: after a crash or a failed write at
  any place, a start serves a sound chain with its UTXO set and its blocks, or refuses for
  one of the reasons named there.
* `PoolConsistent`, `OrphansWaitForMissing`, `PoolOnActiveChain`, `TemplateValid`: the
  containers of the pool agree, no orphan is stuck, nothing outlives a switch of the
  chain, and a template is a valid body that leaves nobody out.
* `AckedKeysLoadable`: a key whose change returned is in what `load` finds, after one crash.
* `VersionTellsJob`, `NoncesDisjoint`: workers follow the job; no nonce is tried twice.
* `DownloadedOnce`: at most one request or answer for a block is under way, and it is
  booked. It holds across a lost session only because `remove_session` leaves the
  in-flight set alone: clearing it there, the obvious remedy for disagreement 5, breaks
  it, and a remedy has to forget the requests of the lost session only.
* `BookedIsOutstanding`: without a lost session no slot leaks.
* `QueueWaitsForSlot`: a queue waits only for a slot, without duplicates.
* `WalletOpensCaughtUp`: when the wallet opens, the chain has every height that a
  connected peer announced.
* `SupplyBacked`, `PaidOncePerFault`, `RedemptionsTracked`, `FinishedIsPaid`: wrapped
  units are backed; a redemption is paid again only where a crash or a lost reply explains
  it; none is skipped; a finished one has a confirmed payment.
* `FramesOfThisCall`, `ConnectedIsAccepted`, `AloneOnlyIfIgnored`: no frame of another
  call is heard, nobody is connected unasked, nobody stays alone without a reason.
* `VerifiedByReplica`: a receipt counts as verified by a proof of the node it names only.
* `PendingIsUnderWay`: a label is kept from being dialled only while a dial is under way.
* `RecursionEnds`, `LateNodeSyncs`, `WalletSettlesOpen`, `DepositMinted`,
  `RedemptionReleased`, `KnownPeerReconnects` (liveness).

What some of them do not say, in their comments as well: `DepositMinted` stays within
`ScanLimit`; `TemplateValid` asks maturity of a ledger that is `Timely`, so the age that wraps below
zero is outside it; `AckedKeysLoadable` is about changes that do not overlap;
`VerifiedByReplica` is about nodes that run this program, since the sender of a proof
chooses its label; `WalletSettlesOpen` says that the wallet opens, not that it is shut at
every moment in which a higher chain has been announced.

Fairness, each only where its part is in focus:

* `ChainFairness` (`MCLive`): `RetryParked` alone. The recursive calls are ordinary calls of
  the thread inside `accept_block`; nothing in them waits.
* `BridgeFairness` (`MCLive`): the daemon polls for ever; both chains go on, so a mint that
  was sent is mined or dropped, and a payment in the pools meets a next block, which
  confirms it *or* wipes it (the fairness is on the disjunction); the operator approves and
  unpauses in the end, but need not turn the releases on. `ResendMint` needs strong fairness: a
  mint that stays open gets older than its deadline, so some later visit finds it due.
  Faults and troubles are bounded; a mint that fails for ever blocks all others.
* `DownloadFairness` (`MCSync`) and `Fairness` of `PeerSync` (`late_sync`): the handlers of
  each session, because the event loop reads every socket that has a message (`ReadSocket`
  says the same of a step as "some `Handle(p)`", for less work of TLC); `Serve`,
  which is the same code on another machine; and the timer, which arms itself again.
  Sessions need not be opened or lost, and peers need not mine.
* `PeersFairness` (`MCSync`): the timer, the posted calls and the handlers of dials; and the
  decay of a score, since a label nobody touches gets older than the decay interval.
  Nothing is assumed of peers: they may stay down.

## 4. What is proved

For every block tree, policy and number of losses that meet `BlockAssumption`,
`ChainAssumption`, `WorkAssumption` and `ReorgAssumption` (the path of a block is
closed under prefixes, work is positive and adds up):

* `TypeCorrect`, `ActiveChainIsSound`, `HeightFilesServe`, `BookkeepingHolds`,
  `HeadersCoverChain`, `CheckpointHolds`: `Spec => []P` for the six invariants;
* `Refinement`: `Spec => ImplementsActiveChain`;
* `RestartKeeps`: `Spec => RestartKeepsChain`.

The argument. None of the invariants is inductive alone. Soundness of a switch
needs that the contents read are the candidate path; they may come from a pool, a
height file or a hash file, and a height file above the tip may hold anything. The
key is `LinkedContents`: validation compares parent links *between contents*, so
by a minimum argument over positions (well-founded, no induction schema) a sequence
of contents that starts at genesis and ends in the block just received is its path.
The repair at startup needs the same from the other side: the files up to the tip
hold nothing but active blocks (`HeightFilesServeChain`), so a valid prefix of
contents is a prefix of the chain. A purge must not touch the chain: it spares the
blocks of `height_index_`, which `Bookkeeping` says contains the active ones.
`Bookkeeping` in turn needs that a processed block's ancestors are processed, which
purge and rebuild keep since they keep only headers that connect to genesis. The
checkpoint follows from the guard of a switch, except after a start that threw: there
it is pinned above the tip, the state `CheckpointOnChain` allows, and the next start
clears it. `IInv` is the conjunction; `Initially` and `Preserved` prove it, with
one lemma per action. `StepRefines` maps every action to a step of `ActiveChain` or
a stutter under it.

For any peers, netgroups and limits (`CommunicationProofs`): `PendingStaysUnderWay`, which is
`PeersSpec => []PendingIsUnderWay`. The invariant needs beside it only that a dial is a
record with the four fields (`DialsAreRecords`), so that moving it to its next stage keeps
its label. Which labels a round of `connect_known_peers` picks plays no part, so the folds over
the candidates need no induction. Each handler either keeps the dial before its connection
or takes its label out with it (`MovedKeeps`, `EndKeeps`).

For any transactions, limits, tips and threads that meet `MempoolAssumption`
(`MempoolProofs`): `MempoolInvariance`, `PoolIsConsistent`, `NoOrphanIsStuck`,
`PoolFollowsChain`, and with `CoinsAssumption` `TemplatesAreValid` and `MempoolTypes`.
`IsPool` says of a pool what `PoolConsistent` says, in a form that each operation keeps by
itself (`Booked` for the spends, `Stored` for the orphans). The byte count is a cardinality,
so that it adds up over disjoint sets without an induction (`SumSize`); the eviction ends at
the latest with the empty pool, which is within any limits. An orphan either waits for a
missing output (`Waits`) or is in a list of one of the nested loops that hold the lock
(`Due`): admitting a parent moves what waited for it from the one to the other, and eviction
only takes entries away (`AddEffect`, `AddKeeps`, `RetryKeeps`). When no loop is left
nothing is `Due`. Between the swap of the UTXO set and the clear nothing is claimed of
inputs and orphans, and the clear starts both claims again.

`TemplateValid` speaks of what two nested loops have computed, and `LoopInv` says what holds at
each of their turns. The selected, the entries of this pass and those put off for the next
are apart, and of the pool's list nothing is missing but what does not fit any more
(`Apart`, `Sorted`). The copied ledger is what is `Unspent` of the base after the selected
ones (`InLedger`), so that an entry which applies has its inputs at its place. A pass that
has selected nothing has met only entries that do not apply to the ledger as it still is
(`Idle`): a failed attempt must not eat outputs, and it does not because the one that
would, an overspending transaction, is never admitted (`PoolFlawless`, from
`AddedIsFlawless`). `Cost` falls with every turn (`TurnCosts`), so the last pass is one that
selected nothing, and nobody in it was left out wrongly (`EndedIsValid`). The prover knows a
recursive function only as a choice: that there is one is the first lemma (`TurnsDefined`),
by the least number of turns for which there would be none, and `SelectionHolds` goes along
the turns in the same way.

For any peers, heights, batches, slots and number of lost sessions that meet
`SyncAssumption` (`PeerSyncProofs`): `SyncInvariance`, `SyncTypes`, `BlocksAreDownloadedOnce`,
`BookedBlocksAreComing`, `QueueOnlyWaitsForSlot`, and the action property
`WalletOpensOnFullChain`. `DownloadedOnce` and `BookedIsOutstanding` count messages; what is
inductive, `SyncInv`, speaks of single ones. The deque, `queued_blocks_` and
`inflight_blocks_` fit each other (`QueueInv`): the loop of `pump_block_downloads` ends at the
first entry that fills the slots (`Popped`), so up to there it stays within them
(`PumpEffect`, `PumpStep`). A request or an answer for a block is in one channel only,
once (`OneWay`), because a request is sent only for a block that is not booked, and whatever
is under way is booked (`Booking`); the answer takes its place as the request is taken
out. The converse of `Booking` needs that no session was lost. A queue entry names an open
session with a peer whose chain has the block, or nobody, so that it can be served.

For any deposits, redemptions, depth, batch and number of faults that meet `BridgeAssumption`
(`BridgeProofs`): `SupplyAlwaysBacked`, `NoRedemptionSkipped`, `ExtraPaymentsAreFaults`,
`FinishedWasPaid`. `BridgeInv` has three parts. Only confirmed deposits are ever on their
way to the token, in `minting`, in the loop at hand or in the queue, and the supply is the
deposits minted less the burns (`MintsConfirmed`). The batch of events at hand is
below the confirmation depth, and each burn in it is tracked or still to visit
(`BatchCovered`), so that saving the cursor skips nothing. What the state does not know as
paid was paid by faults only, and the file lags by one crash at most (`PaymentsCounted`).

For two nodes and any numbers of calls, threads and frames (`CommunicationProofs`):
`FramesPlayedInTheirCall`, `NobodyConnectedUnasked`, `NobodyLeftAlone` from `VoiceInv`, which
adds to the records the signals *still owed*: a handler changes the record under the lock and
sends after it has let go, so what holds between the two nodes counts what a thread is about to
send together with what is on the wire (`Said`). An offer is new to the node it goes to
(`OffersNew`), whoever said that it left is out (`LeftIsOut`), and whoever is in a call has the
other with it, or an offer or a leaving signal under way (`NotLeftAlone`). For any nodes,
endpoints and losses (`MailAssumption`): `VerifiedByItsReplica`, the action property
`VerifiedByReplica`, from `MailInv`: a proof on a wire has the label its sender
calls itself, and a receipt that travels is never verified already.

For any workers, cycles, chunk sizes and chain lengths that meet `MinerAssumption`
(`MinerProofs`): `WorkersFollowJobs`, `NoNonceTwice`, `NoncesNeverWrap`. In `MinerInv` the seed is
above all nonces searched in the cycle and moves no further than the iterations of all workers
together (`NoncesBehindSeed`), which is also what keeps it within 32 bits.

For any block tree, policy and number of crashes and failed writes that meet
`StorageAssumption` and the four assumptions of `Blockchain` (`StorageProofs`):
`StorageInvariance`, `RestartedChainIsSound` and `RefusalsExplained`, which are
`StorageSpec => []P` for `StorageInv`, `RestartedChainSound` and `RefusesOnlyLaggingHeaders`,
and `StorageTypes`, type correctness.
What the two properties say of a node that has started depends on what a crash left behind
several steps before, so the invariant describes the files at every place where the process
may die:

* `Placed`: a block in a height file is a block of that height; blk0.dat can be read unless
  a lapse says otherwise.
* `Planned` and `Aimed`: the writes still to do come in the order of the code, and each
  leaves what memory will hold once the call is done (`Target`). Both hold for every suffix
  of the list, so `DoWrite` only has to take the head off.
* `Recorded`: a file that is not among the writes to come and not among the lapses says
  what memory says. `Stored`: each height file of the path that is being activated has its
  block or is still to be written, and the one above is missing or still to be removed.
* `CoinsOfPath`: the UTXO set is that of the chain in memory, unless a repair found no block;
  the next snapshot that is written from the right set mends it (`SnapshotMends`).
* `Straight`: while no reorg is under way or has been cut short (`Calm`), the index, the
  snapshot, the checkpoint and the height files are paths on one branch, whichever of
  them lags behind.

A torn file counts as one that its reader refuses, and the constructor is taken apart by
what it finds (`FilesAtRest`, `TornAtRest`). Of the reasons that `RefusesOnlyLaggingHeaders`
lists, the attempt to prove it found one: an unreadable index makes the constructor rebuild
from the height files, and an activation that broke off may have left some that do not link.

For any threads, keys and number of crashes (`StorageProofs`, last part): `WalletTypes` and
`AcknowledgedKeysSurvive`. `Safe` says at each step of `persist` and `recover` where the
acknowledged keys are: in the wallet file (`MainHeld`) or, once the process has died, in its
backup when there is no wallet file (`BackupHeld`). Between the removal of the backup and
the rename they are held by the file that was read only when that was the wallet
file itself, which is why the claim stops at the first crash. `WalletInv` is the
types and, while changes have not overlapped and the process died at most once, `Safe`.

Only model-checked:

* liveness (`RecursionEnds`, `LateNodeSyncs`, `WalletSettlesOpen`, `DepositMinted`,
  `RedemptionReleased`, `KnownPeerReconnects`), which under fairness is out of the prover's reach;
* the type invariants of `Miner`, `Bridge` and `MailReplicas` as the runs state them: they
  include the bounds of the model, while the proofs use `MinerTyped`, `BridgeTyped` and
  `MailInv`, which are as strong where it matters to them. So of `PartsTypeOK` and
  `NetworkTypeOK`, which put the types of several parts together, the parts that are proved
  are `StorageTypes`, `MempoolTypes`, `WalletTypes` and `SyncTypes`.

The properties of section 5 are violated and so not proved. Induction over data and liveness
are the two limits of the prover met here. Where a loop ends at the first entry with a
property, the least number with that property stands for an induction (`LeastNumber`, from the
well-foundedness of the natural numbers), and so it does along the turns of the selection; the
elements a loop picks are given by position (`AtPositions`) and not by a recursive filter.

## 5. Disagreements with the documentation, comments and tests

1. `HeaviestActive` (run `heaviest`): `activate_path` forgets the work of every block
   off the new path, so a child of a side block is parked as an orphan and a heavier
   branch is not adopted, against "active longest-chain selection based on cumulative
   work" (`website/templates/technology.html:14`).
2. `RejectedNotKnown` (run `rejected`): a block with a bad timestamp that arrives
   before its parent is rejected at its retry but not purged.
3. `RestartRestoresHeightFiles` (run `height_files`): lookups of active blocks do not
   fall back to the hash file, so the repair cuts the chain before the height files
   could be restored; `tests.cpp:1785` asserts the opposite.
4. `StaleCheckpointCleared` (run `stale_checkpoint`): after a repair the clearing of a
   stale checkpoint is skipped by `||` and a pinned checkpoint makes the start throw.
5. `LateNodeSyncs` (run `late_sync`): the blocks asked of a lost peer stay in
   `inflight_blocks_`; other peers' announcements of them are dropped, so a node with a
   healthy session stays behind for good, against `tests.cpp:2713` and 2717. Without a
   lost session the same property holds (run `peer_sync_live`).
6. `WalletOpensApproved` (run `wallet_lock`): `wallet_state_approved` never reads
   `approved`, so the wallet can open while set_sync_approval was only ever told "not
   approved", against `wallet.cpp:1391` and `main.cpp:2562`.
7. `StartsAfterCrash` (run `storage_crash`): `index.dat` is saved before `headers.dat`; a
   process that dies between the two leaves an index with a block that `headers.dat`
   lacks, and `load_headers` throws out of the constructor at every later start, against
   `docs/communication-systems.md:487`, "startup repair now truncates invalid active chain
   tails".
8. `SlashedOnlyOnFailure` (run `mail_slash`): a replica keeps the receipt it signed and
   challenges its own label; having no session to itself it asks all its peers, an honest
   holder answers under its own label, and the receipt no longer fits its signature. It is
   slashed and the honest peer punished, against "slashing on failed proof"
   (`docs/communication-systems.md:439`).

## 6. Not modelled, and the plan

Not modelled: the hash functions, serialization, scripts and key derivation (data without
control); GUI, website and packaging; the LWMA retarget, a pure function over 64-bit
numbers; chat text and lookup of mail; the intelligence bus; RPC dispatch and formatting,
most of `rpc.cpp` and `main.cpp`. They are most of the lines of the repository. Two
threads inside `accept_block` race on its maps, which has no defined outcome.
Left out of modelled parts: a flush or close of the wallet's temporary file that fails
unnoticed (`wallet.cpp:1314`; part of the hazard of `persist` that no property covers, since the
rename that follows puts a short file in place). Left out because no property can tell: the second look of
`connect` at `network_active` for each candidate of `connect_known_peers`; the change of a
label's source after its first dial (`Rank` is constant, which is exact for the labels of the
runs); the error paths of an offer in a voice call (`network.cpp:3150` to 3170), which to the
caller are a lost message.
`docs/communication-systems.md:486` speaks of a replay of mined blocks, for which there is
no code at this commit.

Next, in order:

1. A composition of `Peers` with `PeerSync`: heights of sessions that lost their label, two
   sessions with one label, `set_network_active` during a download.
2. The approval's anchor on a forked chain and its record across restarts.
3. Lookup and import of mail; the LWMA retarget over bounded inputs; the intelligence bus.
