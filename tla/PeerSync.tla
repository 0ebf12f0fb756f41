------------------------------ MODULE PeerSync ------------------------------
(***************************************************************************)
(* Block download in the class NetworkNode, and the approval that opens    *)
(* the wallet when the download is done.                                   *)
(*                                                                         *)
(* All peers follow one chain, so a block is its height; forks are the     *)
(* subject of Blockchain.  A session is a TCP connection: two FIFO         *)
(* channels, both emptied when it is lost.  One thread runs the io_context *)
(* of the node, so a handler is one step.                                  *)
(***************************************************************************)
EXTENDS Integers, Sequences, FiniteSets, Positions

CONSTANTS
  Peer,          \* the other nodes, each with a label of its own
  NoPeer,        \* an expired weak_ptr to a session
  MaxHeight,     \* bound on the chain the peers build
  MaxHeaders,    \* constants::MAX_HEADERS_PER_MESSAGE
  MaxParallel,   \* constants::MAX_PARALLEL_BLOCK_DOWNLOADS
  MaxDrops       \* bound on lost sessions

ASSUME SyncAssumption ==
  /\ NoPeer \notin Peer
  /\ MaxHeight \in Nat
  /\ MaxHeaders \in Nat \ {0}
  /\ MaxParallel \in Nat \ {0}
  /\ MaxDrops \in Nat

VARIABLES
  peerTip,       \* the height of each peer's own chain
  sessions,      \* sessions_: the peers a session is open with
  validated,     \* the sessions whose version_seen_ is set
  toPeer,        \* requests on their way to each peer
  fromPeer,      \* messages on their way from each peer
  have,          \* the blocks get_block_by_hash finds, orphans included
  peerHeights,   \* peer_heights_, NoHeight for no entry
  queue,         \* block_download_queue_
  queued,        \* queued_blocks_
  inflight,      \* inflight_blocks_
  approval,      \* sync_approval_ of the block chain
  drops          \* sessions lost so far

download == <<queue, queued, inflight>>
channels == <<toPeer, fromPeer>>
vars == <<peerTip, sessions, validated, channels, have, peerHeights, download,
          approval, drops>>

NoHeight == -1

Smaller(a, b) == IF a < b THEN a ELSE b
Larger(a, b)  == IF a > b THEN a ELSE b

-----------------------------------------------------------------------------
(* The chain as the network sees it                                        *)

\* best_height(): the blocks connected to genesis without a gap.
Best(blocks) == CHOOSE h \in blocks : h + 1 \notin blocks /\ 0..h \subseteq blocks

\* Mutant of BestPeerHeight: min for max.
LowestPeerHeight(heights) ==
  LET heard == {heights[p] : p \in Peer} \ {NoHeight}
  IN  IF heard = {} THEN 0 ELSE CHOOSE h \in heard : \A k \in heard : h <= k

\* The greatest height of peer_heights_, 0 if it is empty.
BestPeerHeight(heights) ==
  LET heard == {heights[p] : p \in Peer} \cup {0}
  IN  CHOOSE h \in heard : \A k \in heard : k <= h

\* set_sync_approval: a height once required stays required until approval.
SetSyncApproval(approved, height, local) ==
  [approved |-> approved,
   height   |-> IF approved THEN Larger(local, height)
                ELSE Larger(approval.height, IF height = 0 THEN local + 1 ELSE height)]

\* update_chain_approval_state, over the state the handler leaves.
UpdateApproval ==
  LET local   == Best(have')
      heard   == BestPeerHeight(peerHeights')
      syncing == heard > local \/ queued' # {} \/ inflight' # {}
  IN  approval' = IF validated' # {} \/ heard > 0
                  THEN SetSyncApproval(~syncing, heard, local)
                  ELSE SetSyncApproval(local > 0,
                                       IF local > 0 THEN local ELSE 1, local)

\* Mutant of WalletOpen: the tip must be above the required height.
WalletOpenAbove(blocks, state) == Best(blocks) > 0 /\ state.height < Best(blocks)

\* wallet_state_approved(): the tip of the approval is on the one chain there is.
WalletOpen(blocks, state) == Best(blocks) > 0 /\ state.height <= Best(blocks)

-----------------------------------------------------------------------------
(* The download queue                                                      *)

\* An entry pump_block_downloads turns into a request.
Wanted(entry, blocks) == entry.peer # NoPeer /\ entry.block \notin blocks

\* Mutant of Popped: the loop stops one short of the limit.
PoppedBelowLimit(q, busy, blocks) ==
  LET filled(n) ==
        Cardinality(busy) + Cardinality({i \in 1..n : Wanted(q[i], blocks)}) + 1 >= MaxParallel
  IN  CHOOSE n \in 0..Len(q) :
        /\ n = Len(q) \/ filled(n)
        /\ \A m \in 0..(n - 1) : ~filled(m)

\* How many entries the loop of pump_block_downloads pops from q.
Popped(q, busy, blocks) ==
  LET filled(n) ==
        Cardinality(busy) + Cardinality({i \in 1..n : Wanted(q[i], blocks)}) >= MaxParallel
  IN  CHOOSE n \in 0..Len(q) :
        /\ n = Len(q) \/ filled(n)
        /\ \A m \in 0..(n - 1) : ~filled(m)

\* The GETBLOCKs for p among the first n entries of q, in their order.
Requests(q, n, blocks, p) ==
  LET mine == AtPositions(q, {i \in 1..n : Wanted(q[i], blocks) /\ q[i].peer = p})
  IN  [i \in 1..Len(mine) |-> [type |-> "getblock", height |-> mine[i].block]]

GetHeaders(blocks) == <<[type |-> "getheaders", height |-> Best(blocks)]>>

\* The hashes that the first n entries of q add to inflight_blocks_.
Booked(q, n, blocks) == {q[i].block : i \in {j \in 1..n : Wanted(q[j], blocks)}}

\* pump_block_downloads, run over the queue q with the hashes of waiting queued
\* and those of busy in flight.
Pump(q, waiting, busy) ==
  LET n == Popped(q, busy, have')
  IN  /\ queue' = SubSeq(q, n + 1, Len(q))
      /\ queued' = waiting \ {q[i].block : i \in 1..n}
      /\ inflight' = busy \cup Booked(q, n, have')

\* The requests of that pump are sent after the messages first and before last,
\* which go to p.
SendRequests(q, busy, p, first, last) ==
  LET pumped(r) == Requests(q, Popped(q, busy, have'), have', r)
  IN  toPeer' = [r \in Peer |-> IF r = p THEN toPeer[r] \o first \o pumped(r) \o last
                                ELSE toPeer[r] \o pumped(r)]

\* Mutant of Missing: a block that is in flight is queued once more.
MissingOrInflight(batch) ==
  AtPositions(batch, {i \in DOMAIN batch : batch[i] \notin have \cup queued})

\* The blocks of a batch that enqueue_block_download lets into the queue.
Missing(batch) ==
  AtPositions(batch, {i \in DOMAIN batch : batch[i] \notin have \cup queued \cup inflight})

\* enqueue_block_download for each block of a batch.  The pumps between two of
\* them are one pump at the end: see QueueWaitsForSlot.
Enqueue(batch, p, first) ==
  LET new == Missing(batch)
      all == queue \o [i \in 1..Len(new) |-> [block |-> new[i], peer |-> p]]
  IN  /\ Pump(all, queued \cup {new[i] : i \in DOMAIN new}, inflight)
      /\ SendRequests(all, inflight, p, first, <<>>)

\* Mutant of Finished: only queued_blocks_ forgets the block.
FinishedInQueue(h) == inflight

\* finish_block_download: the slot of block h is free.
Finished(h) == inflight \ {h}

\* note_peer_announced_height.
NoteHeight(p, height) ==
  peerHeights' = [peerHeights EXCEPT ![p] = Larger(@, height)]

\* maybe_continue_sync, once the handler has set the state it reads.
ContinueSync(p) == peerHeights'[p] > Best(have') /\ queue' = <<>> /\ inflight' = {}

-----------------------------------------------------------------------------
(* The handlers                                                            *)

Receive(p, type) ==
  /\ p \in sessions
  /\ fromPeer[p] # <<>>
  /\ Head(fromPeer[p]).type = type
  /\ fromPeer' = [fromPeer EXCEPT ![p] = Tail(@)]
  /\ UNCHANGED <<peerTip, sessions, drops>>

\* A VERSION is answered by a VERSION each time, and by GETHEADERS.
ReceiveVersion(p) ==
  /\ Receive(p, "version")
  /\ validated' = validated \cup {p}
  /\ NoteHeight(p, Head(fromPeer[p]).height)
  /\ toPeer' = [toPeer EXCEPT ![p] = @ \o <<[type |-> "version"]>> \o GetHeaders(have)]
  /\ UNCHANGED <<have, download>>
  /\ UpdateApproval

\* inferred_remote_height: the parent of the first header is on the chain.
InferredHeight(batch) == batch[Len(batch)]

\* The handler notes the height and does not call update_chain_approval_state.
ReceiveHeaders(p) ==
  /\ Receive(p, "headers")
  /\ LET batch == Head(fromPeer[p]).batch
     IN  \/ /\ batch # <<>>
            /\ have' = have
            /\ Enqueue(batch, p, <<>>)
            /\ NoteHeight(p, InferredHeight(batch))
         \/ /\ batch = <<>>
            /\ have' = have
            /\ UNCHANGED <<peerHeights, download>>
            /\ toPeer' = [toPeer EXCEPT ![p] =
                 IF ContinueSync(p) THEN @ \o GetHeaders(have) ELSE @]
  /\ UNCHANGED <<validated, approval>>

\* A block of the one chain is accepted, in order or as an orphan, and the
\* requests of finish_block_download go out first.
ReceiveBlock(p) ==
  /\ Receive(p, "block")
  /\ LET h    == Head(fromPeer[p]).height
         busy == Finished(h)
     IN  /\ have' = have \cup {h}
         /\ IF h <= Best(have') THEN NoteHeight(p, h) ELSE UNCHANGED peerHeights
         /\ Pump(queue, queued \ {h}, busy)
         /\ SendRequests(queue, busy, p, <<>>,
              (IF Best(have') = Best(have) THEN GetHeaders(have') ELSE <<>>)
                \o (IF ContinueSync(p) THEN GetHeaders(have') ELSE <<>>))
  /\ UNCHANGED validated
  /\ UpdateApproval

ReceiveInv(p) ==
  /\ Receive(p, "inv")
  /\ have' = have
  /\ LET h == Head(fromPeer[p]).height
     IN  IF h \in have THEN UNCHANGED <<toPeer, download>>
         ELSE Enqueue(<<h>>, p, GetHeaders(have))
  /\ UNCHANGED <<validated, peerHeights, approval>>

-----------------------------------------------------------------------------
(* Sessions and the maintenance timer                                      *)

\* connect(): the side that dials sends the first VERSION.
Connect(p) ==
  /\ p \notin sessions
  /\ sessions' = sessions \cup {p}
  /\ toPeer' = [toPeer EXCEPT ![p] = <<[type |-> "version"]>>]
  /\ UNCHANGED <<peerTip, validated, fromPeer, have, peerHeights, download, drops>>
  /\ UpdateApproval

\* What remove_session forgets; the queue keeps its weak pointers.
ForgetSession(p) ==
  /\ p \in sessions
  /\ drops < MaxDrops
  /\ drops' = drops + 1
  /\ sessions' = sessions \ {p}
  /\ validated' = validated \ {p}
  /\ toPeer' = [toPeer EXCEPT ![p] = <<>>]
  /\ fromPeer' = [fromPeer EXCEPT ![p] = <<>>]
  /\ peerHeights' = [peerHeights EXCEPT ![p] = NoHeight]
  /\ queue' = [i \in DOMAIN queue |->
                 IF queue[i].peer = p THEN [queue[i] EXCEPT !.peer = NoPeer] ELSE queue[i]]
  /\ UNCHANGED <<peerTip, have, queued>>

\* Mutant of RemoveSession: the in-flight set is cleared as in set_network_active.
RemoveSessionClearing(p) == ForgetSession(p) /\ inflight' = {} /\ UpdateApproval

\* remove_session: the in-flight set stays.
RemoveSession(p) == ForgetSession(p) /\ UNCHANGED inflight /\ UpdateApproval

\* schedule_peer_maintenance; its connect_known_peers is Connect.
Maintain ==
  /\ UNCHANGED <<peerTip, sessions, validated, channels, have, peerHeights,
                 download, drops>>
  /\ UpdateApproval

-----------------------------------------------------------------------------
(* The peers, which run the same code                                      *)

\* Mutant of Batch: the loop goes one height past the tip.
BatchPastTip(tip, height) ==
  LET start == Smaller(height, tip)
  IN  [i \in 1..Smaller(MaxHeaders, tip + 1 - start) |-> start + i]

\* The header batch after the newest locator hash that the peer knows.
Batch(tip, height) ==
  LET start == Smaller(height, tip)
  IN  [i \in 1..Smaller(MaxHeaders, tip - start) |-> start + i]

Answer(p, request) ==
  CASE request.type = "version"    -> <<[type |-> "version", height |-> peerTip[p]]>>
    [] request.type = "getheaders" ->
         <<[type |-> "headers", batch |-> Batch(peerTip[p], request.height)]>>
    [] request.type = "getblock"   ->
         IF request.height <= peerTip[p]
         THEN <<[type |-> "block", height |-> request.height]>> ELSE <<>>

Serve(p) ==
  /\ p \in sessions
  /\ toPeer[p] # <<>>
  /\ toPeer' = [toPeer EXCEPT ![p] = Tail(@)]
  /\ fromPeer' = [fromPeer EXCEPT ![p] = @ \o Answer(p, Head(toPeer[p]))]
  /\ UNCHANGED <<peerTip, sessions, validated, have, peerHeights, download,
                 approval, drops>>

\* The peer's chain grows by a block, and it broadcasts an INV.
Grow(p) ==
  /\ peerTip[p] < MaxHeight
  /\ peerTip' = [peerTip EXCEPT ![p] = @ + 1]
  /\ fromPeer' = IF p \in sessions
                 THEN [fromPeer EXCEPT ![p] =
                         Append(@, [type |-> "inv", height |-> peerTip[p] + 1])]
                 ELSE fromPeer
  /\ UNCHANGED <<sessions, validated, toPeer, have, peerHeights, download,
                 approval, drops>>

-----------------------------------------------------------------------------
\* The node after start() over a chain that holds genesis alone.
Init ==
  /\ peerTip = [p \in Peer |-> 0]
  /\ sessions = {}
  /\ validated = {}
  /\ toPeer = [p \in Peer |-> <<>>]
  /\ fromPeer = [p \in Peer |-> <<>>]
  /\ have = {0}
  /\ peerHeights = [p \in Peer |-> NoHeight]
  /\ queue = <<>>
  /\ queued = {}
  /\ inflight = {}
  /\ approval = [approved |-> FALSE, height |-> 1]
  /\ drops = 0

Handle(p) ==
  \/ ReceiveVersion(p)
  \/ ReceiveHeaders(p)
  \/ ReceiveBlock(p)
  \/ ReceiveInv(p)

Next ==
  \/ \E p \in Peer : Handle(p) \/ Serve(p) \/ Grow(p) \/ Connect(p) \/ RemoveSession(p)
  \/ Maintain

Spec == Init /\ [][Next]_vars

\* Sockets deliver, peers answer, and the timer of the node fires again.
Fairness ==
  /\ \A p \in Peer : WF_vars(Handle(p)) /\ WF_vars(Serve(p))
  /\ WF_vars(Maintain)

FairSpec == Spec /\ Fairness

-----------------------------------------------------------------------------
(* Invariants                                                              *)

Request == [type : {"version"}] \cup [type : {"getheaders", "getblock"}, height : Nat]

Message == [type : {"version", "block", "inv"}, height : Nat]
             \cup [type : {"headers"}, batch : Seq(Nat)]

\* The state of every variable has the shape its declaration says.
TypeOK ==
  /\ peerTip \in [Peer -> 0..MaxHeight]
  /\ sessions \subseteq Peer
  /\ validated \subseteq sessions
  /\ toPeer \in [Peer -> Seq(Request)]
  /\ fromPeer \in [Peer -> Seq(Message)]
  /\ have \subseteq 0..MaxHeight
  /\ peerHeights \in [Peer -> Nat \cup {NoHeight}]
  /\ queue \in Seq([block : 1..MaxHeight, peer : Peer \cup {NoPeer}])
  /\ queued \subseteq 1..MaxHeight
  /\ inflight \subseteq 1..MaxHeight
  /\ approval \in [approved : BOOLEAN, height : Nat]
  /\ drops \in Nat

\* Where the block h is on its way: a GETBLOCK or a BLOCK on a channel.
Outstanding(h) ==
  UNION {{<<"asked", p, i>> : i \in {j \in DOMAIN toPeer[p] :
                                 toPeer[p][j] = [type |-> "getblock", height |-> h]}}
         \cup
         {<<"sent", p, i>> : i \in {j \in DOMAIN fromPeer[p] :
                                 fromPeer[p][j] = [type |-> "block", height |-> h]}}
           : p \in Peer}

\* However announcements of several peers overlap, a block is asked for by one
\* request at a time, and that request is booked in inflight_blocks_.
DownloadedOnce ==
  \A h \in 1..MaxHeight :
    /\ Cardinality(Outstanding(h)) <= 1
    /\ Outstanding(h) # {} => h \in inflight

\* While no session was lost, every booked block is on its way, so that a full
\* inflight_blocks_ always empties.
BookedIsOutstanding ==
  drops = 0 => \A h \in inflight : Outstanding(h) # {}

\* A queue that holds anything waits for a slot, and finish_block_download is
\* what frees one; the deque and queued_blocks_ name the same missing blocks.
QueueWaitsForSlot ==
  /\ queue # <<>> => Cardinality(inflight) = MaxParallel
  /\ \A i, j \in DOMAIN queue : queue[i].block = queue[j].block => i = j
  /\ queued = {queue[i].block : i \in DOMAIN queue}
  /\ queued \cap inflight = {}

-----------------------------------------------------------------------------
(* Action properties and liveness                                          *)

\* The wallet opens only when the chain has reached every height that a peer
\* with an open session has announced.
WalletOpensCaughtUp ==
  [][(~WalletOpen(have, approval) /\ WalletOpen(have', approval'))
       => \A p \in Peer : peerHeights'[p] <= Best(have')]_vars

\* test_late_node_syncs_to_best_chain (tests.cpp:2667): a node whose session to
\* a peer stays open gets that peer's chain.  It holds if no session is ever
\* lost: request_headers_from, maybe_continue_sync and the pumps never wait for
\* each other.
LateNodeSyncs ==
  \A p \in Peer : <>[](p \in sessions) => []<>(Best(have) >= peerTip[p])

\* Once the peers stop mining, the wallet of a node with blocks stays open: no
\* required height is left that no block fills.  It does not say that an open
\* wallet closes for a height just heard; the HEADERS handler leaves it open.
WalletSettlesOpen == <>[](Best(have) > 0 => WalletOpen(have, approval))

\* wallet.cpp:1391, "wallet is locked until chain sync is approved": it opens
\* only in a state that set_sync_approval was told is approved.
WalletOpensApproved ==
  [][(~WalletOpen(have, approval) /\ WalletOpen(have', approval'))
       => approval'.approved]_vars
=============================================================================
