--------------------------------- MODULE Peers ---------------------------------
(***************************************************************************)
(* The sessions of one node (src/src/network.cpp): whom it dials, by hand  *)
(* and on its timer, the labels it is dialling already                     *)
(* (pending_connects_), whom it lets in, bans, and the switch              *)
(* set_network_active.                                                     *)
(*                                                                         *)
(* The handlers of dials and sessions run one at a time on the network     *)
(* thread; addnode, setban, clearbanned and setnetworkactive run on RPC    *)
(* threads and may come between any two steps.  A label stands for its     *)
(* peer.  Candidates for a dial are sorted by source, then by score; the    *)
(* further keys of the sort are left open, and so is the time a ban lasts. *)
(***************************************************************************)
EXTENDS Integers, Sequences, FiniteSets, SequencesExt

CONSTANTS
  Node,          \* the peers, each with one listening label
  Group,         \* the netgroup of each
  Rank,          \* the source_rank of each, once dialled: manual, lan, seed, ...; that
                 \* of a label learnt from a peer, which its first dial raises, is not shown
  BanScore,      \* ban_threshold_
  MaxDials,      \* max_connections of connect_known_peers
  OutboundLimit, \* MAX_OUTBOUND_PEERS_PER_NETGROUP
  InboundLimit,  \* MAX_INBOUND_PEERS_PER_NETGROUP
  MaxDown,       \* bound: peers unreachable at a time
  MaxPerPeer,    \* bound: dials and sessions with one peer at a time
  MaxUpsets      \* bound: what changes from outside (see Upset)

ASSUME PeersAssumption == BanScore \in Nat \ {0} /\ MaxDials \in Nat \ {0}

VARIABLES
  proxied,    \* dials go through a SOCKS5 proxy
  known,      \* known_peers_
  calls,      \* connect() has found the network active and goes on
  pendingConnects,    \* pending_connects_
  dials,      \* connection attempts under way, with their stage
  listed,     \* sessions_
  active,     \* network_active_
  closing,    \* where a set_network_active(false) stands
  banned,     \* labels with banned_until in the future
  score,      \* PeerState::score
  rested,     \* labels passed over since their last_updated
  up,         \* the peers that can be reached
  upsets
peersVars == <<proxied, known, calls, pendingConnects, dials, listed, active, closing,
               banned, score, rested, up, upsets>>
trust == <<banned, score, rested>>
world == <<proxied, up>>
outside == <<proxied, up, upsets>>

Number == 1..MaxPerPeer
Dial == [to : Node, no : Number, out : BOOLEAN,
         stage : {"resolving", "connecting", "admitted"}]
Session == [with : Node, no : Number, out : BOOLEAN, named : BOOLEAN]

FreeNo(p) == Number \ ({d.no : d \in {e \in dials : e.to = p}}
                         \cup {s.no : s \in {e \in listed : e.with = p}})
NewDial(p, out, stage) ==
  [to |-> p, no |-> CHOOSE no \in FreeNo(p) : TRUE, out |-> out, stage |-> stage]
GroupSize(g) == Cardinality({s \in listed : Group[s.with] = g})
\* remote_label: an inbound session has the label of its peer once VERSION gave it.
HasLabel(s) == s.out \/ s.named
Labels == {s.with : s \in {e \in listed : HasLabel(e)}}

Upset == upsets < MaxUpsets /\ upsets' = upsets + 1

-----------------------------------------------------------------------------
(* connect_known_peers, with the calls of connect it makes *)

\* begin_pending_connect and the start of the dial.
Begin(peers) ==
  /\ pendingConnects' = pendingConnects \cup peers
  /\ known' = known \cup peers
  /\ dials' = dials \cup {NewDial(p, TRUE, "resolving") : p \in peers}

Candidates == (known \ banned) \ (Labels \cup pendingConnects)

Choose(round, p) ==
  [round EXCEPT !.chosen = @ \cup {p}, !.count = @ + 1, !.size[Group[p]] = @ + 1]
\* First one peer of every group without a session, then up to the limit; the
\* second loop counts a peer again that the first one has dialled.
FreshGroup(round, p) ==
  IF round.count >= MaxDials \/ round.size[Group[p]] > 0 THEN round ELSE Choose(round, p)
BelowLimit(round, p) ==
  IF round.count >= MaxDials \/ round.size[Group[p]] >= OutboundLimit THEN round
  ELSE Choose(round, p)
ConnectKnown(order) ==
  LET start == [chosen |-> {}, count |-> 0,
                size |-> [g \in {Group[p] : p \in Node} |-> GroupSize(g)]]
  IN FoldLeft(BelowLimit, FoldLeft(FreshGroup, start, order), order).chosen
Sorted(order, points) ==
  \A i, j \in DOMAIN order : i < j =>
    \/ Rank[order[i]] < Rank[order[j]]
    \/ /\ Rank[order[i]] = Rank[order[j]]
       /\ points[order[i]] <= points[order[j]]
\* The scores of labels that were left alone for half an hour have decayed.  One
\* step: connect reads network_active again for each candidate, so that a SwitchOff
\* in between leaves out the last dials.
DialKnown ==
  \E decayed \in SUBSET (rested \cap Candidates) :
    LET points == [p \in Node |-> IF p \in decayed /\ score[p] > 0
                                  THEN score[p] - 1 ELSE score[p]]
    IN \E order \in {o \in SetToSeqs(Candidates) : Sorted(o, points)} :
         /\ score' = points
         /\ Begin({p \in ConnectKnown(order) : FreeNo(p) # {}})
         /\ rested' = Candidates \ ConnectKnown(order)

\* schedule_peer_maintenance, every 30 seconds.
MaintainPeers ==
  /\ active /\ DialKnown
  /\ UNCHANGED <<calls, listed, active, closing, banned, outside>>

-----------------------------------------------------------------------------
(* connect, from its first check to the session *)

\* addnode and the other RPC commands that connect.
CallConnect(p) ==
  /\ active /\ Upset
  /\ calls' = calls \cup {p}
  /\ UNCHANGED <<known, pendingConnects, dials, listed, active, closing, trust, world>>

\* The mutant: the label is taken before the network is found inactive.
BeginDialUnchecked(p) ==
  /\ p \in calls /\ calls' = calls \ {p}
  /\ IF active /\ p \notin pendingConnects THEN FreeNo(p) # {} /\ Begin({p})
     ELSE pendingConnects' = pendingConnects \cup {p} /\ UNCHANGED <<known, dials>>
  /\ UNCHANGED <<listed, active, closing, trust, outside>>

BeginDial(p) ==
  /\ p \in calls /\ calls' = calls \ {p}
  /\ IF p \in pendingConnects THEN UNCHANGED <<known, pendingConnects, dials>>
     ELSE FreeNo(p) # {} /\ Begin({p})
  /\ UNCHANGED <<listed, active, closing, trust, outside>>

EndPending(p) == pendingConnects' = pendingConnects \ {p}
To(d, stage) == dials' = (dials \ {d}) \cup {[d EXCEPT !.stage = stage]}

\* The handler of async_resolve.
Resolved(d) ==
  /\ d.stage = "resolving" /\ ~proxied
  /\ IF active THEN To(d, "connecting") /\ UNCHANGED pendingConnects
     ELSE dials' = dials \ {d} /\ EndPending(d.to)
  /\ UNCHANGED <<known, calls, listed, active, closing, trust, outside>>

\* The mutant: a failed attempt is noted without its points.
FailedUnscored(p) == rested' = rested \ {p} /\ UNCHANGED score
\* note_peer_connection_attempt(label, false): failures alone never ban.
Failed(p) ==
  /\ score' = [score EXCEPT ![p] = IF @ < BanScore THEN @ + 1 ELSE BanScore]
  /\ rested' = rested \ {p}

\* Either handler gets an error, or the proxy cannot reach the peer.
DialFails(d) ==
  /\ d.stage # "admitted"
  /\ dials' = dials \ {d} /\ EndPending(d.to) /\ Failed(d.to)
  /\ IF d.to \in up THEN Upset ELSE UNCHANGED upsets
  /\ UNCHANGED <<known, calls, listed, active, closing, banned, world>>

\* The handler of async_connect up to its last check, or the posted function with
\* the proxy, which does not look at network_active.
DialConnects(d) ==
  /\ d.stage = (IF proxied THEN "resolving" ELSE "connecting") /\ d.to \in up
  /\ EndPending(d.to)
  /\ IF (proxied \/ active) /\ d.to \notin banned
     THEN To(d, "admitted") ELSE dials' = dials \ {d}
  /\ UNCHANGED <<known, calls, listed, active, closing, trust, outside>>

\* do_accept up to its last check: the label is not known yet, so no ban applies.
Accept(p) ==
  /\ p \in up /\ active /\ Upset /\ FreeNo(p) # {}
  /\ GroupSize(Group[p]) < InboundLimit
  /\ dials' = dials \cup {NewDial(p, FALSE, "admitted")}
  /\ UNCHANGED <<known, calls, pendingConnects, listed, active, closing, trust, world>>

\* The session is pushed on sessions_ and starts reading.
AddSession(d) ==
  /\ d.stage = "admitted"
  /\ dials' = dials \ {d}
  /\ listed' = IF d.to \notin up THEN listed
               ELSE listed \cup {[with |-> d.to, no |-> d.no, out |-> d.out,
                                  named |-> d.out /\ proxied]}
  /\ known' = IF d.out THEN known \cup {d.to} ELSE known
  /\ rested' = IF d.out THEN rested \ {d.to} ELSE rested
  /\ UNCHANGED <<calls, pendingConnects, active, closing, banned, score, outside>>

DialStep(d) == Resolved(d) \/ DialFails(d) \/ DialConnects(d) \/ AddSession(d)

-----------------------------------------------------------------------------
(* Sessions and bans *)

ReceiveVersionOf(s) ==
  /\ s \in listed /\ ~s.named
  /\ listed' = (listed \ {s}) \cup {[s EXCEPT !.named = TRUE]}
  /\ known' = known \cup {s.with}
  /\ rested' = rested \ {s.with}
  /\ UNCHANGED <<calls, pendingConnects, dials, active, closing, banned, score, outside>>

\* remove_session after a read or write error.
LoseSession(s) ==
  /\ s \in listed /\ Upset
  /\ listed' = listed \ {s}
  /\ rested' = IF HasLabel(s) THEN rested \ {s.with} ELSE rested
  /\ UNCHANGED <<known, calls, pendingConnects, dials, active, closing, banned, score,
                 world>>

\* A label gets past the threshold and is banned.
Ban(p, points) ==
  /\ banned' = banned \cup {p}
  /\ score' = [score EXCEPT ![p] = IF @ > points THEN @ ELSE points]
  /\ rested' = rested \ {p}

\* punish, message after message: the label of the session is banned, the session
\* closed.  The last message may carry the score past the threshold.
Punish(s) ==
  /\ s \in listed /\ Upset
  /\ listed' = listed \ {s}
  /\ IF HasLabel(s) THEN Ban(s.with, BanScore + 1) ELSE UNCHANGED trust
  /\ UNCHANGED <<known, calls, pendingConnects, dials, active, closing, world>>

\* set_ban leaves the sessions of the label alone.
SetBan(p) ==
  /\ p \notin banned /\ Upset /\ Ban(p, BanScore)
  /\ UNCHANGED <<known, calls, pendingConnects, dials, listed, active, closing, world>>

BanExpires(p) ==
  /\ p \in banned /\ banned' = banned \ {p}
  /\ UNCHANGED <<known, calls, pendingConnects, dials, listed, active, closing,
                 score, rested, outside>>

ClearBans ==
  /\ banned # {} /\ banned' = {}
  /\ score' = [p \in Node |-> 0] /\ rested' = {}
  /\ UNCHANGED <<known, calls, pendingConnects, dials, listed, active, closing, outside>>

-----------------------------------------------------------------------------
(* set_network_active; one call at a time switches off *)

SwitchOff ==
  /\ active /\ closing = "no" /\ Upset
  /\ active' = FALSE /\ closing' = "sessions"
  /\ UNCHANGED <<known, calls, pendingConnects, dials, listed, trust, world>>

CloseSessions ==
  /\ closing = "sessions" /\ closing' = "dials"
  /\ listed' = {} /\ rested' = rested \ Labels
  /\ UNCHANGED <<known, calls, pendingConnects, dials, active, banned, score, outside>>

ClearPending ==
  /\ closing = "dials" /\ closing' = "no"
  /\ pendingConnects' = {}
  /\ UNCHANGED <<known, calls, dials, listed, active, trust, outside>>

SwitchOn ==
  /\ ~active /\ active' = TRUE
  /\ DialKnown
  /\ UNCHANGED <<calls, listed, closing, banned, outside>>

-----------------------------------------------------------------------------
(* The peers *)

GoDown(p) ==
  /\ p \in up /\ Cardinality(Node \ up) < MaxDown /\ Upset
  /\ up' = up \ {p}
  /\ listed' = {s \in listed : s.with # p}
  /\ rested' = rested \ {p}
  /\ UNCHANGED <<proxied, known, calls, pendingConnects, dials, active, closing,
                 banned, score>>

ComeUp(p) ==
  /\ p \notin up /\ up' = up \cup {p}
  /\ UNCHANGED <<proxied, known, calls, pendingConnects, dials, listed, active, closing,
                 trust, upsets>>

-----------------------------------------------------------------------------
PeersInit ==
  /\ proxied \in BOOLEAN
  /\ known \in {{}, Node}        \* load_peers
  /\ calls = {} /\ pendingConnects = {} /\ dials = {} /\ listed = {}
  /\ active = TRUE /\ closing = "no" /\ banned = {}
  /\ score = [p \in Node |-> 0] /\ rested = {}
  /\ up \in {S \in SUBSET Node : Cardinality(Node \ S) <= MaxDown}
  /\ upsets = 0

PeersNext ==
  \/ MaintainPeers
  \/ \E p \in Node : \/ CallConnect(p) \/ BeginDial(p) \/ Accept(p)
                     \/ SetBan(p) \/ BanExpires(p) \/ GoDown(p) \/ ComeUp(p)
  \/ \E d \in dials : DialStep(d)
  \/ \E s \in listed : ReceiveVersionOf(s) \/ LoseSession(s) \/ Punish(s)
  \/ ClearBans
  \/ SwitchOff \/ CloseSessions \/ ClearPending \/ SwitchOn

PeersSpec == PeersInit /\ [][PeersNext]_peersVars

-----------------------------------------------------------------------------
(* Properties *)

\* A label is kept from being dialled only while a dial to it is under way,
\* however failures, the switch and two calls for one label interleave
\* (begin_pending_connect, end_pending_connect, set_network_active).
PendingIsUnderWay ==
  \A p \in pendingConnects : \E d \in dials : d.to = p /\ d.stage # "admitted"

\* A known peer that stays up and unbanned is connected again and again while the
\* network stays active, unless its netgroup is full or an unreachable peer from a
\* better source is preferred for ever (connect_known_peers): points for failures
\* and their decay turn the order of the candidates in the end.
Reachable(p) ==
  /\ active /\ p \in (known \cap up) \ banned
  /\ \A q \in Node \ up : Rank[q] >= Rank[p]
KnownPeerReconnects ==
  \A p \in Node :
    <>[]Reachable(p)
      => []<>(GroupSize(Group[p]) >= OutboundLimit \/ \E s \in listed : s.with = p)
=============================================================================
