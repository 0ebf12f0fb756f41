-------------------------------- MODULE MCSync --------------------------------
(***************************************************************************)
(* What the node does to stay in touch, side by side for TLC as in MCNode: *)
(* block download over sessions that are never lost, and the dials of the  *)
(* peer timer.  A part is fair where it is in focus.                       *)
(***************************************************************************)
EXTENDS PeerSync, MCPeers

VARIABLE focus
syncVars == <<vars, peersVars, focus>>

SyncInit ==
  /\ focus \in {"sync", "peers"} /\ Init /\ PeersInit
  /\ focus # "peers" => PeersAtRest

SyncNext ==
  \/ focus = "sync" /\ Next /\ UNCHANGED <<drops, peersVars, focus>>
  \/ focus = "peers" /\ PeersNext /\ UNCHANGED <<vars, focus>>

\* The event loop takes a message off the socket of p: some Handle(p), and nothing else.
ReadSocket(p) ==
  /\ p \in sessions /\ fromPeer[p] # <<>>
  /\ fromPeer' = [fromPeer EXCEPT ![p] = Tail(@)]

\* Fairness of PeerSync: sockets are read, peers answer, the timer fires again.
DownloadFairness ==
  /\ \A p \in Peer : /\ WF_fromPeer(focus = "sync" /\ ReadSocket(p))
                     /\ WF_toPeer(focus = "sync" /\ Serve(p))
  /\ WF_vars(focus = "sync" /\ Maintain)

\* The timer fires for ever, the handlers of dials run, and a label the timer
\* passes over for ever is not attempted, so its score decays.
PeersFairness ==
  /\ WF_peersVars(focus = "peers" /\ MaintainPeers)
  /\ WF_peersVars(focus = "peers" /\ \E p \in Node : BeginDial(p))
  /\ \A p \in Node :
       /\ WF_peersVars(focus = "peers" /\ \E d \in dials : d.to = p /\ DialStep(d))
       /\ WF_peersVars(/\ focus = "peers" /\ p \in rested /\ score[p] > 0
                       /\ MaintainPeers /\ score'[p] < score[p])

SyncSpec == SyncInit /\ [][SyncNext]_syncVars /\ DownloadFairness /\ PeersFairness
=============================================================================
