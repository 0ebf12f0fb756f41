-------------------------------- MODULE MCPeers --------------------------------
(***************************************************************************)
(* Two known peers of one netgroup for Peers, seeds both.                  *)
(***************************************************************************)
EXTENDS Peers

OneGroup == [p \in Node |-> "g1"]
SameRank == [p \in Node |-> 2]

\* One of the initial states, for the runs that look at another part.
PeersAtRest == ~proxied /\ up = Node /\ known = {}
=============================================================================
