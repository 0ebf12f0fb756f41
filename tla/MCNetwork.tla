------------------------------ MODULE MCNetwork ------------------------------
(***************************************************************************)
(* The parts that talk to others over a network, side by side for TLC as   *)
(* in MCNode: block download from peers, the bridge daemon between the     *)
(* native chain and the EVM chain, the voice calls of two nodes, the       *)
(* replicas of a mail, and the sessions of one node.                       *)
(***************************************************************************)
EXTENDS PeerSync, MCBridge, VoiceCall, MailReplicas, MCPeers

VARIABLE focus
networkVars == <<vars, bridgeVars, voiceVars, mailVars, peersVars, focus>>

NetworkInit ==
  /\ focus \in {"sync", "bridge", "voice", "mail", "peers"}
  /\ Init /\ BridgeInit /\ VoiceInit /\ MailInit /\ PeersInit
  /\ focus # "peers" => PeersAtRest
  /\ focus # "bridge" => autoRelease

Others(rest) == UNCHANGED <<rest, focus>>
NetworkNext ==
  \/ focus = "sync" /\ Next /\ Others(<<bridgeVars, voiceVars, mailVars, peersVars>>)
  \/ focus = "bridge" /\ BridgeNext /\ Others(<<vars, voiceVars, mailVars, peersVars>>)
  \/ focus = "voice" /\ VoiceNext /\ Others(<<vars, bridgeVars, mailVars, peersVars>>)
  \/ focus = "mail" /\ MailNext /\ Others(<<vars, bridgeVars, voiceVars, peersVars>>)
  \/ focus = "peers" /\ PeersNext /\ Others(<<vars, bridgeVars, voiceVars, mailVars>>)

NetworkSpec == NetworkInit /\ [][NetworkNext]_networkVars

\* The peers to download from behave alike, and so do the two nodes of a call.
Symmetry == Permutations(Peer) \cup Permutations(Party)

\* The state of the parts has the shape their modules declare.
NetworkTypeOK == TypeOK /\ BridgeTypeOK /\ MailTypeOK
=============================================================================
