------------------------------- MODULE MCLive -------------------------------
(***************************************************************************)
(* Two parts that have to get on by themselves, side by side for TLC as in *)
(* MCNode: the recursion of accept_block, and the cycle of the bridge      *)
(* daemon.  A part is fair where it is in focus.                           *)
(***************************************************************************)
EXTENDS MCBlockchain, MCBridge

VARIABLE focus
liveVars == <<vars, bridgeVars, focus>>

LiveInit ==
  /\ focus \in {"chain", "bridge"}
  /\ Init /\ BridgeInit
  /\ focus # "bridge" => autoRelease

Others(rest) == UNCHANGED <<rest, focus>>
LiveNext ==
  \/ focus = "chain" /\ Next /\ Others(bridgeVars)
  \/ focus = "bridge" /\ BridgeNext /\ Others(vars)

\* The thread that runs accept_block runs its recursion to the end.
ChainFairness == WF_vars(focus = "chain" /\ RetryParked)

\* The daemon polls for ever, both chains go on, and the operator approves
\* and unpauses in the end; nobody has to deposit or redeem.  A mint that stays
\* open gets older than mint_resubmit_after_seconds, so some later visit finds
\* it due.  A payment does not wait in the pools for ever: the next block of the
\* native chain holds it or wipes it, and nothing makes the better one happen.
BridgeFairness ==
  /\ WF_bridgeVars(focus = "bridge" /\ DaemonStep)
  /\ \A d \in Deposit : /\ WF_bridgeVars(focus = "bridge" /\ MineMint(d))
                        /\ SF_bridgeVars(focus = "bridge" /\ ResendMint(d))
  /\ WF_bridgeVars(focus = "bridge" /\ \E p \in native.paid : ConfirmPayment(p) \/ LosePayment(p))
  /\ WF_bridgeVars(focus = "bridge" /\ Approve)
  /\ WF_bridgeVars(focus = "bridge" /\ MineEmpty)
  /\ WF_bridgeVars(focus = "bridge" /\ Unpause)

LiveSpec == LiveInit /\ [][LiveNext]_liveVars /\ ChainFairness /\ BridgeFairness
=============================================================================
