-------------------------------- MODULE MCNode --------------------------------
(***************************************************************************)
(* The parts of one node that keep state of their own, side by side for    *)
(* TLC: the block chain, its files one write at a time, the transaction    *)
(* pool, the wallet file and the miners.  They share no variable, so a behaviour that  *)
(* mixes them shows nothing that its parts do not: focus names the part    *)
(* that moves, and the state spaces add up where a product would multiply  *)
(* them.                                                                   *)
(***************************************************************************)
EXTENDS MCBlockchain, ChainStorage, Mempool, WalletFile, Miner

VARIABLE focus
nodeVars == <<vars, storageVars, mempoolVars, walletVars, minerVars, focus>>

-----------------------------------------------------------------------------
(* Six transactions for the pool: b and c spend outputs of a, where b also *)
(* takes one of the chain's; d spends b and a; e spends a coinbase that is *)
(* not mature at either tip; f pays out more than it takes.                *)
SmallTx == {"a", "b", "c", "d", "e", "f"}
SmallSpends ==
  [a |-> {<<"k0", 0>>},
   b |-> {<<"a", 0>>, <<"k0", 1>>},
   c |-> {<<"a", 0>>},
   d |-> {<<"b", 0>>, <<"a", 1>>},
   e |-> {<<"k1", 0>>},
   f |-> {<<"k2", 0>>}]
SmallOutputs == [t \in SmallTx |-> IF t = "a" THEN 2 ELSE 1]
SmallSize == [t \in SmallTx |-> IF t = "b" THEN 2 ELSE 1]
SmallRank == [a |-> 2, b |-> 5, c |-> 3, d |-> 1, e |-> 4, f |-> 6]
SmallFlaw == [t \in SmallTx |-> IF t = "f" THEN "overspend" ELSE "none"]

Reward(h) == [height |-> h, coinbase |-> TRUE]
Change(h) == [height |-> h, coinbase |-> FALSE]
\* The tip of one branch, on which nothing of the six is mined, and the lower
\* tip of another, whose last block has a.
HighTip ==
  [height |-> 7,
   coins |-> (<<"k0", 0>> :> Reward(0)) @@ (<<"k0", 1>> :> Reward(0))
             @@ (<<"k1", 0>> :> Reward(6)) @@ (<<"k2", 0>> :> Reward(0))]
LowTip ==
  [height |-> 4,
   coins |-> (<<"k0", 1>> :> Reward(0)) @@ (<<"k1", 0>> :> Reward(4))
             @@ (<<"k2", 0>> :> Reward(0))
             @@ (<<"a", 0>> :> Change(4)) @@ (<<"a", 1>> :> Change(4))]
TwoTips == {HighTip, LowTip}

-----------------------------------------------------------------------------
NodeInit ==
  /\ focus \in {"chain", "storage", "pool", "wallet", "miner"}
  /\ Init /\ StorageInit /\ MempoolInit /\ WalletInit /\ MinerInit
  /\ focus # "pool" => height = HighTip.height
  /\ focus # "miner" => command = "mine"

Rest(others) == UNCHANGED <<others, focus>>
NodeNext ==
  \/ focus = "chain" /\ Next /\ Rest(<<storageVars, mempoolVars, walletVars, minerVars>>)
  \/ focus = "storage" /\ StorageNext /\ Rest(<<vars, mempoolVars, walletVars, minerVars>>)
  \/ focus = "pool" /\ MempoolNext /\ Rest(<<vars, storageVars, walletVars, minerVars>>)
  \/ focus = "wallet" /\ WalletNext /\ Rest(<<vars, storageVars, mempoolVars, minerVars>>)
  \/ focus = "miner" /\ MinerNext /\ Rest(<<vars, storageVars, mempoolVars, walletVars>>)

NodeSpec == NodeInit /\ [][NodeNext]_nodeVars

\* The state of the files, the pool, the wallet and the miners has the shape
\* their modules declare.
PartsTypeOK == StorageTypeOK /\ MempoolTypeOK /\ WalletTypeOK /\ MinerTypeOK
=============================================================================
