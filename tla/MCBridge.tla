------------------------------- MODULE MCBridge -------------------------------
(***************************************************************************)
(* Deposits for Bridge, in the order the native chain confirms them.       *)
(***************************************************************************)
EXTENDS Bridge

CONSTANT d1
OneDeposit == <<d1>>
=============================================================================
