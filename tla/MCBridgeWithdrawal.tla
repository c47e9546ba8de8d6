------------------------- MODULE MCBridgeWithdrawal -------------------------
(***************************************************************************)
(* Small instances of BridgeWithdrawal for TLC.                            *)
(***************************************************************************)
EXTENDS BridgeWithdrawal

CONSTANTS w1, w2, a1, a2, h1, h2
=============================================================================
