------------------------------ MODULE MCCashout ------------------------------
(***************************************************************************)
(* Small instances of Cashout for TLC.                                     *)
(***************************************************************************)
EXTENDS Cashout, TLC

CONSTANTS o1, x1, x2

=============================================================================
