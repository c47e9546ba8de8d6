------------------------- MODULE MCCutoverLifecycle --------------------------
(***************************************************************************)
(* Small instances of CutoverLifecycle for TLC.                            *)
(***************************************************************************)
EXTENDS CutoverLifecycle, TLC

symmetry == Permutations(Operators) \cup Permutations(OldAccounts)

=============================================================================
