------------------------ MODULE MCCashWalletMigration ------------------------
(***************************************************************************)
(* Small instances of CashWalletMigration for TLC.                         *)
(***************************************************************************)
EXTENDS MigrationTrail, TLC

symmetry == Permutations(Workers)

none == [e \in Events |-> 0]

\* Crashes, errors, lost answers and expired invoices; the user does nothing.
faults == [none EXCEPT !["crash"] = 2, !["error"] = 1, !["ambiguous"] = 1, !["expire"] = 1,
                       !["request"] = 2, !["retry"] = 1]

\* The user pays and is paid while the migration runs.
traffic == [none EXCEPT !["crash"] = 1, !["ambiguous"] = 1, !["request"] = 2, !["retry"] = 1,
                        !["spend"] = 1, !["deposit"] = 1]

\* A slow process is overtaken by another while it still runs.
overtaken == [none EXCEPT !["error"] = 1, !["ambiguous"] = 1, !["request"] = 1, !["retry"] = 1]

\* What a migration has to come to rest from.
restless == [none EXCEPT !["crash"] = 1, !["error"] = 1, !["request"] = 1, !["expire"] = 1]

=============================================================================
