---------------------------- MODULE CutoverStatus ----------------------------
(***************************************************************************)
(* The vocabulary of the cash wallet cutover: the statuses of one account's *)
(* migration from its legacy USD wallet to its USDT wallet, the table of    *)
(* legal transitions, the status sets the repository, the runner and the    *)
(* executor consult, and the guard that routes a user's payments.           *)
(* Nothing here has state.                                                  *)
(***************************************************************************)

\* index.types.d.ts: CashWalletMigrationStatus, in pipeline order.
PreMoneyStatuses == {"not_started", "started", "provisioned", "balance_read"}

MoneyStatuses ==
    {"invoice_created", "balance_move_sending", "balance_move_sent",
     "balance_move_verified", "fee_reimbursement_invoice_created",
     "fee_reimbursement_sending", "fee_reimbursed", "pointer_flipped",
     "legacy_zero_verified"}

MigrationStatuses ==
    PreMoneyStatuses \cup MoneyStatuses \cup
    {"complete", "failed", "requires_operator_review",
     "skipped_already_migrated", "rollback_started", "rolled_back"}

\* index.types.d.ts: CashWalletCutoverState.
CutoverStates == {"pre", "in_progress", "complete", "rolled_back"}

-----------------------------------------------------------------------------

\* Every status an operator may pull into rollback.
ROLLBACKABLE_STATUSES ==
    MigrationStatuses \ {"skipped_already_migrated", "rollback_started", "rolled_back"}

\* The repository does not list these for the forward batch, and the executor
\* returns a migration found in one of them unchanged.
TERMINAL_STATUSES ==
    {"complete", "failed", "requires_operator_review",
     "skipped_already_migrated", "rollback_started", "rolled_back"}

\* A failed step in one of these may have had an effect outside the database.
AMBIGUOUS_SIDE_EFFECT_STATUSES == MoneyStatuses \ {"legacy_zero_verified"}

failureStatusForMigration(status) ==
    IF status \in AMBIGUOUS_SIDE_EFFECT_STATUSES
    THEN "requires_operator_review"
    ELSE "failed"

\* The transition table of state-machine.ts, without the edges every
\* rollbackable status has to rollback_started (added by CanTransition).
transitions ==
    [s \in MigrationStatuses |->
        CASE s = "not_started"           -> {"started"}
          [] s = "started"               -> {"provisioned", "failed"}
          [] s = "provisioned"           -> {"balance_read", "failed", "skipped_already_migrated"}
          [] s = "balance_read"          -> {"invoice_created", "pointer_flipped", "failed"}
          [] s = "invoice_created"       -> {"invoice_created", "balance_move_sending",
                                             "failed", "requires_operator_review"}
          [] s = "balance_move_sending"  -> {"balance_move_sent",
                                             "failed", "requires_operator_review"}
          [] s = "balance_move_sent"     -> {"balance_move_verified",
                                             "failed", "requires_operator_review"}
          [] s = "balance_move_verified" -> {"fee_reimbursement_invoice_created", "fee_reimbursed",
                                             "failed", "requires_operator_review"}
          [] s = "fee_reimbursement_invoice_created" ->
                                            {"fee_reimbursement_invoice_created",
                                             "fee_reimbursement_sending",
                                             "failed", "requires_operator_review"}
          [] s = "fee_reimbursement_sending" -> {"fee_reimbursed",
                                             "failed", "requires_operator_review"}
          [] s = "fee_reimbursed"        -> {"pointer_flipped", "failed"}
          [] s = "pointer_flipped"       -> {"legacy_zero_verified", "failed"}
          [] s = "legacy_zero_verified"  -> {"complete", "failed"}
          [] s = "failed"                -> {"not_started", "pointer_flipped"}
          [] s = "rollback_started"      -> {"rollback_started", "rolled_back",
                                             "failed", "requires_operator_review"}
          [] OTHER                       -> {}]

CanTransition(from, to) ==
    \/ to \in transitions[from]
    \/ from \in ROLLBACKABLE_STATUSES /\ to = "rollback_started"

-----------------------------------------------------------------------------

\* A user's operation is either blocked with an error or sent to one wallet.
Routes == {"legacy_usd", "usdt", "blocked"}

\* Mutant: the status in which the balance moves is missing.
ActiveButInvoiceCreated ==
    (PreMoneyStatuses \ {"not_started"})
        \cup (MoneyStatuses \ {"invoice_created", "legacy_zero_verified"})
        \cup {"rollback_started"}

ACTIVE_STATUSES ==
    (PreMoneyStatuses \ {"not_started"})
        \cup (MoneyStatuses \ {"legacy_zero_verified"})
        \cup {"rollback_started"}

\* evaluateCashWalletCutoverGuard. "none": the caller passed no migration.
Guard(state, status) ==
    CASE state = "pre" -> "legacy_usd"
      [] state = "complete" ->
           CASE status = "rollback_started" -> "blocked"
             [] status = "rolled_back"      -> "legacy_usd"
             [] OTHER                       -> "usdt"
      [] state = "rolled_back" ->
           CASE status \in {"none", "not_started", "rolled_back"} -> "legacy_usd"
             [] status = "skipped_already_migrated"               -> "usdt"
             [] OTHER                                             -> "blocked"
      [] state = "in_progress" ->
           CASE status \in {"none", "not_started"}                    -> "legacy_usd"
             [] status \in {"complete", "skipped_already_migrated"}   -> "usdt"
             [] status \in {"failed", "requires_operator_review"}     -> "blocked"
             [] status \in ACTIVE_STATUSES                            -> "blocked"
             [] OTHER                                                 -> "legacy_usd"

=============================================================================
