------------------------- MODULE CashWalletMigration -------------------------
(***************************************************************************)
(* The migration of ONE account's cash wallet, as the batch workers of the  *)
(* cutover carry it out: the migration document in mongo, the two wallets   *)
(* and the Lightning invoices at IBEX, the account's default-wallet         *)
(* pointer, and any number of worker processes that run forward batches     *)
(* (run-batch) and rollback batches (rollback-batch) on it, crash, and are  *)
(* overtaken when their lock goes stale; the operator who requests          *)
(* rollbacks and retries; the user who pays and is paid.                    *)
(*                                                                          *)
(* Granularity.  Each database update (findOneAndUpdate) and each effect at *)
(* IBEX is one atomic step.  A read that the code performs just before an   *)
(* update is fused with it where no other actor's step in between could     *)
(* make a difference (the update then fails, or the other step commutes).   *)
(* The batch loop is seen from this migration: a process lists it, locks    *)
(* it, executes one step on its own copy of the document, and releases it.  *)
(***************************************************************************)
EXTENDS CutoverStatus, CutoverAmounts, FiniteSets

CONSTANTS
    Workers,             \* worker ids of the batch processes
    NoWorker,            \* lockedBy = null
    InvoiceIds,          \* 1..n: bounds how many invoices may be created
    LegacyBalances,      \* possible balances of the legacy wallet at the start
    UsdtBalances,        \* possible balances of the USDT wallet at the start
    LnFees,              \* what a Lightning payment may lose on its way
    Payments,            \* what the user may pay, or be paid by a third party
    DepositWallets,      \* the wallets a third party may pay to
    MinPayable,          \* CUTOVER_MIN_PAYABLE_USDT_MICROS
    MinFixedInvoice,     \* CUTOVER_MIN_FIXED_USDT_INVOICE_MICROS
    Tolerance,           \* ROLLBACK_SHORTFALL_TOLERANCE_USDT_MICROS
    StaleMeansDead,      \* TRUE: only the lock of a dead worker goes stale
    Bounds               \* how often each environment event may happen

Events == {"crash", "error", "ambiguous", "expire", "request", "retry", "deposit", "spend"}

ASSUME WorkersAssumption == NoWorker \notin Workers
ASSUME InvoiceIdsAssumption == InvoiceIds \subseteq Nat \ {0}
ASSUME AmountsAssumption ==
    /\ LegacyBalances \subseteq Nat
    /\ UsdtBalances \subseteq Nat
    /\ LnFees \subseteq Nat
    /\ Payments \subseteq Nat
    /\ DepositWallets \subseteq {"legacy", "usdt"}
    /\ MinPayable \in Nat \ {0}
    /\ MinFixedInvoice \in Nat
    /\ Tolerance \in Nat
    /\ StaleMeansDead \in BOOLEAN
    /\ Bounds \in [Events -> Nat]
\* 2500 and 10000 micros in the code.
ASSUME FeeLimitsAssumption == MinPayable <= MinFixedInvoice

VARIABLES
    mig,        \* the CashWalletMigration document
    proc,       \* each process: where it is, which batch it runs, its copy of mig
    bal,        \* balances of the two wallets at IBEX, in sub-micros
    default,    \* the account's defaultWalletId
    invoices,   \* the invoices IBEX has issued for this migration
    user,       \* the wallet a payment of the user was routed to, until it is made
    owed,       \* history: what the wallets would hold together but for the cutover
    left        \* how many more environment events of each kind may happen

vars == <<mig, proc, bal, default, invoices, user, owed, left>>
world == <<user, owed>>

-----------------------------------------------------------------------------
\* Data.

Wallets == {"legacy", "usdt"}
Undefined == -1                      \* an amount field that is not set
NoInvoice == 0                       \* an invoice or transaction id that is not set
Purposes == {"move", "fee", "reverse", "shortfall"}

Amounts == Nat \cup {Undefined}
Ids == InvoiceIds \cup {NoInvoice}

\* CashWalletMigrationRecord.  A payment request is represented by the id of
\* its invoice, a transaction id by the id of the invoice it paid.
Documents ==
    [status                       : MigrationStatuses,
     lockedBy                     : Workers \cup {NoWorker},
     lockStale                    : BOOLEAN,
     previousDefaultWalletId      : Wallets \cup {"unset"},
     sourceBalance                : Amounts,
     destinationAmount            : Amounts,
     destinationStartingBalance   : Amounts,
     feeAmount                    : Amounts,
     balanceMoveInvoice           : Ids,
     balanceMoveTransactionId     : Ids,
     feeInvoice                   : Ids,
     feeTransactionId             : Ids,
     rollbackPointerRestored      : BOOLEAN,
     rollbackInvoice              : Ids,
     rollbackTransactionId        : Ids,
     shortfallInvoice             : Ids,
     shortfallTransactionId       : Ids]

\* Places a process can be at: between two steps of its batch.
Pcs == {"idle", "listed", "execute",
        "pay_move", "record_move", "pay_fee", "record_fee", "record_flip",
        "record_restore", "reverse", "reverse_invoice", "pay_reverse", "record_reverse",
        "verify", "shortfall_invoice", "pay_shortfall", "record_shortfall",
        "release", "mark_failed"}

\* A process holds its copy of the document, and believes it holds the lock.
Executing == Pcs \ {"idle", "listed"}

Processes == [pc : Pcs, job : {"forward", "rollback"}, doc : Documents,
              amount : Amounts, seesStale : BOOLEAN]

Invoices == [purpose : Purposes \cup {"unused"}, expired : BOOLEAN, paid : BOOLEAN]

TypeOK ==
    /\ mig \in Documents
    /\ proc \in [Workers -> Processes]
    /\ bal \in [Wallets -> Nat]
    /\ default \in Wallets
    /\ invoices \in [InvoiceIds -> Invoices]
    /\ user \in Wallets \cup {"none"}
    /\ owed \in Int
    /\ left \in [Events -> Nat]

-----------------------------------------------------------------------------
\* upsertMigration on a plan: only accounts whose default is the legacy wallet
\* are planned, and the plan already carries that default.
UpsertedDocument ==
    [status                     |-> "not_started",
     lockedBy                   |-> NoWorker,
     lockStale                  |-> FALSE,
     previousDefaultWalletId    |-> "legacy",
     sourceBalance              |-> Undefined,
     destinationAmount          |-> Undefined,
     destinationStartingBalance |-> Undefined,
     feeAmount                  |-> Undefined,
     balanceMoveInvoice         |-> NoInvoice,
     balanceMoveTransactionId   |-> NoInvoice,
     feeInvoice                 |-> NoInvoice,
     feeTransactionId           |-> NoInvoice,
     rollbackPointerRestored    |-> FALSE,
     rollbackInvoice            |-> NoInvoice,
     rollbackTransactionId      |-> NoInvoice,
     shortfallInvoice           |-> NoInvoice,
     shortfallTransactionId     |-> NoInvoice]

IdleProcess == [pc |-> "idle", job |-> "forward", doc |-> UpsertedDocument,
                amount |-> Undefined, seesStale |-> FALSE]

Init ==
    /\ mig = UpsertedDocument
    /\ proc = [w \in Workers |-> IdleProcess]
    /\ bal \in [Wallets -> LegacyBalances \cup UsdtBalances]
    /\ bal["legacy"] \in LegacyBalances
    /\ bal["usdt"] \in UsdtBalances
    /\ default = "legacy"
    /\ invoices = [i \in InvoiceIds |->
                    [purpose |-> "unused", expired |-> FALSE, paid |-> FALSE]]
    /\ user = "none"
    /\ owed = bal["legacy"] + bal["usdt"]
    /\ left = Bounds

-----------------------------------------------------------------------------
\* Helpers of the steps.

At(w, job, pc) == proc[w].pc = pc /\ proc[w].job = job

GoTo(w, pc) == proc' = [proc EXCEPT ![w].pc = pc]

Fail(w) == GoTo(w, "mark_failed")

Happens(event) == left[event] > 0 /\ left' = [left EXCEPT ![event] = @ - 1]

\* transitionMigration: an update guarded by the status alone (not by the
\* lock).  The process continues at pc with the document it got back; when
\* nothing matches it has an error in hand.
transitionMigration(w, from, new, pc) ==
    \/ /\ mig.status = from
       /\ mig' = new
       /\ proc' = [proc EXCEPT ![w].pc = pc, ![w].doc = new]
    \/ /\ mig.status # from
       /\ Fail(w)
       /\ UNCHANGED mig

\* A forward step: legal in the state machine, then the guarded update.
ForwardTransition(w, to, new, pc) ==
    IF CanTransition(proc[w].doc.status, to)
    THEN transitionMigration(w, proc[w].doc.status, [new EXCEPT !.status = to], pc)
    ELSE Fail(w) /\ UNCHANGED mig

\* patchRollbackProgress: the update keeps the status.
patchRollbackProgress(w, new, pc) ==
    transitionMigration(w, "rollback_started", new, pc)

\* Expired, or so close to it that a payment would come too late.
isInvoicePaymentRequestStale(i) == invoices[i].expired

\* Too small for IBEX to pay: absorbed by the user.
isSubMinimumFeeReimbursementAmount(fee) == fee < MinPayable

\* Mutant: a fee is always reimbursed through an invoice without an amount.
AlwaysNoAmount(fee) == TRUE

\* Too small for an invoice with a fixed amount.
usesNoAmountFeeReimbursementInvoice(fee) == fee < MinFixedInvoice

\* IBEX issues the next invoice.
NewInvoice(i, purpose) ==
    /\ invoices[i].purpose = "unused"
    /\ \A j \in InvoiceIds : j < i => invoices[j].purpose # "unused"
    /\ invoices' = [invoices EXCEPT
            ![i] = [purpose |-> purpose, expired |-> FALSE, paid |-> FALSE]]

\* IBEX settles a payment: an invoice can be paid once, before it expires,
\* from a wallet that holds the amount.  What arrives is less the routing fee.
Payable(i) == ~invoices[i].expired /\ ~invoices[i].paid

Paid(i) == invoices' = [invoices EXCEPT ![i].paid = TRUE]

\* The outcome of payInvoice once it has settled: the process has the
\* transaction id, or an error although the money moved (a timeout, a response
\* without a transaction id).
SettledOutcome(w, pc) ==
    \/ GoTo(w, pc) /\ UNCHANGED left
    \/ Fail(w) /\ Happens("ambiguous")

-----------------------------------------------------------------------------
\* The batch runner, common to forward and rollback batches.

\* listRunnableMigrations / the rollback batch's work list has this migration.
\* lockStaleBefore is fixed when the batch starts: a lock that is not stale by
\* then, or is taken later, is not stale for this batch.
ListMigration(w, job) ==
    /\ proc[w].pc = "idle"
    /\ IF job = "forward" THEN mig.status \notin TERMINAL_STATUSES
                          ELSE mig.status = "rollback_started"
    /\ proc' = [proc EXCEPT ![w].pc = "listed", ![w].job = job, ![w].seesStale = mig.lockStale]
    /\ UNCHANGED <<mig, bal, default, invoices, left, world>>

\* Mutant: never takes over a stale lock.
AcquireOnlyFree(w) ==
    /\ proc[w].pc = "listed"
    /\ \/ /\ mig.lockedBy = NoWorker
          /\ mig' = [mig EXCEPT !.lockedBy = w, !.lockStale = FALSE]
          /\ proc' = [proc EXCEPT ![w].pc = "execute", ![w].doc = mig', ![w].seesStale = FALSE]
       \/ /\ mig.lockedBy # NoWorker
          /\ proc' = [proc EXCEPT ![w] = IdleProcess]
          /\ UNCHANGED mig
    /\ UNCHANGED <<bal, default, invoices, left, world>>

\* acquireMigrationLock looks at the lock only, not at the status; a migration
\* that cannot be locked is skipped.
AcquireMigrationLock(w) ==
    /\ proc[w].pc = "listed"
    /\ \/ /\ mig.lockedBy = NoWorker \/ proc[w].seesStale
          /\ mig' = [mig EXCEPT !.lockedBy = w, !.lockStale = FALSE]
          /\ proc' = [v \in Workers |->
                         IF v = w
                         THEN [proc[v] EXCEPT !.pc = "execute", !.doc = mig', !.seesStale = FALSE]
                         ELSE [proc[v] EXCEPT !.seesStale = FALSE]]
       \/ /\ mig.lockedBy # NoWorker /\ ~proc[w].seesStale
          /\ proc' = [proc EXCEPT ![w] = IdleProcess]
          /\ UNCHANGED mig
    /\ UNCHANGED <<bal, default, invoices, left, world>>

\* releaseMigrationLock: a no-op for a process whose lock was taken over.
ReleaseMigrationLock(w) ==
    /\ proc[w].pc = "release"
    /\ mig' = IF mig.lockedBy = w
              THEN [mig EXCEPT !.lockedBy = NoWorker, !.lockStale = FALSE]
              ELSE mig
    /\ proc' = [proc EXCEPT ![w] = IdleProcess]
    /\ UNCHANGED <<bal, default, invoices, left, world>>

\* Mutant: marks the migration failed also after losing the lock.
MarkFailedUnlocked(w) ==
    /\ proc[w].pc = "mark_failed"
    /\ mig' = [mig EXCEPT !.status = IF proc[w].job = "rollback"
                                     THEN "requires_operator_review"
                                     ELSE failureStatusForMigration(proc[w].doc.status),
                          !.lockedBy = NoWorker, !.lockStale = FALSE]
    /\ proc' = [proc EXCEPT ![w] = IdleProcess]
    /\ UNCHANGED <<bal, default, invoices, left, world>>

\* markMigrationFailed is guarded by the lock, not by the status.
MarkMigrationFailed(w) ==
    /\ proc[w].pc = "mark_failed"
    /\ mig' = IF mig.lockedBy = w
              THEN [mig EXCEPT !.status = IF proc[w].job = "rollback"
                                          THEN "requires_operator_review"
                                          ELSE failureStatusForMigration(proc[w].doc.status),
                               !.lockedBy = NoWorker, !.lockStale = FALSE]
              ELSE mig
    /\ proc' = [proc EXCEPT ![w] = IdleProcess]
    /\ UNCHANGED <<bal, default, invoices, left, world>>

\* Some call of the step (a read, an invoice, a payment IBEX refuses, an
\* update) returns an error without having had an effect.  The forward step
\* of a terminal migration makes no call.
StepFails(w) ==
    /\ proc[w].pc \in Executing \ {"release", "mark_failed"}
    /\ ~(At(w, "forward", "execute") /\ proc[w].doc.status \in TERMINAL_STATUSES)
    /\ Happens("error")
    /\ Fail(w)
    /\ UNCHANGED <<mig, bal, default, invoices, world>>

\* The process dies, or an exception (a thrown 429 after the last retry)
\* escapes the batch: its lock stays in the document.
Crash(w) ==
    /\ proc[w].pc \in Executing
    /\ Happens("crash")
    /\ proc' = [proc EXCEPT ![w] = IdleProcess]
    /\ UNCHANGED <<mig, bal, default, invoices, world>>

\* lockedAt falls behind the lockStaleBefore of a batch that would start now.
LockGoesStale ==
    /\ mig.lockedBy # NoWorker /\ ~mig.lockStale
    /\ StaleMeansDead => proc[mig.lockedBy].pc \notin Executing
    /\ mig' = [mig EXCEPT !.lockStale = TRUE]
    /\ UNCHANGED <<proc, bal, default, invoices, left, world>>

-----------------------------------------------------------------------------
\* The forward pipeline (handlers.ts, worker.ts): one step per status of the
\* process's copy of the document.

Step(w, status) == At(w, "forward", "execute") /\ proc[w].doc.status = status

\* executeCashWalletMigrationStep returns a terminal migration unchanged.
SkipTerminal(w) ==
    /\ At(w, "forward", "execute")
    /\ proc[w].doc.status \in TERMINAL_STATUSES
    /\ GoTo(w, "release")
    /\ UNCHANGED <<mig, bal, default, invoices, left, world>>

StartMigration(w) ==
    /\ Step(w, "not_started")
    /\ ForwardTransition(w, "started", mig, "release")
    /\ UNCHANGED <<bal, default, invoices, left, world>>

ProvisionDestination(w) ==
    /\ Step(w, "started")
    /\ ForwardTransition(w, "provisioned", mig, "release")
    /\ UNCHANGED <<bal, default, invoices, left, world>>

RecordBalance(w) ==
    /\ Step(w, "provisioned")
    /\ ForwardTransition(w, "balance_read",
            [mig EXCEPT !.sourceBalance = bal["legacy"],
                        !.destinationAmount = toMicrosRounded(bal["legacy"]),
                        !.destinationStartingBalance = toMicrosRounded(bal["usdt"])],
            "release")
    /\ UNCHANGED <<bal, default, invoices, left, world>>

CreateBalanceMoveInvoice(w) ==
    /\ Step(w, "balance_read") /\ proc[w].doc.destinationAmount # 0
    /\ \E i \in InvoiceIds :
         /\ NewInvoice(i, "move")
         /\ ForwardTransition(w, "invoice_created",
                [mig EXCEPT !.balanceMoveInvoice = i], "release")
    /\ UNCHANGED <<bal, default, left, world>>

\* sendCashWalletMigrationBalanceMovePayment up to the payment: the recorded
\* invoice is used if it is still payable for a while, else replaced.
PrepareBalanceMove(w) ==
    /\ Step(w, "invoice_created")
    /\ \/ /\ ~isInvoicePaymentRequestStale(proc[w].doc.balanceMoveInvoice)
          /\ GoTo(w, "pay_move")
          /\ UNCHANGED <<mig, invoices>>
       \/ /\ isInvoicePaymentRequestStale(proc[w].doc.balanceMoveInvoice)
          /\ \E i \in InvoiceIds :
               /\ NewInvoice(i, "move")
               /\ ForwardTransition(w, "invoice_created",
                      [mig EXCEPT !.balanceMoveInvoice = i], "pay_move")
    /\ UNCHANGED <<bal, default, left, world>>

\* Mutant: pays what the wallet still holds instead of the recorded balance.
PayWhatIsLeft(w) ==
    /\ At(w, "forward", "pay_move")
    /\ LET i == proc[w].doc.balanceMoveInvoice
           amount == bal["legacy"]
       IN  \/ /\ Payable(i)
              /\ \E fee \in LnFees :
                   /\ fee <= amount
                   /\ bal' = [bal EXCEPT !["legacy"] = 0, !["usdt"] = @ + amount - fee]
              /\ Paid(i)
              /\ SettledOutcome(w, "record_move")
           \/ /\ ~Payable(i)
              /\ Fail(w)
              /\ UNCHANGED <<bal, invoices, left>>
    /\ UNCHANGED <<mig, default, world>>

\* Mutant: records the payment without making it.
PayOrPretend(w) ==
    /\ At(w, "forward", "pay_move")
    /\ GoTo(w, "record_move")
    /\ UNCHANGED <<mig, bal, invoices, left, default, world>>

\* The whole recorded balance leaves the legacy wallet.
PayBalanceMove(w) ==
    /\ At(w, "forward", "pay_move")
    /\ LET i == proc[w].doc.balanceMoveInvoice
           amount == proc[w].doc.sourceBalance
           accepted == Payable(i) /\ bal["legacy"] >= amount
       IN  \/ /\ accepted
              /\ \E fee \in LnFees :
                   /\ fee <= amount
                   /\ bal' = [bal EXCEPT !["legacy"] = @ - amount,
                                         !["usdt"] = @ + amount - fee]
              /\ Paid(i)
              /\ SettledOutcome(w, "record_move")
           \/ /\ ~accepted
              /\ Fail(w)
              /\ UNCHANGED <<bal, invoices, left>>
    /\ UNCHANGED <<mig, default, world>>

\* Mutant: moves on without storing the transaction id.
RecordNoMove(w) ==
    /\ At(w, "forward", "record_move")
    /\ ForwardTransition(w, "balance_move_sending", mig, "release")
    /\ UNCHANGED <<bal, default, invoices, left, world>>

RecordBalanceMove(w) ==
    /\ At(w, "forward", "record_move")
    /\ ForwardTransition(w, "balance_move_sending",
            [mig EXCEPT !.balanceMoveTransactionId = proc[w].doc.balanceMoveInvoice],
            "release")
    /\ UNCHANGED <<bal, default, invoices, left, world>>

MarkBalanceMoveSent(w) ==
    /\ Step(w, "balance_move_sending")
    /\ IF proc[w].doc.balanceMoveTransactionId # NoInvoice
       THEN ForwardTransition(w, "balance_move_sent", mig, "release")
       ELSE Fail(w) /\ UNCHANGED mig
    /\ UNCHANGED <<bal, default, invoices, left, world>>

VerifyBalanceMove(w) ==
    /\ Step(w, "balance_move_sent")
    /\ IF /\ proc[w].doc.balanceMoveTransactionId # NoInvoice
          /\ hasOnlySubMicroMajorUnitDust(bal["legacy"])
       THEN ForwardTransition(w, "balance_move_verified", mig, "release")
       ELSE Fail(w) /\ UNCHANGED mig
    /\ UNCHANGED <<bal, default, invoices, left, world>>

\* readFeeAmountUsdtMicros, then skip a fee too small to pay or invoice it.
\* The stored fee decides again, at the payment, which kind of invoice it is.
ReadFee(w) ==
    /\ Step(w, "balance_move_verified")
    /\ LET fee == destinationShortfallUsdtMicros(proc[w].doc.destinationAmount,
                      proc[w].doc.destinationStartingBalance, toMicrosRounded(bal["usdt"]))
       IN  \/ /\ isSubMinimumFeeReimbursementAmount(fee)
              /\ ForwardTransition(w, "fee_reimbursed",
                     [mig EXCEPT !.feeAmount = fee], "release")
              /\ UNCHANGED invoices
           \/ /\ ~isSubMinimumFeeReimbursementAmount(fee)
              /\ \E i \in InvoiceIds :
                   /\ NewInvoice(i, "fee")
                   /\ ForwardTransition(w, "fee_reimbursement_invoice_created",
                          [mig EXCEPT !.feeAmount = fee, !.feeInvoice = i], "release")
    /\ UNCHANGED <<bal, default, left, world>>

\* Mutant: a new invoice for every attempt to pay the fee.
PrepareFreshFee(w) ==
    /\ Step(w, "fee_reimbursement_invoice_created")
    /\ \E i \in InvoiceIds :
         /\ NewInvoice(i, "fee")
         /\ ForwardTransition(w, "fee_reimbursement_invoice_created",
                [mig EXCEPT !.feeInvoice = i], "pay_fee")
    /\ UNCHANGED <<bal, default, left, world>>

PrepareFee(w) ==
    /\ Step(w, "fee_reimbursement_invoice_created")
    /\ \/ /\ ~isInvoicePaymentRequestStale(proc[w].doc.feeInvoice)
          /\ GoTo(w, "pay_fee")
          /\ UNCHANGED <<mig, invoices>>
       \/ /\ isInvoicePaymentRequestStale(proc[w].doc.feeInvoice)
          /\ \E i \in InvoiceIds :
               /\ NewInvoice(i, "fee")
               /\ ForwardTransition(w, "fee_reimbursement_invoice_created",
                      [mig EXCEPT !.feeInvoice = i], "pay_fee")
    /\ UNCHANGED <<bal, default, left, world>>

\* The treasury pays.  A fixed-amount invoice delivers its amount; a small fee
\* goes out as a no-amount invoice, and loses the routing fee.
PayFee(w) ==
    /\ At(w, "forward", "pay_fee")
    /\ LET i == proc[w].doc.feeInvoice
           amount == proc[w].doc.feeAmount * SubPerMicro
       IN  \/ /\ Payable(i)
              /\ \E fee \in IF usesNoAmountFeeReimbursementInvoice(proc[w].doc.feeAmount)
                            THEN LnFees ELSE {0} :
                   /\ fee <= amount
                   /\ bal' = [bal EXCEPT !["usdt"] = @ + amount - fee]
              /\ Paid(i)
              /\ SettledOutcome(w, "record_fee")
           \/ /\ ~Payable(i)
              /\ Fail(w)
              /\ UNCHANGED <<bal, invoices, left>>
    /\ UNCHANGED <<mig, default, world>>

RecordFee(w) ==
    /\ At(w, "forward", "record_fee")
    /\ ForwardTransition(w, "fee_reimbursement_sending",
            [mig EXCEPT !.feeTransactionId = proc[w].doc.feeInvoice], "release")
    /\ UNCHANGED <<bal, default, invoices, left, world>>

MarkFeeReimbursed(w) ==
    /\ Step(w, "fee_reimbursement_sending")
    /\ IF proc[w].doc.feeTransactionId # NoInvoice
       THEN ForwardTransition(w, "fee_reimbursed", mig, "release")
       ELSE Fail(w) /\ UNCHANGED mig
    /\ UNCHANGED <<bal, default, invoices, left, world>>

\* Mutant: reports the flip without saving the account.
FlipNothing(w) ==
    /\ \/ Step(w, "balance_read") /\ proc[w].doc.destinationAmount = 0
       \/ Step(w, "fee_reimbursed")
    /\ proc' = [proc EXCEPT ![w].pc = "record_flip",
                            ![w].doc.previousDefaultWalletId = default]
    /\ UNCHANGED <<mig, default, bal, invoices, left, world>>

\* flipDefaultWallet reports the default it replaced; the process keeps it in
\* its copy until RecordFlip writes it.  An empty wallet is flipped at once.
FlipDefaultPointer(w) ==
    /\ \/ Step(w, "balance_read") /\ proc[w].doc.destinationAmount = 0
       \/ Step(w, "fee_reimbursed")
    /\ default' = "usdt"
    /\ proc' = [proc EXCEPT ![w].pc = "record_flip",
                            ![w].doc.previousDefaultWalletId = default]
    /\ UNCHANGED <<mig, bal, invoices, left, world>>

RecordFlip(w) ==
    /\ At(w, "forward", "record_flip")
    /\ ForwardTransition(w, "pointer_flipped",
            [mig EXCEPT !.previousDefaultWalletId = proc[w].doc.previousDefaultWalletId],
            "release")
    /\ UNCHANGED <<bal, default, invoices, left, world>>

VerifyLegacyZero(w) ==
    /\ Step(w, "pointer_flipped")
    /\ IF hasOnlySubMicroMajorUnitDust(bal["legacy"])
       THEN ForwardTransition(w, "legacy_zero_verified", mig, "release")
       ELSE Fail(w) /\ UNCHANGED mig
    /\ UNCHANGED <<bal, default, invoices, left, world>>

CompleteMigration(w) ==
    /\ Step(w, "legacy_zero_verified")
    /\ ForwardTransition(w, "complete", mig, "release")
    /\ UNCHANGED <<bal, default, invoices, left, world>>

-----------------------------------------------------------------------------
\* executeCashWalletMigrationRollbackStep, one await with an effect at a time.

\* The lock does not look at the status: the migration may have left
\* rollback_started since it was listed.
RollbackWrongStatus(w) ==
    /\ At(w, "rollback", "execute")
    /\ proc[w].doc.status # "rollback_started"
    /\ Fail(w)
    /\ UNCHANGED <<mig, bal, default, invoices, left, world>>

\* Mutant: goes on to the reverse payment without recording the restored pointer.
RestoreUnrecorded(w) ==
    /\ At(w, "rollback", "execute")
    /\ proc[w].doc.status = "rollback_started"
    /\ default' = IF default = "usdt" THEN proc[w].doc.previousDefaultWalletId ELSE default
    /\ GoTo(w, "reverse")
    /\ UNCHANGED <<mig, bal, invoices, left, world>>

RestorePointer(w) ==
    /\ At(w, "rollback", "execute")
    /\ proc[w].doc.status = "rollback_started"
    /\ \/ /\ ~proc[w].doc.rollbackPointerRestored
          /\ default' = IF default = "usdt" /\ proc[w].doc.previousDefaultWalletId # "unset"
                       THEN proc[w].doc.previousDefaultWalletId
                       ELSE default
          /\ GoTo(w, "record_restore")
       \/ /\ proc[w].doc.rollbackPointerRestored
          /\ GoTo(w, "reverse")
          /\ UNCHANGED default
    /\ UNCHANGED <<mig, bal, invoices, left, world>>

RecordRestore(w) ==
    /\ At(w, "rollback", "record_restore")
    /\ patchRollbackProgress(w, [mig EXCEPT !.rollbackPointerRestored = TRUE], "reverse")
    /\ UNCHANGED <<bal, default, invoices, left, world>>

forwardMovedFunds(doc) == doc.balanceMoveTransactionId # NoInvoice

\* The amount to send back: what the USDT wallet can spend, at most the amount
\* the forward move aimed at.  Too far short of it, or too small to pay: fail.
ReadReverseAmount(w) ==
    /\ At(w, "rollback", "reverse")
    /\ LET doc == proc[w].doc
           target == doc.destinationAmount
           spendable == toMicrosFloored(bal["usdt"])
           amount == IF spendable < target THEN spendable ELSE target
       IN  CASE ~forwardMovedFunds(doc) \/ doc.rollbackTransactionId # NoInvoice \/ target = 0 ->
                    GoTo(w, "verify")
             [] OTHER ->
                    IF target = Undefined \/ target - amount > Tolerance \/ amount < MinPayable
                    THEN Fail(w)
                    ELSE proc' = [proc EXCEPT ![w].pc = "reverse_invoice", ![w].amount = amount]
    /\ UNCHANGED <<mig, bal, default, invoices, left, world>>

EnsureReverseInvoice(w) ==
    /\ At(w, "rollback", "reverse_invoice")
    /\ LET old == proc[w].doc.rollbackInvoice
           usable == old # NoInvoice /\ ~isInvoicePaymentRequestStale(old)
       IN  \/ /\ usable
              /\ GoTo(w, "pay_reverse")
              /\ UNCHANGED <<mig, invoices>>
           \/ /\ ~usable
              /\ \E i \in InvoiceIds :
                   /\ NewInvoice(i, "reverse")
                   /\ patchRollbackProgress(w, [mig EXCEPT !.rollbackInvoice = i], "pay_reverse")
    /\ UNCHANGED <<bal, default, left, world>>

PayReverse(w) ==
    /\ At(w, "rollback", "pay_reverse")
    /\ LET i == proc[w].doc.rollbackInvoice
           amount == proc[w].amount * SubPerMicro
           accepted == Payable(i) /\ bal["usdt"] >= amount
       IN  \/ /\ accepted
              /\ \E fee \in LnFees :
                   /\ fee <= amount
                   /\ bal' = [bal EXCEPT !["usdt"] = @ - amount,
                                         !["legacy"] = @ + amount - fee]
              /\ Paid(i)
              /\ SettledOutcome(w, "record_reverse")
           \/ /\ ~accepted
              /\ Fail(w)
              /\ UNCHANGED <<bal, invoices, left>>
    /\ UNCHANGED <<mig, default, world>>

RecordReverse(w) ==
    /\ At(w, "rollback", "record_reverse")
    /\ patchRollbackProgress(w,
            [mig EXCEPT !.rollbackTransactionId = proc[w].doc.rollbackInvoice], "verify")
    /\ UNCHANGED <<bal, default, invoices, left, world>>

\* Mutant: finalizes without comparing the legacy wallet with what it held.
FinalizeUnverified(w) ==
    /\ At(w, "rollback", "verify")
    /\ transitionMigration(w, "rollback_started", [mig EXCEPT !.status = "rolled_back"], "release")
    /\ UNCHANGED <<bal, default, invoices, left, world>>

\* Mutant: tops up as often as the wallet is found short.
TopUpAgain(w) ==
    /\ At(w, "rollback", "verify")
    /\ LET shortfall == legacyShortfallUsdtMicros(proc[w].doc.sourceBalance, bal["legacy"])
           short == forwardMovedFunds(proc[w].doc) /\ shortfall > Tolerance
       IN  \/ /\ ~short
              /\ transitionMigration(w, "rollback_started",
                     [mig EXCEPT !.status = "rolled_back"], "release")
           \/ /\ short
              /\ proc' = [proc EXCEPT ![w].pc = "shortfall_invoice", ![w].amount = shortfall,
                                      ![w].doc.shortfallInvoice = NoInvoice]
              /\ UNCHANGED mig
    /\ UNCHANGED <<bal, default, invoices, left, world>>

\* Whole up to the tolerance: finalize.  Else one top-up by the treasury.
VerifyRollback(w) ==
    /\ At(w, "rollback", "verify")
    /\ LET doc == proc[w].doc
           shortfall == legacyShortfallUsdtMicros(doc.sourceBalance, bal["legacy"])
           short == forwardMovedFunds(doc) /\ shortfall > Tolerance
           cannotTell == forwardMovedFunds(doc) /\ doc.sourceBalance = Undefined
       IN  \/ /\ ~cannotTell /\ ~short
              /\ transitionMigration(w, "rollback_started",
                     [mig EXCEPT !.status = "rolled_back"], "release")
           \/ /\ ~cannotTell /\ short /\ doc.shortfallTransactionId = NoInvoice
              /\ proc' = [proc EXCEPT ![w].pc = "shortfall_invoice", ![w].amount = shortfall]
              /\ UNCHANGED mig
           \/ /\ cannotTell \/ (short /\ doc.shortfallTransactionId # NoInvoice)
              /\ Fail(w)
              /\ UNCHANGED mig
    /\ UNCHANGED <<bal, default, invoices, left, world>>

EnsureShortfallInvoice(w) ==
    /\ At(w, "rollback", "shortfall_invoice")
    /\ LET old == proc[w].doc.shortfallInvoice
           usable == old # NoInvoice /\ ~isInvoicePaymentRequestStale(old)
       IN  \/ /\ usable
              /\ GoTo(w, "pay_shortfall")
              /\ UNCHANGED <<mig, invoices>>
           \/ /\ ~usable
              /\ \E i \in InvoiceIds :
                   /\ NewInvoice(i, "shortfall")
                   /\ patchRollbackProgress(w, [mig EXCEPT !.shortfallInvoice = i],
                                            "pay_shortfall")
    /\ UNCHANGED <<bal, default, left, world>>

\* The treasury pays.
PayShortfall(w) ==
    /\ At(w, "rollback", "pay_shortfall")
    /\ LET i == proc[w].doc.shortfallInvoice
           amount == proc[w].amount * SubPerMicro
       IN  \/ /\ Payable(i)
              /\ \E fee \in LnFees :
                   /\ fee <= amount
                   /\ bal' = [bal EXCEPT !["legacy"] = @ + amount - fee]
              /\ Paid(i)
              /\ SettledOutcome(w, "record_shortfall")
           \/ /\ ~Payable(i)
              /\ Fail(w)
              /\ UNCHANGED <<bal, invoices, left>>
    /\ UNCHANGED <<mig, default, world>>

\* The migration stays in rollback_started; the next batch verifies again.
RecordShortfall(w) ==
    /\ At(w, "rollback", "record_shortfall")
    /\ patchRollbackProgress(w,
            [mig EXCEPT !.shortfallTransactionId = proc[w].doc.shortfallInvoice], "release")
    /\ UNCHANGED <<bal, default, invoices, left, world>>

-----------------------------------------------------------------------------
\* The operator.  Neither command takes the migration's lock.

\* Mutant: a request starts the rollback from the beginning.
RequestAfresh ==
    /\ mig.status \in ROLLBACKABLE_STATUSES
    /\ Happens("request")
    /\ mig' = [mig EXCEPT !.status = "rollback_started", !.rollbackPointerRestored = FALSE,
                          !.rollbackInvoice = NoInvoice, !.rollbackTransactionId = NoInvoice]
    /\ UNCHANGED <<proc, bal, default, invoices, world>>

\* requestPrimaryCashWalletRollback for this migration.
RequestRollback ==
    /\ mig.status \in ROLLBACKABLE_STATUSES
    /\ Happens("request")
    /\ mig' = [mig EXCEPT !.status = "rollback_started"]
    /\ UNCHANGED <<proc, bal, default, invoices, world>>

\* retryFailedCashWalletMigrations for this migration.
RetryFailed ==
    /\ mig.status = "failed"
    /\ mig.balanceMoveTransactionId = NoInvoice /\ mig.feeTransactionId = NoInvoice
    /\ Happens("retry")
    /\ mig' = IF mig.previousDefaultWalletId # "unset"
              THEN [mig EXCEPT !.status = "pointer_flipped"]
              ELSE [mig EXCEPT !.status = "not_started",
                               !.sourceBalance = Undefined, !.destinationAmount = Undefined,
                               !.destinationStartingBalance = Undefined,
                               !.feeAmount = Undefined,
                               !.balanceMoveInvoice = NoInvoice, !.feeInvoice = NoInvoice]
    /\ UNCHANGED <<proc, bal, default, invoices, world>>

-----------------------------------------------------------------------------
\* The user, third parties, time.  The cutover as a whole is in progress.

\* A request is routed when it arrives, and paid some awaits later.
RoutePayment ==
    /\ user = "none"
    /\ Happens("spend")
    /\ \/ Guard("in_progress", mig.status) = "legacy_usd" /\ user' = "legacy"
       \/ Guard("in_progress", mig.status) = "usdt" /\ user' = "usdt"
    /\ UNCHANGED <<mig, proc, bal, default, invoices, owed>>

MakePayment ==
    /\ user # "none"
    /\ \E a \in Payments :
         LET paid == IF a <= bal[user] THEN a ELSE 0 IN
         /\ bal' = [bal EXCEPT ![user] = @ - paid]
         /\ owed' = owed - paid
    /\ user' = "none"
    /\ UNCHANGED <<mig, proc, default, invoices, left>>

ReceivePayment ==
    /\ Happens("deposit")
    /\ \E a \in Payments, wallet \in DepositWallets :
         /\ bal' = [bal EXCEPT ![wallet] = @ + a]
         /\ owed' = owed + a
    /\ UNCHANGED <<mig, proc, default, invoices, user>>

\* An invoice passes its expiry (less the safety window of the staleness check).
InvoiceExpires(i) ==
    /\ invoices[i].purpose # "unused" /\ ~invoices[i].expired
    /\ Happens("expire")
    /\ invoices' = [invoices EXCEPT ![i].expired = TRUE]
    /\ UNCHANGED <<mig, proc, bal, default, world>>

-----------------------------------------------------------------------------

RunnerStep(w) ==
    \/ \E job \in {"forward", "rollback"} : ListMigration(w, job)
    \/ AcquireMigrationLock(w)
    \/ ReleaseMigrationLock(w)
    \/ MarkMigrationFailed(w)

ForwardStep(w) ==
    \/ SkipTerminal(w) \/ StartMigration(w) \/ ProvisionDestination(w) \/ RecordBalance(w)
    \/ CreateBalanceMoveInvoice(w) \/ PrepareBalanceMove(w) \/ PayBalanceMove(w)
    \/ RecordBalanceMove(w) \/ MarkBalanceMoveSent(w) \/ VerifyBalanceMove(w)
    \/ ReadFee(w) \/ PrepareFee(w) \/ PayFee(w) \/ RecordFee(w) \/ MarkFeeReimbursed(w)
    \/ FlipDefaultPointer(w) \/ RecordFlip(w) \/ VerifyLegacyZero(w) \/ CompleteMigration(w)

RollbackStep(w) ==
    \/ RollbackWrongStatus(w) \/ RestorePointer(w) \/ RecordRestore(w)
    \/ ReadReverseAmount(w) \/ EnsureReverseInvoice(w) \/ PayReverse(w) \/ RecordReverse(w)
    \/ VerifyRollback(w) \/ EnsureShortfallInvoice(w) \/ PayShortfall(w) \/ RecordShortfall(w)

WorkerStep(w) == RunnerStep(w) \/ ForwardStep(w) \/ RollbackStep(w)

Environment ==
    \/ LockGoesStale
    \/ RequestRollback
    \/ RetryFailed
    \/ RoutePayment
    \/ MakePayment
    \/ ReceivePayment
    \/ \E i \in InvoiceIds : InvoiceExpires(i)

Next ==
    \/ \E w \in Workers : WorkerStep(w) \/ StepFails(w) \/ Crash(w)
    \/ Environment

Spec == Init /\ [][Next]_vars

\* The operator keeps running batches until none is left to do, a process that
\* has not died takes its next step, and a lock grows old.
Fairness ==
    /\ \A w \in Workers : WF_vars(WorkerStep(w))
    /\ WF_vars(LockGoesStale)

FairSpec == Spec /\ Fairness

-----------------------------------------------------------------------------
\* Properties.

\* A process executing a step on its copy of the document holds the lock in
\* mongo, so two processes never execute at once: acquireMigrationLock,
\* releaseMigrationLock and markMigrationFailed keep this over crashes and
\* stale locks, as long as only the lock of a dead process goes stale.
LockExclusive ==
    StaleMeansDead => \A w \in Workers : proc[w].pc \in Executing => mig.lockedBy = w

paidFor(purpose) ==
    {i \in InvoiceIds : invoices[i].purpose = purpose /\ invoices[i].paid}

\* The document's record of a payment of each kind.
transactionOf(doc, kind) ==
    CASE kind = "move"      -> doc.balanceMoveTransactionId
      [] kind = "fee"       -> doc.feeTransactionId
      [] kind = "reverse"   -> doc.rollbackTransactionId
      [] kind = "shortfall" -> doc.shortfallTransactionId

\* A transaction id in the document names an invoice of its own kind that IBEX
\* has settled, whatever was refreshed, retried or overtaken in between.
RecordedMeansPaid ==
    \A kind \in Purposes : transactionOf(mig, kind) \in paidFor(kind) \cup {NoInvoice}

\* Money leaves the treasury, or goes back, only on top of a recorded forward
\* move: fee reimbursement, reverse and top-up never precede it.
MoveComesFirst ==
    paidFor("fee") \cup paidFor("reverse") \cup paidFor("shortfall") # {}
        => mig.balanceMoveTransactionId # NoInvoice

\* A transaction id, once recorded, stays: no later step, retry or rollback of
\* the code overwrites or clears it.
RecordedIdsStay ==
    [][\A kind \in Purposes : transactionOf(mig, kind) # NoInvoice =>
           transactionOf(mig', kind) = transactionOf(mig, kind)]_vars

\* Once a rollback has begun to undo the migration (the pointer is restored, or
\* money went back), no retry and no forward worker that was already running
\* takes the migration forward again.
RollbackIsOneWay ==
    mig.rollbackPointerRestored \/ mig.rollbackTransactionId # NoInvoice =>
        mig.status \in {"rollback_started", "rolled_back", "requires_operator_review"}

\* While a process is between deciding on a payment and recording it, the guard
\* routes no new payment of the user to either wallet.
BlockedWhilePaying ==
    StaleMeansDead =>
        \A w \in Workers :
            proc[w].pc \in {"pay_move", "record_move", "pay_fee", "record_fee",
                            "pay_reverse", "record_reverse",
                            "pay_shortfall", "record_shortfall"}
                => Guard("in_progress", mig.status) = "blocked"

\* The balance moves once, although a crash or a timeout after the payment
\* loses the transaction id and a new invoice replaces an expired one.
MoveOnce == Cardinality(paidFor("move")) <= 1

\* The treasury reimburses the fee once, although two live processes may be at
\* pay_fee with the same invoice.
FeeOnce == Cardinality(paidFor("fee")) <= 1

\* A rollback is topped up by the treasury once, although it is verified again
\* after the top-up, may be requested again after a review, and the user may
\* spend from the wallet in between; as long as no invoice expires between a
\* lost answer and the next attempt.
ShortfallOnce == Cardinality(paidFor("shortfall")) <= 1

Settled == {"complete", "failed", "requires_operator_review", "rolled_back"}

holdings == bal["legacy"] + bal["usdt"]

\* A completed migration whose move is recorded has cost the user less than a
\* micro more than the smallest fee that is reimbursed exactly: a larger one
\* came back in full, but for the roundings of the three balances read.
CompleteIsWhole ==
    mig.status = "complete" /\ forwardMovedFunds(mig) =>
        holdings + (MinFixedInvoice + 1) * SubPerMicro > owed

\* A rolled back migration whose move is recorded has put back into the legacy
\* wallet what the user is owed beyond what the USDT wallet started with, up to
\* the tolerance and the roundings, over all payments and fees of both
\* directions.
RolledBackIsWhole ==
    mig.status = "rolled_back" /\ forwardMovedFunds(mig) =>
        bal["legacy"] + (Tolerance + mig.destinationStartingBalance + 2) * SubPerMicro > owed

\* A migration that completes with its move recorded has set the account's default
\* to the USDT wallet, and no restoration has undone that since. Without a recorded
\* move it need not have: a failed migration of an empty account is retried at
\* pointer_flipped although nothing was flipped, since the plan filled in
\* previousDefaultWalletId, and completes with the default on the legacy wallet.
CompletePointsToUsdt ==
    mig.status = "complete" /\ forwardMovedFunds(mig) => default = "usdt"

\* What the treasury has paid for the fee of the move beyond the first time.
repaidFees ==
    LET times == Cardinality(paidFor("fee"))
    IN  IF times > 1 THEN (times - 1) * mig.feeAmount * SubPerMicro ELSE 0

\* The migration gives the user no more than they are owed, but for the tolerance
\* and dust, over the fee read from the balances, the payments back and the
\* top-up; and for a fee that is paid again because its invoice expired between
\* the payment and its record. (The user does nothing meanwhile.)
TreasuryExposure == holdings <= owed + (Tolerance + 3) * SubPerMicro + repaidFees

\* Whatever fails, a migration comes to rest: complete, rolled back, or failed
\* and waiting for the operator.
ComesToRest == mig.status \notin Settled ~> mig.status \in Settled

-----------------------------------------------------------------------------
\* The migration implements MigrationLedger.

paidKinds == {kind \in Purposes : paidFor(kind) # {}}

recordedKinds == {kind \in Purposes : transactionOf(mig, kind) # NoInvoice}

Ledger == INSTANCE MigrationLedger WITH
    paid <- paidKinds, recorded <- recordedKinds, undoing <- mig.rollbackPointerRestored

\* Whatever crashes, is retried or rolled back, the payments of the migration
\* and their records happen in the order MigrationLedger allows, and once the
\* rollback has restored the pointer no forward payment is made or recorded.
ImplementsLedger == Ledger!LedgerSpec

=============================================================================
