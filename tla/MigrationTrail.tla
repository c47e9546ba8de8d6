--------------------------- MODULE MigrationTrail ----------------------------
(***************************************************************************)
(* The inductive invariants behind the theorems about CashWalletMigration:  *)
(* how the trail of invoices and transaction ids in the document, and in    *)
(* every process's copy of it, relates to the invoices at IBEX; who may     *)
(* hold the lock; and what cannot happen any more once a rollback has       *)
(* begun.                                                                   *)
(***************************************************************************)
EXTENDS CashWalletMigration

\* The lock: a process that executes holds it, nobody executes under a stale
\* lock, and nobody who saw a stale lock finds its owner executing.
LockInv ==
    StaleMeansDead =>
        \A w \in Workers : proc[w].pc \in Executing =>
            /\ mig.lockedBy = w
            /\ ~mig.lockStale
            /\ \A v \in Workers : ~proc[v].seesStale

-----------------------------------------------------------------------------
\* The trail.

Issued(inv, purpose) == {i \in InvoiceIds : inv[i].purpose = purpose}
PaidOf(inv, purpose) == {i \in InvoiceIds : inv[i].purpose = purpose /\ inv[i].paid}

\* The statuses in which the move cannot be recorded yet, and the ones which are
\* reached only through its record.
BeforeMove == PreMoneyStatuses \cup {"invoice_created"}
BeforeFee == {"balance_move_sending", "balance_move_sent", "balance_move_verified",
              "fee_reimbursement_invoice_created"}
AfterMove == BeforeFee \cup {"fee_reimbursement_sending"}

DocOK(d, inv) ==
    /\ d.balanceMoveInvoice \in Issued(inv, "move") \cup {NoInvoice}
    /\ d.feeInvoice \in Issued(inv, "fee") \cup {NoInvoice}
    /\ d.rollbackInvoice \in Issued(inv, "reverse") \cup {NoInvoice}
    /\ d.shortfallInvoice \in Issued(inv, "shortfall") \cup {NoInvoice}
    /\ d.balanceMoveTransactionId \in PaidOf(inv, "move") \cup {NoInvoice}
    /\ d.feeTransactionId \in PaidOf(inv, "fee") \cup {NoInvoice}
    /\ d.rollbackTransactionId \in PaidOf(inv, "reverse") \cup {NoInvoice}
    /\ d.shortfallTransactionId \in PaidOf(inv, "shortfall") \cup {NoInvoice}
    /\ d.status = "invoice_created" => d.balanceMoveInvoice # NoInvoice
    /\ d.status = "fee_reimbursement_invoice_created" => d.feeInvoice # NoInvoice
    /\ d.status \in BeforeMove => d.balanceMoveTransactionId = NoInvoice
    /\ d.status \in AfterMove => d.balanceMoveTransactionId # NoInvoice
    /\ d.status \in BeforeMove \cup BeforeFee => d.feeTransactionId = NoInvoice

ReversePcs == {"reverse_invoice", "pay_reverse", "record_reverse"}
TopUpPcs == {"shortfall_invoice", "pay_shortfall", "record_shortfall"}
UndoPcs == {"reverse", "verify"} \cup ReversePcs \cup TopUpPcs

\* Where a process is says what its copy of the document holds.
ProcOK(p, inv) ==
    /\ DocOK(p.doc, inv)
    /\ p.pc \in {"pay_move", "record_move"} => p.doc.status = "invoice_created"
    /\ p.pc \in {"pay_fee", "record_fee"} => p.doc.status = "fee_reimbursement_invoice_created"
    /\ p.pc = "record_flip" => p.doc.status \in {"balance_read", "fee_reimbursed"}
    /\ p.pc \in UndoPcs \cup {"record_restore"} => p.doc.status = "rollback_started"
    /\ p.pc \in ReversePcs \cup TopUpPcs => p.doc.balanceMoveTransactionId # NoInvoice
    /\ p.pc \in {"pay_reverse", "record_reverse"} => p.doc.rollbackInvoice # NoInvoice
    /\ p.pc \in {"pay_shortfall", "record_shortfall"} => p.doc.shortfallInvoice # NoInvoice
    /\ p.pc = "record_move" => p.doc.balanceMoveInvoice \in PaidOf(inv, "move")
    /\ p.pc = "record_fee" => p.doc.feeInvoice \in PaidOf(inv, "fee")
    /\ p.pc = "record_reverse" => p.doc.rollbackInvoice \in PaidOf(inv, "reverse")
    /\ p.pc = "record_shortfall" => p.doc.shortfallInvoice \in PaidOf(inv, "shortfall")

Trail ==
    /\ DocOK(mig, invoices)
    /\ \A w \in Workers : ProcOK(proc[w], invoices)
    /\ \A w \in Workers : proc[w].doc.balanceMoveTransactionId # NoInvoice =>
                              mig.balanceMoveTransactionId # NoInvoice
    /\ MoveComesFirst

-----------------------------------------------------------------------------
\* The rollback.

UndoStatuses == {"rollback_started", "rolled_back", "requires_operator_review"}

\* A rollback has left its mark, or a process is at work on one.
Begun ==
    \/ mig.rollbackPointerRestored
    \/ mig.rollbackTransactionId # NoInvoice
    \/ \E w \in Workers : /\ proc[w].pc \in Executing /\ proc[w].job = "rollback"
                          /\ proc[w].doc.status = "rollback_started"

\* From then on the lock is in no forward process's hands that could still act.
OneWay ==
    /\ \A w \in Workers :
          /\ proc[w].pc = "mark_failed" /\ proc[w].job = "forward" =>
                 proc[w].doc.status \notin TERMINAL_STATUSES
          /\ proc[w].pc \in {"pay_move", "record_move", "pay_fee", "record_fee", "record_flip"} =>
                 proc[w].job = "forward"
          /\ proc[w].pc \in UndoPcs \cup {"record_restore"} => proc[w].job = "rollback"
          /\ proc[w].pc \in UndoPcs \/ proc[w].doc.rollbackPointerRestored =>
                 mig.rollbackPointerRestored
    /\ Begun =>
          /\ mig.status \in UndoStatuses
          /\ \A w \in Workers :
                 mig.lockedBy = w /\ proc[w].pc \in Executing /\ proc[w].job = "forward" =>
                     proc[w].doc.status \in TERMINAL_STATUSES

\* Two documents that agree on everything but status, lock and default wallet.
SameContents(d, e) ==
    /\ d.sourceBalance = e.sourceBalance
    /\ d.destinationAmount = e.destinationAmount
    /\ d.destinationStartingBalance = e.destinationStartingBalance
    /\ d.feeAmount = e.feeAmount
    /\ d.balanceMoveInvoice = e.balanceMoveInvoice
    /\ d.balanceMoveTransactionId = e.balanceMoveTransactionId
    /\ d.feeInvoice = e.feeInvoice
    /\ d.feeTransactionId = e.feeTransactionId
    /\ d.rollbackPointerRestored = e.rollbackPointerRestored
    /\ d.rollbackInvoice = e.rollbackInvoice
    /\ d.rollbackTransactionId = e.rollbackTransactionId
    /\ d.shortfallInvoice = e.shortfallInvoice
    /\ d.shortfallTransactionId = e.shortfallTransactionId

\* Under the lock, the executing process's copy is up to date: nobody else has
\* written the document, but for the operator, who moves the status only.  (A
\* plan carries the default wallet, so a retry never resets the document.)
UpToDate ==
    /\ mig.previousDefaultWalletId # "unset"
    /\ \A w \in Workers : proc[w].doc.previousDefaultWalletId # "unset"
    /\ StaleMeansDead =>
        \A w \in Workers : proc[w].pc \in Executing =>
            /\ SameContents(proc[w].doc, mig)
            /\ proc[w].doc.status # "failed" =>
                   mig.status \in {proc[w].doc.status, "rollback_started"}
            /\ proc[w].pc \in ReversePcs => proc[w].doc.rollbackTransactionId = NoInvoice
            /\ proc[w].pc \in TopUpPcs => proc[w].doc.shortfallTransactionId = NoInvoice

-----------------------------------------------------------------------------

\* The inductive invariant: types, the lock, the trail of the document and of
\* every process's copy, the one-way rollback and the up-to-date copy hold
\* together, over crashes, stale locks, retries, refreshes and rollbacks.
IInv == TypeOK /\ LockInv /\ Trail /\ OneWay /\ UpToDate

-----------------------------------------------------------------------------
\* The default wallet.

\* The pointer is flipped when the document says so, and while a process is
\* about to write it.
PointerInv ==
    StaleMeansDead =>
        /\ /\ forwardMovedFunds(mig)
           /\ mig.status \in {"pointer_flipped", "legacy_zero_verified", "complete"}
           => default = "usdt"
        /\ \A w \in Workers : proc[w].pc = "record_flip" => default = "usdt"

-----------------------------------------------------------------------------
\* How often each payment is made.

BeforeReading == {"not_started", "started", "provisioned"}
BeforeFeeRead == BeforeMove \cup {"balance_move_sending", "balance_move_sent",
                                  "balance_move_verified"}
FeeStatuses == {"fee_reimbursement_invoice_created", "fee_reimbursement_sending",
                "fee_reimbursed"}

\* The amounts in a document, by its status.
AmountsOK(d) ==
    /\ d.status \in BeforeReading => d.sourceBalance = Undefined
    /\ d.status \in {"balance_read", "invoice_created"} => d.sourceBalance # Undefined
    /\ d.balanceMoveTransactionId # NoInvoice => d.sourceBalance # Undefined
    /\ d.sourceBalance # Undefined =>
           /\ d.destinationAmount = toMicrosRounded(d.sourceBalance)
           /\ d.destinationStartingBalance # Undefined
    /\ d.status = "invoice_created" => d.destinationAmount # 0
    /\ d.status \in BeforeFeeRead => d.feeAmount = Undefined
    /\ d.status \in FeeStatuses => d.feeAmount # Undefined

AmountsInv ==
    StaleMeansDead => AmountsOK(mig) /\ \A w \in Workers : AmountsOK(proc[w].doc)

\* Until a rollback sends money back, the legacy wallet holds at most what was
\* read, and nothing once the move is paid: a second payment of the recorded
\* amount has nothing to pay with.
MoveInv ==
    StaleMeansDead /\ "legacy" \notin DepositWallets =>
        /\ ~mig.rollbackPointerRestored =>
               /\ mig.sourceBalance # Undefined => bal["legacy"] <= mig.sourceBalance
               /\ paidFor("move") # {} => bal["legacy"] = 0
        /\ \A i, j \in paidFor("move") : i = j

\* While no invoice expires there is one fee invoice, whoever holds a copy of it.
FeeInv ==
    Bounds["expire"] = 0 =>
        /\ left["expire"] = 0 /\ \A i \in InvoiceIds : ~invoices[i].expired
        /\ \A w \in Workers : proc[w].doc.feeInvoice \in {NoInvoice, mig.feeInvoice}
        /\ mig.feeInvoice # NoInvoice =>
               /\ forwardMovedFunds(mig)
               /\ mig.status \notin {"balance_move_sending", "balance_move_sent",
                                     "balance_move_verified"}
        /\ paidFor("fee") \subseteq {mig.feeInvoice}

\* And, under the lock, one invoice for each payment of the rollback.
UndoInv ==
    StaleMeansDead /\ Bounds["expire"] = 0 =>
        /\ paidFor("reverse") \subseteq {mig.rollbackInvoice}
        /\ paidFor("shortfall") \subseteq {mig.shortfallInvoice}

-----------------------------------------------------------------------------
\* What the migration has cost the user.  Bounds are doubled to speak of halves.

Gap == owed - holdings

\* What the account held beyond the balance that moves is at most what the
\* document says the USDT wallet started with, up to rounding.
StartBounds(amount) ==
    2 * amount <= 2 * (mig.destinationStartingBalance * SubPerMicro) + SubPerMicro

WholeInv ==
    StaleMeansDead /\ DepositWallets = {} =>
        /\ mig.sourceBalance # Undefined =>
               IF paidFor("move") = {} THEN StartBounds(bal["usdt"])
                                       ELSE StartBounds(owed - mig.sourceBalance)
        /\ paidFor("move") # {} => mig.sourceBalance # Undefined
        /\ paidFor("fee") # {} => mig.feeAmount # Undefined
        /\ ~mig.rollbackPointerRestored =>
               /\ paidFor("move") = {} => Gap = 0
               /\ paidFor("move") # {} => Gap <= mig.sourceBalance
               /\ mig.feeAmount # Undefined =>
                      2 * Gap <= 2 * (mig.feeAmount * SubPerMicro) + 3 * SubPerMicro
               /\ paidFor("fee") # {} /\ mig.feeAmount >= MinFixedInvoice => 2 * Gap <= 3 * SubPerMicro
               /\ \/ mig.status = "fee_reimbursed"
                  \/ /\ forwardMovedFunds(mig)
                     /\ mig.status \in {"pointer_flipped", "legacy_zero_verified", "complete"}
                  => /\ mig.feeAmount # Undefined
                     /\ mig.feeAmount < MinPayable \/ paidFor("fee") # {}
        /\ mig.status = "rolled_back" /\ forwardMovedFunds(mig) =>
               StartBounds(owed - bal["legacy"] - (Tolerance + 1) * SubPerMicro)

-----------------------------------------------------------------------------
\* What the migration gives the user beyond what they are owed, while the user
\* does nothing and no invoice expires.

Undisturbed ==
    StaleMeansDead /\ DepositWallets = {} /\ Bounds["expire"] = 0 /\ Bounds["spend"] = 0

\* The other half of StartBounds.
StartsFrom(amount) ==
    2 * (mig.destinationStartingBalance * SubPerMicro) <= 2 * amount + SubPerMicro

\* What a process is about to send back is within the tolerance of what was
\* moved; what it is about to top up is what the legacy wallet misses after the
\* money was sent back.
PurseOK(p) ==
    /\ p.pc = "verify" /\ forwardMovedFunds(mig) => mig.rollbackTransactionId # NoInvoice
    /\ p.pc \in {"reverse_invoice", "pay_reverse"} =>
           p.amount \in Nat /\ mig.destinationAmount - Tolerance <= p.amount
    /\ p.pc \in {"shortfall_invoice", "pay_shortfall"} =>
           /\ mig.rollbackTransactionId # NoInvoice
           /\ p.amount = legacyShortfallUsdtMicros(mig.sourceBalance, bal["legacy"])

\* The payments in their order, and how far each can take the user above owed:
\* the fee by its three roundings, the top-up by what the reverse payment may
\* have left in the USDT wallet.
GainBounds ==
    /\ paidFor("move") # {} => mig.destinationAmount # 0
    /\ paidFor("reverse") # {} => paidFor("move") # {} /\ mig.rollbackPointerRestored
    /\ paidFor("shortfall") # {} => paidFor("reverse") # {}
    /\ paidFor("reverse") = {} /\ paidFor("move") # {} => bal["legacy"] = 0
    /\ mig.sourceBalance # Undefined =>
           IF paidFor("move") = {} THEN StartsFrom(bal["usdt"])
                                   ELSE StartsFrom(owed - mig.sourceBalance)
    /\ paidFor("shortfall") = {} =>
           /\ 0 <= 2 * Gap + 3 * SubPerMicro
           /\ paidFor("fee") = {} =>
                  /\ 0 <= Gap
                  /\ mig.feeAmount # Undefined =>
                         2 * (mig.feeAmount * SubPerMicro) <= 2 * Gap + 3 * SubPerMicro
    /\ paidFor("reverse") # {} =>
           bal["usdt"] <= owed - mig.sourceBalance + Tolerance * SubPerMicro + 2 * SubPerMicro
    /\ 0 <= Gap + Tolerance * SubPerMicro + 3 * SubPerMicro

GainInv ==
    Undisturbed =>
        /\ left["spend"] = 0 /\ user = "none"
        /\ \A w \in Workers : PurseOK(proc[w])
        /\ GainBounds

=============================================================================
