---------------------- MODULE CashWalletMigrationProofs ----------------------
(***************************************************************************)
(* Proofs about CashWalletMigration, for any workers, amounts, invoices and*)
(* any number of faults: every state is well typed, the lock is exclusive, *)
(* and a recorded id names a settled invoice of its kind. Then what each   *)
(* step does to the document and the copies (its effect) and to the money  *)
(* (its deed): each action is looked at once here, and by its effect and   *)
(* deed afterwards. By their effects the steps keep OneWay and UpToDate,   *)
(* which completes the inductive invariant: a rollback is never overtaken  *)
(* by the forward pipeline. By their deeds they keep what is known of the  *)
(* amounts, and of the invoice each payment is made with.                  *)
(***************************************************************************)
EXTENDS MigrationTrail, TLAPS

\* A leaf goes to Zenon; the leaves that need arithmetic, records or updated
\* functions name SMT.
USE Zenon

-----------------------------------------------------------------------------
\* Amounts.

\* Rounding a balance to micros (usdCentsToUsdtMicros,
\* ibexMajorUnitsToUsdtMicros) gives an amount of micros, never a negative one.
LEMMA RoundedIsNat ==
    ASSUME NEW s \in Nat
    PROVE  toMicrosRounded(s) \in Nat
BY SMT, SubPerMicroAssumption DEF toMicrosRounded

\* So does flooring it (readDestinationSpendableUsdtMicros).
LEMMA FlooredIsNat ==
    ASSUME NEW s \in Nat
    PROVE  toMicrosFloored(s) \in Nat
BY SMT, SubPerMicroAssumption DEF toMicrosFloored

\* Rounding is off by at most half a micro, rounded up: the target of a move
\* exceeds what was moved by less than a micro, and flooring never overspends.
LEMMA RoundingError ==
    ASSUME NEW s \in Nat
    PROVE  /\ toMicrosFloored(s) * SubPerMicro <= s
           /\ s < (toMicrosFloored(s) + 1) * SubPerMicro
           /\ toMicrosFloored(s) <= toMicrosRounded(s)
           /\ toMicrosRounded(s) <= toMicrosFloored(s) + 1
BY SMT, SubPerMicroAssumption DEF toMicrosFloored, toMicrosRounded

\* The shortfalls the treasury is asked to pay are never negative.
LEMMA ShortfallIsNat ==
    /\ \A source, current \in Nat : legacyShortfallUsdtMicros(source, current) \in Nat
    /\ \A target, starting \in Amounts, current \in Nat :
           destinationShortfallUsdtMicros(target, starting, current) \in Nat
BY SMT, RoundedIsNat DEF legacyShortfallUsdtMicros, destinationShortfallUsdtMicros, Amounts, Undefined

-----------------------------------------------------------------------------
\* Type correctness.

\* The building blocks of the steps keep the types.
LEMMA GoToType ==
    ASSUME TypeOK, NEW w \in Workers, NEW pc \in Pcs, GoTo(w, pc)
    PROVE  proc' \in [Workers -> Processes]
BY DEF TypeOK, GoTo, Processes

\* A process that goes on to report its failure keeps its type.
LEMMA FailType ==
    ASSUME TypeOK, NEW w \in Workers, Fail(w)
    PROVE  proc' \in [Workers -> Processes]
BY GoToType DEF Fail, Pcs

\* transitionMigration keeps the types of the document and of the processes.
LEMMA TransitionType ==
    ASSUME TypeOK, NEW w \in Workers, NEW pc \in Pcs, NEW from, NEW new \in Documents,
           transitionMigration(w, from, new, pc)
    PROVE  mig' \in Documents /\ proc' \in [Workers -> Processes]
BY SMT, FailType DEF TypeOK, transitionMigration, Processes

\* A forward transition, taken or refused, keeps them too.
LEMMA ForwardTransitionType ==
    ASSUME TypeOK, NEW w \in Workers, NEW pc \in Pcs, NEW to \in MigrationStatuses,
           NEW new \in Documents, ForwardTransition(w, to, new, pc)
    PROVE  mig' \in Documents /\ proc' \in [Workers -> Processes]
<1>1. [new EXCEPT !.status = to] \in Documents
  BY DEF Documents
<1> QED BY <1>1, FailType, TransitionType DEF ForwardTransition, TypeOK

\* An environment event never happens more often than its bound allows.
LEMMA HappensType ==
    ASSUME TypeOK, NEW e, Happens(e)
    PROVE  left' \in [Events -> Nat]
<1>1. CASE e \in Events
  BY SMT, <1>1 DEF TypeOK, Happens
<1>2. CASE e \notin Events
  BY <1>2 DEF TypeOK, Happens
<1> QED BY <1>1, <1>2

\* Issuing an invoice keeps the type of the invoices.
LEMMA InvoiceType ==
    ASSUME TypeOK, NEW i \in InvoiceIds, NEW purpose \in Purposes,
           NewInvoice(i, purpose)
    PROVE  invoices' \in [InvoiceIds -> Invoices]
BY DEF TypeOK, NewInvoice, Invoices

\* Settling an invoice keeps the type of the invoices.
LEMMA PaidType ==
    ASSUME TypeOK, NEW i \in Ids, Paid(i)
    PROVE  invoices' \in [InvoiceIds -> Invoices]
<1>1. CASE i \in InvoiceIds
  BY <1>1 DEF TypeOK, Paid, Invoices
<1>2. CASE i = NoInvoice
  <2>1. i \notin InvoiceIds
    BY <1>2, InvoiceIdsAssumption DEF NoInvoice
  <2>2. invoices' = invoices
    BY <2>1 DEF TypeOK, Paid
  <2> QED BY <2>2 DEF TypeOK
<1> QED BY <1>1, <1>2 DEF Ids

\* Both outcomes of a settled payment, answered or lost, are well typed.
LEMMA SettledOutcomeType ==
    ASSUME TypeOK, NEW w \in Workers, NEW pc \in Pcs, SettledOutcome(w, pc)
    PROVE  proc' \in [Workers -> Processes] /\ left' \in [Events -> Nat]
BY GoToType, FailType, HappensType DEF SettledOutcome, TypeOK

\* A payment between the wallets, or from the treasury to one of them, leaves
\* no wallet below zero.
LEMMA PaymentType ==
    ASSUME NEW b \in [Wallets -> Nat], NEW a \in Int, NEW fee \in Nat, fee <= a
    PROVE  /\ b["legacy"] >= a => [b EXCEPT !["legacy"] = @ - a, !["usdt"] = @ + a - fee]
                                      \in [Wallets -> Nat]
           /\ b["usdt"] >= a => [b EXCEPT !["usdt"] = @ - a, !["legacy"] = @ + a - fee]
                                      \in [Wallets -> Nat]
           /\ [b EXCEPT !["usdt"] = @ + a - fee] \in [Wallets -> Nat]
           /\ [b EXCEPT !["legacy"] = @ + a - fee] \in [Wallets -> Nat]
<1>1. b["legacy"] \in Nat /\ b["usdt"] \in Nat
  BY DEF Wallets
<1>2. a - fee \in Nat
  BY SMT
<1> QED BY SMT, <1>1, <1>2 DEF Wallets

\* The state after upsertMigration is well typed.
LEMMA InitType == Init => TypeOK
<1> SUFFICES ASSUME Init PROVE TypeOK
  OBVIOUS
<1>1. UpsertedDocument \in Documents
  BY DEF UpsertedDocument, Documents, MigrationStatuses, PreMoneyStatuses, Wallets,
         Amounts, Undefined, Ids, NoInvoice
<1>2. IdleProcess \in Processes
  BY <1>1 DEF IdleProcess, Processes, Pcs, Amounts, Undefined
<1>3. bal \in [Wallets -> Nat]
  BY AmountsAssumption DEF Init
<1>4. owed \in Int
  BY SMT, <1>3 DEF Init, Wallets
<1> QED BY <1>1, <1>2, <1>3, <1>4, AmountsAssumption
        DEF Init, TypeOK, Wallets, Invoices, Events

\* The batch runner's own steps, failures and crashes keep the types.
LEMMA RunnerType ==
    ASSUME TypeOK, NEW w \in Workers, RunnerStep(w) \/ StepFails(w) \/ Crash(w)
    PROVE  TypeOK'
<1> USE DEF TypeOK, world
<1>0. IdleProcess \in Processes
  BY DEF IdleProcess, Processes, Pcs, Amounts, Undefined, UpsertedDocument, Documents,
         MigrationStatuses, PreMoneyStatuses, Wallets, Ids, NoInvoice
<1>1. ASSUME NEW job \in {"forward", "rollback"}, ListMigration(w, job) PROVE TypeOK'
  <2>1. mig.lockStale \in BOOLEAN
    BY DEF Documents
  <2>2. proc' \in [Workers -> Processes]
    <3> DEFINE p == [proc[w] EXCEPT !.pc = "listed", !.job = job, !.seesStale = mig.lockStale]
    <3>1. p \in Processes
      BY ZenonT(60), <2>1 DEF Processes, Pcs
    <3>2. proc' = [proc EXCEPT ![w] = p]
      BY <1>1 DEF ListMigration
    <3> QED BY <3>1, <3>2
  <2> QED BY <1>1, <2>2 DEF ListMigration
<1>2. CASE AcquireMigrationLock(w)
  <2>1. mig' \in Documents
    BY ZenonT(60), <1>2 DEF AcquireMigrationLock, Documents
  <2>2. proc' \in [Workers -> Processes]
    <3>1. \A v \in Workers :
              /\ [proc[v] EXCEPT !.pc = "execute", !.doc = mig', !.seesStale = FALSE] \in Processes
              /\ [proc[v] EXCEPT !.seesStale = FALSE] \in Processes
      BY ZenonT(60), <2>1 DEF Processes, Pcs
    <3> QED BY ZenonT(60), <1>0, <1>2, <3>1 DEF AcquireMigrationLock
  <2> QED BY <1>2, <2>1, <2>2 DEF AcquireMigrationLock
<1>3. CASE ReleaseMigrationLock(w)
  BY <1>0, <1>3 DEF ReleaseMigrationLock, Documents
<1>4. CASE MarkMigrationFailed(w)
  <2>1. failureStatusForMigration(proc[w].doc.status) \in MigrationStatuses
    BY DEF failureStatusForMigration, MigrationStatuses
  <2>2. \A s \in MigrationStatuses :
            [mig EXCEPT !.status = s, !.lockedBy = NoWorker, !.lockStale = FALSE] \in Documents
    BY DEF Documents
  <2>3. mig' \in Documents
    BY <1>4, <2>1, <2>2 DEF MarkMigrationFailed, MigrationStatuses
  <2> QED BY <1>0, <1>4, <2>3 DEF MarkMigrationFailed
<1>5. CASE StepFails(w)
  BY <1>5, FailType, HappensType DEF StepFails
<1>6. CASE Crash(w)
  BY <1>0, <1>6, HappensType DEF Crash
<1> QED BY <1>1, <1>2, <1>3, <1>4, <1>5, <1>6 DEF RunnerStep

\* Every step of the forward pipeline keeps the types; the amounts read, rounded
\* and subtracted on the way stay natural numbers.
LEMMA ForwardType ==
    ASSUME TypeOK, NEW w \in Workers, ForwardStep(w)
    PROVE  TypeOK'
<1> USE DEF TypeOK, world
<1>s. /\ {"started", "provisioned", "balance_read", "invoice_created", "balance_move_sending",
          "balance_move_sent", "balance_move_verified", "fee_reimbursement_invoice_created",
          "fee_reimbursement_sending", "fee_reimbursed", "pointer_flipped",
          "legacy_zero_verified", "complete"} \subseteq MigrationStatuses
      /\ {"release", "pay_move", "record_move", "pay_fee", "record_fee", "record_flip"}
             \subseteq Pcs
      /\ {"move", "fee"} \subseteq Purposes
  BY DEF MigrationStatuses, PreMoneyStatuses, MoneyStatuses, Pcs, Purposes
<1>b. bal["legacy"] \in Nat /\ bal["usdt"] \in Nat
  BY DEF Wallets
<1>1. CASE SkipTerminal(w)
  BY <1>1, <1>s, GoToType DEF SkipTerminal
<1>2. CASE StartMigration(w)
  BY <1>2, <1>s, ForwardTransitionType DEF StartMigration
<1>3. CASE ProvisionDestination(w)
  BY <1>3, <1>s, ForwardTransitionType DEF ProvisionDestination
<1>4. CASE RecordBalance(w)
  <2>1. [mig EXCEPT !.sourceBalance = bal["legacy"],
                    !.destinationAmount = toMicrosRounded(bal["legacy"]),
                    !.destinationStartingBalance = toMicrosRounded(bal["usdt"])] \in Documents
    BY <1>b, RoundedIsNat DEF Documents, Amounts
  <2> QED BY <1>4, <1>s, <2>1, ForwardTransitionType DEF RecordBalance
<1>5. CASE CreateBalanceMoveInvoice(w)
  <2>1. \A i \in InvoiceIds : [mig EXCEPT !.balanceMoveInvoice = i] \in Documents
    BY DEF Documents, Ids
  <2> QED BY <1>5, <1>s, <2>1, ForwardTransitionType, InvoiceType DEF CreateBalanceMoveInvoice
<1>6. CASE PrepareBalanceMove(w)
  <2>1. \A i \in InvoiceIds : [mig EXCEPT !.balanceMoveInvoice = i] \in Documents
    BY DEF Documents, Ids
  <2> QED BY <1>6, <1>s, <2>1, GoToType, ForwardTransitionType, InvoiceType
          DEF PrepareBalanceMove
<1>7. CASE PayBalanceMove(w)
  <2>1. proc[w].doc.balanceMoveInvoice \in Ids /\ proc[w].doc.sourceBalance \in Int
    BY SMT DEF Processes, Documents, Amounts, Undefined
  <2>2. bal' \in [Wallets -> Nat]
    <3> DEFINE amount == proc[w].doc.sourceBalance
    <3>1. bal' = bal \/ \E fee \in LnFees : fee <= amount /\ bal["legacy"] >= amount /\ bal' = [bal EXCEPT !["legacy"] = @ - amount, !["usdt"] = @ + amount - fee]
      BY <1>7 DEF PayBalanceMove
    <3>2. LnFees \subseteq Nat /\ amount \in Int
      BY <2>1, AmountsAssumption, SubPerMicroAssumption
    <3>3. CASE \E fee \in LnFees : fee <= amount /\ bal["legacy"] >= amount /\ bal' = [bal EXCEPT !["legacy"] = @ - amount, !["usdt"] = @ + amount - fee]
      <4>1. PICK fee \in LnFees : fee <= amount /\ bal["legacy"] >= amount /\ bal' = [bal EXCEPT !["legacy"] = @ - amount, !["usdt"] = @ + amount - fee]
        BY <3>3
      <4> HIDE DEF amount
      <4> QED BY <3>2, <4>1, PaymentType
    <3> QED BY <3>1, <3>3
  <2>3. /\ invoices' \in [InvoiceIds -> Invoices]
        /\ proc' \in [Workers -> Processes]
        /\ left' \in [Events -> Nat]
    BY <1>7, <1>s, <2>1, PaidType, SettledOutcomeType, FailType DEF PayBalanceMove
  <2> QED BY <1>7, <2>2, <2>3 DEF PayBalanceMove
<1>8. CASE RecordBalanceMove(w)
  <2>1. [mig EXCEPT !.balanceMoveTransactionId = proc[w].doc.balanceMoveInvoice] \in Documents
    BY DEF Documents, Processes
  <2> QED BY <1>8, <1>s, <2>1, ForwardTransitionType DEF RecordBalanceMove
<1>9. CASE MarkBalanceMoveSent(w)
  BY <1>9, <1>s, ForwardTransitionType, FailType DEF MarkBalanceMoveSent
<1>10. CASE VerifyBalanceMove(w)
  BY <1>10, <1>s, ForwardTransitionType, FailType DEF VerifyBalanceMove
<1>11. CASE ReadFee(w)
  <2> DEFINE fee == destinationShortfallUsdtMicros(proc[w].doc.destinationAmount,
                        proc[w].doc.destinationStartingBalance, toMicrosRounded(bal["usdt"]))
  <2>1. fee \in Nat
    BY <1>b, RoundedIsNat, ShortfallIsNat DEF Processes, Documents
  <2>2. /\ [mig EXCEPT !.feeAmount = fee] \in Documents
        /\ \A i \in InvoiceIds : [mig EXCEPT !.feeAmount = fee, !.feeInvoice = i] \in Documents
    <3> HIDE DEF fee
    <3>1. [mig EXCEPT !.feeAmount = fee] \in Documents
      BY <2>1 DEF Documents, Amounts
    <3>2. ASSUME NEW i \in InvoiceIds
          PROVE  [mig EXCEPT !.feeAmount = fee, !.feeInvoice = i] \in Documents
      <4>1. i \in Ids /\ fee \in Amounts
        BY <2>1 DEF Ids, Amounts
      <4> QED BY <4>1 DEF Documents
    <3> QED BY <3>1, <3>2
  <2> QED BY <1>11, <1>s, <2>2, ForwardTransitionType, InvoiceType DEF ReadFee
<1>12. CASE PrepareFee(w)
  <2>1. \A i \in InvoiceIds : [mig EXCEPT !.feeInvoice = i] \in Documents
    BY DEF Documents, Ids
  <2> QED BY <1>12, <1>s, <2>1, GoToType, ForwardTransitionType, InvoiceType DEF PrepareFee
<1>13. CASE PayFee(w)
  <2>1. proc[w].doc.feeInvoice \in Ids /\ proc[w].doc.feeAmount \in Int
    BY SMT DEF Processes, Documents, Amounts, Undefined
  <2>2. proc[w].doc.feeAmount * SubPerMicro \in Int
    BY SMT, <2>1, SubPerMicroAssumption
  <2>3. bal' \in [Wallets -> Nat]
    <3>1. \A fee \in IF usesNoAmountFeeReimbursementInvoice(proc[w].doc.feeAmount) THEN LnFees ELSE {0} :
              fee \in Nat
      <4>1. LnFees \subseteq Nat
        BY AmountsAssumption
      <4>2. CASE usesNoAmountFeeReimbursementInvoice(proc[w].doc.feeAmount)
        BY <4>1, <4>2
      <4>3. CASE ~(usesNoAmountFeeReimbursementInvoice(proc[w].doc.feeAmount))
        BY SMT, <4>3
      <4> QED BY <4>2, <4>3
    <3> QED BY SMT, <1>13, <2>2, <3>1, PaymentType DEF PayFee
  <2>4. /\ invoices' \in [InvoiceIds -> Invoices]
        /\ proc' \in [Workers -> Processes]
        /\ left' \in [Events -> Nat]
    BY <1>13, <1>s, <2>1, PaidType, SettledOutcomeType, FailType DEF PayFee
  <2> QED BY <1>13, <2>3, <2>4 DEF PayFee
<1>14. CASE RecordFee(w)
  <2>1. [mig EXCEPT !.feeTransactionId = proc[w].doc.feeInvoice] \in Documents
    BY DEF Documents, Processes
  <2> QED BY <1>14, <1>s, <2>1, ForwardTransitionType DEF RecordFee
<1>15. CASE MarkFeeReimbursed(w)
  BY <1>15, <1>s, ForwardTransitionType, FailType DEF MarkFeeReimbursed
<1>16. CASE FlipDefaultPointer(w)
  <2> DEFINE d == [proc[w].doc EXCEPT !.previousDefaultWalletId = default]
             p == [proc[w] EXCEPT !.pc = "record_flip", !.doc = d]
  <2>1. d \in Documents
    BY SMT DEF Processes, Documents
  <2>2. p \in Processes
    <3> HIDE DEF d
    <3> QED BY <1>s, <2>1 DEF Processes
  <2>3. proc' = [proc EXCEPT ![w] = p]
    BY <1>16 DEF FlipDefaultPointer
  <2>4. proc' \in [Workers -> Processes]
    BY <2>2, <2>3
  <2> QED BY <1>16, <2>4 DEF FlipDefaultPointer, Wallets
<1>17. CASE RecordFlip(w)
  <2>1. [mig EXCEPT !.previousDefaultWalletId = proc[w].doc.previousDefaultWalletId] \in Documents
    BY DEF Documents, Processes
  <2> QED BY <1>17, <1>s, <2>1, ForwardTransitionType DEF RecordFlip
<1>18. CASE VerifyLegacyZero(w)
  BY <1>18, <1>s, ForwardTransitionType, FailType DEF VerifyLegacyZero
<1>19. CASE CompleteMigration(w)
  BY <1>19, <1>s, ForwardTransitionType DEF CompleteMigration
<1> QED BY <1>1, <1>2, <1>3, <1>4, <1>5, <1>6, <1>7, <1>8, <1>9, <1>10, <1>11, <1>12,
           <1>13, <1>14, <1>15, <1>16, <1>17, <1>18, <1>19 DEF ForwardStep

\* Every step of the rollback worker keeps the types.
LEMMA RollbackType ==
    ASSUME TypeOK, NEW w \in Workers, RollbackStep(w)
    PROVE  TypeOK'
<1> USE DEF TypeOK, world
<1>s. /\ {"record_restore", "reverse", "reverse_invoice", "pay_reverse", "record_reverse", "verify",
          "shortfall_invoice", "pay_shortfall", "record_shortfall", "release"} \subseteq Pcs
      /\ {"reverse", "shortfall"} \subseteq Purposes
  BY DEF Pcs, Purposes
<1>b. bal["legacy"] \in Nat /\ bal["usdt"] \in Nat
  BY DEF Wallets
<1>d. /\ [mig EXCEPT !.rollbackPointerRestored = TRUE] \in Documents
      /\ [mig EXCEPT !.status = "rolled_back"] \in Documents
      /\ \A i \in Ids : /\ [mig EXCEPT !.rollbackInvoice = i] \in Documents
                        /\ [mig EXCEPT !.rollbackTransactionId = i] \in Documents
                        /\ [mig EXCEPT !.shortfallInvoice = i] \in Documents
                        /\ [mig EXCEPT !.shortfallTransactionId = i] \in Documents
  BY ZenonT(60) DEF Documents, MigrationStatuses
<1>i. /\ proc[w].doc \in Documents /\ proc[w].amount \in Int
      /\ proc[w].doc.rollbackInvoice \in Ids /\ proc[w].doc.shortfallInvoice \in Ids
      /\ proc[w].doc.destinationAmount \in Amounts /\ proc[w].doc.sourceBalance \in Amounts
  BY SMT DEF Processes, Documents, Amounts, Undefined
<1>m. \A pc \in Pcs, a \in Nat :
          [proc EXCEPT ![w].pc = pc, ![w].amount = a] \in [Workers -> Processes]
  BY ZenonT(60) DEF Processes, Amounts
<1>1. CASE RollbackWrongStatus(w)
  BY <1>1, FailType DEF RollbackWrongStatus
<1>2. CASE RestorePointer(w)
  <2>1. proc[w].doc.previousDefaultWalletId \in Wallets \cup {"unset"}
    BY DEF Processes, Documents
  <2> QED BY <1>2, <1>s, <2>1, GoToType DEF RestorePointer
<1>3. CASE RecordRestore(w)
  BY <1>3, <1>s, <1>d, TransitionType DEF RecordRestore, patchRollbackProgress
<1>4. CASE ReadReverseAmount(w)
  <2>1. toMicrosFloored(bal["usdt"]) \in Nat
    BY <1>b, FlooredIsNat
  <2>2. proc' \in [Workers -> Processes]
    <3> DEFINE target == proc[w].doc.destinationAmount
               spendable == toMicrosFloored(bal["usdt"])
               amount == IF spendable < target THEN spendable ELSE target
    <3>1. amount >= MinPayable => amount \in Nat
      BY SMT, <1>i, <2>1, AmountsAssumption DEF Amounts, Undefined
    <3>2. \/ GoTo(w, "verify")
          \/ Fail(w)
          \/ /\ ~(amount < MinPayable)
             /\ proc' = [proc EXCEPT ![w].pc = "reverse_invoice", ![w].amount = amount]
      BY <1>4 DEF ReadReverseAmount
    <3>3. amount \in Int
      BY SMT, <1>i, <2>1 DEF Amounts, Undefined
    <3> HIDE DEF amount
    <3>4. CASE /\ ~(amount < MinPayable)
               /\ proc' = [proc EXCEPT ![w].pc = "reverse_invoice", ![w].amount = amount]
      <4>1. amount \in Nat
        BY SMT, <3>1, <3>3, <3>4, AmountsAssumption
      <4> QED BY <3>4, <4>1, <1>m, <1>s
    <3> QED BY <3>2, <3>4, <1>s, GoToType, FailType
  <2> QED BY <1>4, <2>2 DEF ReadReverseAmount
<1>5. CASE EnsureReverseInvoice(w)
  BY <1>5, <1>s, <1>d, GoToType, TransitionType, InvoiceType
     DEF EnsureReverseInvoice, patchRollbackProgress, Ids
<1>6. CASE PayReverse(w)
  <2>1. proc[w].amount * SubPerMicro \in Int
    BY SMT, <1>i, SubPerMicroAssumption
  <2>2. bal' \in [Wallets -> Nat]
    <3> DEFINE amount == proc[w].amount * SubPerMicro
    <3>1. bal' = bal \/ \E fee \in LnFees : fee <= amount /\ bal["usdt"] >= amount /\ bal' = [bal EXCEPT !["usdt"] = @ - amount, !["legacy"] = @ + amount - fee]
      BY <1>6 DEF PayReverse
    <3>2. LnFees \subseteq Nat /\ amount \in Int
      BY <2>1, AmountsAssumption, SubPerMicroAssumption
    <3>3. CASE \E fee \in LnFees : fee <= amount /\ bal["usdt"] >= amount /\ bal' = [bal EXCEPT !["usdt"] = @ - amount, !["legacy"] = @ + amount - fee]
      <4>1. PICK fee \in LnFees : fee <= amount /\ bal["usdt"] >= amount /\ bal' = [bal EXCEPT !["usdt"] = @ - amount, !["legacy"] = @ + amount - fee]
        BY <3>3
      <4> HIDE DEF amount
      <4> QED BY <3>2, <4>1, PaymentType
    <3> QED BY <3>1, <3>3
  <2>3. /\ invoices' \in [InvoiceIds -> Invoices]
        /\ proc' \in [Workers -> Processes]
        /\ left' \in [Events -> Nat]
    BY <1>6, <1>s, <1>i, PaidType, SettledOutcomeType, FailType DEF PayReverse
  <2> QED BY <1>6, <2>2, <2>3 DEF PayReverse
<1>7. CASE RecordReverse(w)
  BY <1>7, <1>s, <1>d, <1>i, TransitionType DEF RecordReverse, patchRollbackProgress
<1>8. CASE VerifyRollback(w)
  <2> DEFINE doc == proc[w].doc
             shortfall == legacyShortfallUsdtMicros(doc.sourceBalance, bal["legacy"])
  <2>1. \/ /\ transitionMigration(w, "rollback_started",
                  [mig EXCEPT !.status = "rolled_back"], "release")
        \/ /\ doc.sourceBalance # Undefined
           /\ proc' = [proc EXCEPT ![w].pc = "shortfall_invoice", ![w].amount = shortfall]
           /\ UNCHANGED mig
        \/ Fail(w) /\ UNCHANGED mig
    BY <1>8 DEF VerifyRollback
  <2>2. doc.sourceBalance # Undefined => shortfall \in Nat
    BY <1>i, <1>b, ShortfallIsNat DEF Amounts
  <2>3. mig' \in Documents /\ proc' \in [Workers -> Processes]
    <3> HIDE DEF shortfall, doc
    <3>1. CASE transitionMigration(w, "rollback_started",
                   [mig EXCEPT !.status = "rolled_back"], "release")
      BY <3>1, <1>s, <1>d, TransitionType
    <3>2. CASE /\ doc.sourceBalance # Undefined
               /\ proc' = [proc EXCEPT ![w].pc = "shortfall_invoice", ![w].amount = shortfall]
               /\ UNCHANGED mig
      BY <3>2, <2>2, <1>s, <1>m
    <3>3. CASE Fail(w) /\ UNCHANGED mig
      BY <3>3, FailType
    <3> QED BY <2>1, <3>1, <3>2, <3>3
  <2> QED BY <1>8, <2>3 DEF VerifyRollback
<1>9. CASE EnsureShortfallInvoice(w)
  BY <1>9, <1>s, <1>d, GoToType, TransitionType, InvoiceType
     DEF EnsureShortfallInvoice, patchRollbackProgress, Ids
<1>10. CASE PayShortfall(w)
  <2>1. proc[w].amount * SubPerMicro \in Int
    BY SMT, <1>i, SubPerMicroAssumption
  <2>2. bal' \in [Wallets -> Nat]
    <3> DEFINE amount == proc[w].amount * SubPerMicro
    <3>1. bal' = bal \/ \E fee \in LnFees : fee <= amount /\ bal' = [bal EXCEPT !["legacy"] = @ + amount - fee]
      BY <1>10 DEF PayShortfall
    <3>2. LnFees \subseteq Nat /\ amount \in Int
      BY <2>1, AmountsAssumption, SubPerMicroAssumption
    <3>3. CASE \E fee \in LnFees : fee <= amount /\ bal' = [bal EXCEPT !["legacy"] = @ + amount - fee]
      <4>1. PICK fee \in LnFees : fee <= amount /\ bal' = [bal EXCEPT !["legacy"] = @ + amount - fee]
        BY <3>3
      <4> HIDE DEF amount
      <4> QED BY <3>2, <4>1, PaymentType
    <3> QED BY <3>1, <3>3
  <2>3. /\ invoices' \in [InvoiceIds -> Invoices]
        /\ proc' \in [Workers -> Processes]
        /\ left' \in [Events -> Nat]
    BY <1>10, <1>s, <1>i, PaidType, SettledOutcomeType, FailType DEF PayShortfall
  <2> QED BY <1>10, <2>2, <2>3 DEF PayShortfall
<1>11. CASE RecordShortfall(w)
  BY <1>11, <1>s, <1>d, <1>i, TransitionType DEF RecordShortfall, patchRollbackProgress
<1> QED BY <1>1, <1>2, <1>3, <1>4, <1>5, <1>6, <1>7, <1>8, <1>9, <1>10, <1>11
        DEF RollbackStep

\* The operator, the user and time keep the types.
LEMMA EnvironmentType ==
    ASSUME TypeOK, Environment
    PROVE  TypeOK'
<1> USE DEF TypeOK, world
<1>1. CASE LockGoesStale
  BY <1>1 DEF LockGoesStale, Documents
<1>2. CASE RequestRollback
  <2>1. mig' \in Documents
    BY <1>2 DEF RequestRollback, Documents, MigrationStatuses
  <2> QED BY <1>2, <2>1, HappensType DEF RequestRollback
<1>3. CASE RetryFailed
  <2>0. /\ {"not_started", "pointer_flipped"} \subseteq MigrationStatuses
        /\ Undefined \in Amounts /\ NoInvoice \in Ids
    BY DEF MigrationStatuses, PreMoneyStatuses, MoneyStatuses, Amounts, Ids
  <2>1. mig' \in Documents
    <3>1. CASE mig.previousDefaultWalletId # "unset"
      BY <1>3, <2>0, <3>1 DEF RetryFailed, Documents
    <3>2. CASE mig.previousDefaultWalletId = "unset"
      BY <1>3, <2>0, <3>2 DEF RetryFailed, Documents
    <3> QED BY <3>1, <3>2
  <2> QED BY <1>3, <2>1, HappensType DEF RetryFailed
<1>4. CASE RoutePayment
  BY <1>4, HappensType DEF RoutePayment, Wallets
<1>5. CASE MakePayment
  BY SMT, <1>5, AmountsAssumption DEF MakePayment, Wallets
<1>6. CASE ReceivePayment
  <2>1. bal' \in [Wallets -> Nat] /\ owed' \in Int
    BY SMT, <1>6, AmountsAssumption DEF ReceivePayment, Wallets
  <2> QED BY <1>6, <2>1, HappensType DEF ReceivePayment
<1>7. ASSUME NEW i \in InvoiceIds, InvoiceExpires(i) PROVE TypeOK'
  <2>1. invoices' \in [InvoiceIds -> Invoices]
    BY <1>7 DEF InvoiceExpires, Invoices
  <2> QED BY <1>7, <2>1, HappensType DEF InvoiceExpires
<1> QED BY <1>1, <1>2, <1>3, <1>4, <1>5, <1>6, <1>7 DEF Environment

\* TypeOK is inductive.
LEMMA NextType == TypeOK /\ [Next]_vars => TypeOK'
<1> SUFFICES ASSUME TypeOK, [Next]_vars PROVE TypeOK'
  OBVIOUS
<1>1. CASE UNCHANGED vars
  BY <1>1 DEF TypeOK, vars
<1>2. CASE Next
  BY <1>2, RunnerType, ForwardType, RollbackType, EnvironmentType DEF Next, WorkerStep
<1> QED BY <1>1, <1>2

\* The document, the processes' copies of it, the balances and the invoices keep
\* their types through every step of every worker: in particular no wallet ever
\* goes below zero, and every recorded amount and id is one the code can read.
THEOREM TypeCorrect == Spec => []TypeOK
BY InitType, NextType, PTL DEF Spec

-----------------------------------------------------------------------------
\* The steps a process takes while it executes.

\* Such a step touches its own process only, leaves the lock alone, and does
\* not end the execution.
Local(w) ==
    /\ proc[w].pc \in Executing /\ proc'[w].pc \in Executing
    /\ proc'[w].job = proc[w].job
    /\ proc'[w].seesStale = proc[w].seesStale
    /\ \A v \in Workers \ {w} : proc'[v] = proc[v]
    /\ mig'.lockedBy = mig.lockedBy /\ mig'.lockStale = mig.lockStale

\* The building blocks of the steps (GoTo, and the update by transitionMigration
\* of a document that keeps its lock fields) are local.
LEMMA GoToLocal ==
    ASSUME TypeOK, NEW w \in Workers, NEW pc \in Executing, GoTo(w, pc),
           proc[w].pc \in Executing, mig' = mig
    PROVE  Local(w)
BY DEF TypeOK, GoTo, Local, Processes

\* A status-guarded update that leaves the lock fields alone is local to its process.
LEMMA TransitionLocal ==
    ASSUME TypeOK, NEW w \in Workers, NEW pc \in Executing, NEW from, NEW new,
           new.lockedBy = mig.lockedBy, new.lockStale = mig.lockStale,
           transitionMigration(w, from, new, pc), proc[w].pc \in Executing
    PROVE  Local(w)
<1>1. CASE Fail(w) /\ UNCHANGED mig
  BY <1>1, GoToLocal DEF Fail, Executing, Pcs
<1>2. CASE /\ mig' = new
           /\ proc' = [proc EXCEPT ![w].pc = pc, ![w].doc = new]
  BY <1>2 DEF TypeOK, Local, Processes
<1> QED BY <1>1, <1>2 DEF transitionMigration

\* So is a forward transition.
LEMMA ForwardTransitionLocal ==
    ASSUME TypeOK, NEW w \in Workers, NEW pc \in Executing, NEW to, NEW new \in Documents,
           new.lockedBy = mig.lockedBy, new.lockStale = mig.lockStale,
           ForwardTransition(w, to, new, pc), proc[w].pc \in Executing
    PROVE  Local(w)
<1>1. CASE Fail(w) /\ UNCHANGED mig
  BY <1>1, GoToLocal DEF Fail, Executing, Pcs
<1>2. CASE transitionMigration(w, proc[w].doc.status, [new EXCEPT !.status = to], pc)
  <2>1. /\ [new EXCEPT !.status = to].lockedBy = mig.lockedBy
        /\ [new EXCEPT !.status = to].lockStale = mig.lockStale
    BY DEF Documents
  <2> QED BY <1>2, <2>1, TransitionLocal
<1> QED BY <1>1, <1>2 DEF ForwardTransition

\* Every step of the forward pipeline is local.
LEMMA ForwardLocal ==
    ASSUME TypeOK, NEW w \in Workers, ForwardStep(w)
    PROVE  Local(w)
<1> USE DEF Step, At
<1>s. {"execute", "release", "pay_move", "record_move", "pay_fee", "record_fee", "record_flip",
       "mark_failed"} \subseteq Executing
  BY DEF Executing, Pcs
<1>t. mig \in Documents /\ proc[w] \in Processes /\ proc \in [Workers -> Processes]
  BY DEF TypeOK
<1>p. ASSUME NEW pc \in Executing, SettledOutcome(w, pc), UNCHANGED mig, proc[w].pc \in Executing
      PROVE  Local(w)
  BY <1>s, <1>p, GoToLocal DEF SettledOutcome, Fail
<1>i. ASSUME NEW i \in Ids
      PROVE  /\ [mig EXCEPT !.balanceMoveInvoice = i] \in Documents
             /\ [mig EXCEPT !.feeInvoice = i] \in Documents
             /\ [mig EXCEPT !.balanceMoveTransactionId = i] \in Documents
             /\ [mig EXCEPT !.feeTransactionId = i] \in Documents
  BY <1>t DEF Documents
<1>k. ASSUME NEW i
      PROVE  /\ [mig EXCEPT !.balanceMoveInvoice = i].lockedBy = mig.lockedBy
             /\ [mig EXCEPT !.balanceMoveInvoice = i].lockStale = mig.lockStale
             /\ [mig EXCEPT !.feeInvoice = i].lockedBy = mig.lockedBy
             /\ [mig EXCEPT !.feeInvoice = i].lockStale = mig.lockStale
             /\ [mig EXCEPT !.balanceMoveTransactionId = i].lockedBy = mig.lockedBy
             /\ [mig EXCEPT !.balanceMoveTransactionId = i].lockStale = mig.lockStale
             /\ [mig EXCEPT !.feeTransactionId = i].lockedBy = mig.lockedBy
             /\ [mig EXCEPT !.feeTransactionId = i].lockStale = mig.lockStale
  BY <1>t DEF Documents
<1>ids. InvoiceIds \subseteq Ids
  BY DEF Ids
<1>d. /\ proc[w].doc.balanceMoveInvoice \in Ids
      /\ proc[w].doc.feeInvoice \in Ids
      /\ proc[w].doc.previousDefaultWalletId \in Wallets \cup {"unset"}
      /\ proc[w].doc.destinationAmount \in Amounts
      /\ proc[w].doc.destinationStartingBalance \in Amounts
  BY <1>t DEF Processes, Documents
<1>b. bal["legacy"] \in Nat /\ bal["usdt"] \in Nat
  BY DEF TypeOK, Wallets
<1>1. CASE SkipTerminal(w)
  BY <1>1, <1>s, GoToLocal DEF SkipTerminal
<1>2. CASE StartMigration(w)
  BY <1>2, <1>s, <1>t, ForwardTransitionLocal DEF StartMigration
<1>3. CASE ProvisionDestination(w)
  BY <1>3, <1>s, <1>t, ForwardTransitionLocal DEF ProvisionDestination
<1>4. CASE RecordBalance(w)
  <2> DEFINE new == [mig EXCEPT !.sourceBalance = bal["legacy"],
                        !.destinationAmount = toMicrosRounded(bal["legacy"]),
                        !.destinationStartingBalance = toMicrosRounded(bal["usdt"])]
  <2>1. new \in Documents
    BY <1>t, <1>b, RoundedIsNat DEF Documents, Amounts
  <2>2. new.lockedBy = mig.lockedBy /\ new.lockStale = mig.lockStale
    BY <1>t DEF Documents
  <2>3. ForwardTransition(w, "balance_read", new, "release") /\ proc[w].pc = "execute"
    BY <1>4 DEF RecordBalance
  <2> HIDE DEF new
  <2> QED BY <2>1, <2>2, <2>3, <1>s, ForwardTransitionLocal
<1>5. CASE CreateBalanceMoveInvoice(w)
  BY <1>5, <1>s, <1>i, <1>k, <1>ids, ForwardTransitionLocal DEF CreateBalanceMoveInvoice
<1>6. CASE PrepareBalanceMove(w)
  BY <1>6, <1>s, <1>i, <1>k, <1>ids, ForwardTransitionLocal, GoToLocal DEF PrepareBalanceMove
<1>7. CASE PayBalanceMove(w)
  BY <1>7, <1>s, <1>p, GoToLocal DEF PayBalanceMove, Fail
<1>8. CASE RecordBalanceMove(w)
  BY <1>8, <1>s, <1>i, <1>k, <1>d, ForwardTransitionLocal DEF RecordBalanceMove
<1>9. CASE MarkBalanceMoveSent(w)
  BY <1>9, <1>s, <1>t, ForwardTransitionLocal, GoToLocal DEF MarkBalanceMoveSent, Fail
<1>10. CASE VerifyBalanceMove(w)
  BY <1>10, <1>s, <1>t, ForwardTransitionLocal, GoToLocal DEF VerifyBalanceMove, Fail
<1>11. CASE ReadFee(w)
  <2> DEFINE fee == destinationShortfallUsdtMicros(proc[w].doc.destinationAmount,
                        proc[w].doc.destinationStartingBalance, toMicrosRounded(bal["usdt"]))
             skipped == [mig EXCEPT !.feeAmount = fee]
             invoiced(i) == [mig EXCEPT !.feeAmount = fee, !.feeInvoice = i]
  <2>1. fee \in Amounts
    BY <1>b, <1>d, RoundedIsNat, ShortfallIsNat DEF Amounts
  <2>2. \/ ForwardTransition(w, "fee_reimbursed", skipped, "release")
        \/ \E i \in InvoiceIds :
              ForwardTransition(w, "fee_reimbursement_invoice_created", invoiced(i), "release")
    BY <1>11 DEF ReadFee
  <2>3. /\ skipped \in Documents
        /\ skipped.lockedBy = mig.lockedBy /\ skipped.lockStale = mig.lockStale
        /\ \A i \in InvoiceIds :
              /\ invoiced(i) \in Documents
              /\ invoiced(i).lockedBy = mig.lockedBy /\ invoiced(i).lockStale = mig.lockStale
    <3> HIDE DEF fee
    <3> QED BY <1>t, <1>ids, <2>1 DEF Documents
  <2> HIDE DEF skipped, invoiced
  <2> QED BY <1>11, <1>s, <2>2, <2>3, ForwardTransitionLocal DEF ReadFee
<1>12. CASE PrepareFee(w)
  BY <1>12, <1>s, <1>i, <1>k, <1>ids, ForwardTransitionLocal, GoToLocal DEF PrepareFee
<1>13. CASE PayFee(w)
  BY <1>13, <1>s, <1>p, GoToLocal DEF PayFee, Fail
<1>14. CASE RecordFee(w)
  BY <1>14, <1>s, <1>i, <1>k, <1>d, ForwardTransitionLocal DEF RecordFee
<1>15. CASE MarkFeeReimbursed(w)
  BY <1>15, <1>s, <1>t, ForwardTransitionLocal, GoToLocal DEF MarkFeeReimbursed, Fail
<1>16. CASE FlipDefaultPointer(w)
  BY <1>16, <1>s, <1>t DEF FlipDefaultPointer, Local, Processes
<1>17. CASE RecordFlip(w)
  <2>1. \A x \in Wallets \cup {"unset"} :
            /\ [mig EXCEPT !.previousDefaultWalletId = x] \in Documents
            /\ [mig EXCEPT !.previousDefaultWalletId = x].lockedBy = mig.lockedBy
            /\ [mig EXCEPT !.previousDefaultWalletId = x].lockStale = mig.lockStale
    BY <1>t DEF Documents
  <2> QED BY <1>17, <1>s, <1>d, <2>1, ForwardTransitionLocal DEF RecordFlip
<1>18. CASE VerifyLegacyZero(w)
  BY <1>18, <1>s, <1>t, ForwardTransitionLocal, GoToLocal DEF VerifyLegacyZero, Fail
<1>19. CASE CompleteMigration(w)
  BY <1>19, <1>s, <1>t, ForwardTransitionLocal DEF CompleteMigration
<1> QED BY <1>1, <1>2, <1>3, <1>4, <1>5, <1>6, <1>7, <1>8, <1>9, <1>10, <1>11, <1>12,
           <1>13, <1>14, <1>15, <1>16, <1>17, <1>18, <1>19 DEF ForwardStep
\* Every step of the rollback is local.
LEMMA RollbackLocal ==
    ASSUME TypeOK, NEW w \in Workers, RollbackStep(w)
    PROVE  Local(w)
<1> USE DEF At, patchRollbackProgress
<1>s. {"execute", "record_restore", "reverse", "reverse_invoice", "pay_reverse",
       "record_reverse", "verify", "shortfall_invoice", "pay_shortfall", "record_shortfall",
       "release", "mark_failed"} \subseteq Executing
  BY DEF Executing, Pcs
<1>t. mig \in Documents /\ proc[w] \in Processes /\ proc \in [Workers -> Processes]
  BY DEF TypeOK
<1>p. ASSUME NEW pc \in Executing, SettledOutcome(w, pc), UNCHANGED mig, proc[w].pc \in Executing
      PROVE  Local(w)
  BY <1>s, <1>p, GoToLocal DEF SettledOutcome, Fail
<1>k. ASSUME NEW i
      PROVE  /\ [mig EXCEPT !.rollbackPointerRestored = i].lockedBy = mig.lockedBy
             /\ [mig EXCEPT !.rollbackPointerRestored = i].lockStale = mig.lockStale
             /\ [mig EXCEPT !.rollbackInvoice = i].lockedBy = mig.lockedBy
             /\ [mig EXCEPT !.rollbackInvoice = i].lockStale = mig.lockStale
             /\ [mig EXCEPT !.rollbackTransactionId = i].lockedBy = mig.lockedBy
             /\ [mig EXCEPT !.rollbackTransactionId = i].lockStale = mig.lockStale
             /\ [mig EXCEPT !.shortfallInvoice = i].lockedBy = mig.lockedBy
             /\ [mig EXCEPT !.shortfallInvoice = i].lockStale = mig.lockStale
             /\ [mig EXCEPT !.shortfallTransactionId = i].lockedBy = mig.lockedBy
             /\ [mig EXCEPT !.shortfallTransactionId = i].lockStale = mig.lockStale
             /\ [mig EXCEPT !.status = i].lockedBy = mig.lockedBy
             /\ [mig EXCEPT !.status = i].lockStale = mig.lockStale
  BY <1>t DEF Documents
<1>m. ASSUME NEW pc \in Executing, NEW a, proc[w].pc \in Executing, UNCHANGED mig,
             proc' = [proc EXCEPT ![w].pc = pc, ![w].amount = a]
      PROVE  Local(w)
  BY <1>m, <1>t DEF Local, Processes
<1>1. CASE RollbackWrongStatus(w)
  BY <1>1, <1>s, GoToLocal DEF RollbackWrongStatus, Fail
<1>2. CASE RestorePointer(w)
  BY <1>2, <1>s, GoToLocal DEF RestorePointer
<1>3. CASE RecordRestore(w)
  BY <1>3, <1>s, <1>k, TransitionLocal DEF RecordRestore
<1>4. CASE ReadReverseAmount(w)
  <2>1. \/ GoTo(w, "verify") \/ GoTo(w, "mark_failed")
        \/ \E a : proc' = [proc EXCEPT ![w].pc = "reverse_invoice", ![w].amount = a]
    BY <1>4 DEF ReadReverseAmount, Fail
  <2>2. proc[w].pc = "reverse" /\ UNCHANGED mig
    BY <1>4 DEF ReadReverseAmount
  <2> QED BY <2>1, <2>2, <1>s, <1>m, GoToLocal
<1>5. CASE EnsureReverseInvoice(w)
  BY <1>5, <1>s, <1>k, GoToLocal, TransitionLocal DEF EnsureReverseInvoice
<1>6. CASE PayReverse(w)
  BY <1>6, <1>s, <1>p, GoToLocal DEF PayReverse, Fail
<1>7. CASE RecordReverse(w)
  BY <1>7, <1>s, <1>k, TransitionLocal DEF RecordReverse
<1>8. CASE VerifyRollback(w)
  <2>1. \/ transitionMigration(w, "rollback_started",
               [mig EXCEPT !.status = "rolled_back"], "release")
        \/ /\ \E a : proc' = [proc EXCEPT ![w].pc = "shortfall_invoice", ![w].amount = a]
           /\ UNCHANGED mig
        \/ GoTo(w, "mark_failed") /\ UNCHANGED mig
    BY <1>8 DEF VerifyRollback, Fail
  <2>2. proc[w].pc = "verify"
    BY <1>8 DEF VerifyRollback
  <2> QED BY <2>1, <2>2, <1>s, <1>k, <1>m, GoToLocal, TransitionLocal
<1>9. CASE EnsureShortfallInvoice(w)
  BY <1>9, <1>s, <1>k, GoToLocal, TransitionLocal DEF EnsureShortfallInvoice
<1>10. CASE PayShortfall(w)
  BY <1>10, <1>s, <1>p, GoToLocal DEF PayShortfall, Fail
<1>11. CASE RecordShortfall(w)
  BY <1>11, <1>s, <1>k, TransitionLocal DEF RecordShortfall
<1> QED BY <1>1, <1>2, <1>3, <1>4, <1>5, <1>6, <1>7, <1>8, <1>9, <1>10, <1>11
        DEF RollbackStep

\* And so is the failure of a call.
LEMMA StepFailsLocal ==
    ASSUME TypeOK, NEW w \in Workers, StepFails(w)
    PROVE  Local(w)
BY GoToLocal DEF StepFails, Fail, Executing, Pcs

-----------------------------------------------------------------------------
\* The lock.

\* Every step keeps LockInv: acquireMigrationLock succeeds only when nobody
\* executes, and releaseMigrationLock and markMigrationFailed end the execution
\* with the lock.
LEMMA NextLock == TypeOK /\ LockInv /\ [Next]_vars => LockInv'
<1> SUFFICES ASSUME TypeOK, LockInv, [Next]_vars PROVE LockInv'
  OBVIOUS
<1>a. CASE ~StaleMeansDead
  BY <1>a DEF LockInv
<1>b. CASE StaleMeansDead
  <2>t. proc \in [Workers -> Processes] /\ mig \in Documents
    BY DEF TypeOK
  <2>i. IdleProcess.pc \notin Executing /\ ~IdleProcess.seesStale
    BY DEF IdleProcess, Executing
  <2>1. ASSUME NEW w \in Workers, Local(w) PROVE LockInv'
    BY <1>b, <2>1, <2>t DEF LockInv, Local
  <2>2. ASSUME NEW w \in Workers, NEW job \in {"forward", "rollback"}, ListMigration(w, job)
        PROVE  LockInv'
    <3>1. /\ proc'[w].pc = "listed" /\ proc'[w].seesStale = mig.lockStale
          /\ \A v \in Workers \ {w} : proc'[v] = proc[v]
          /\ mig' = mig
      BY <2>2, <2>t DEF ListMigration, Processes
    <3> QED BY <1>b, <3>1 DEF LockInv, Executing
  <2>3. ASSUME NEW w \in Workers, AcquireMigrationLock(w) PROVE LockInv'
    <3>1. CASE /\ mig.lockedBy = NoWorker \/ proc[w].seesStale
               /\ mig' = [mig EXCEPT !.lockedBy = w, !.lockStale = FALSE]
               /\ proc' = [v \in Workers |->
                     IF v = w
                     THEN [proc[v] EXCEPT !.pc = "execute", !.doc = mig', !.seesStale = FALSE]
                     ELSE [proc[v] EXCEPT !.seesStale = FALSE]]
      <4>1. \A v \in Workers : proc[v].pc \notin Executing
        BY <1>b, <3>1, WorkersAssumption DEF LockInv
      <4>2. \A v \in Workers : ~proc'[v].seesStale /\ (v # w => proc'[v].pc = proc[v].pc)
        BY <3>1, <2>t DEF Processes
      <4>3. mig'.lockedBy = w /\ ~mig'.lockStale
        BY <3>1, <2>t DEF Documents
      <4> QED BY <1>b, <4>1, <4>2, <4>3 DEF LockInv
    <3>2. CASE proc' = [proc EXCEPT ![w] = IdleProcess] /\ mig' = mig
      BY <1>b, <3>2, <2>t, <2>i DEF LockInv
    <3> QED BY <2>3, <3>1, <3>2 DEF AcquireMigrationLock
  <2>4. ASSUME NEW w \in Workers, ReleaseMigrationLock(w) \/ MarkMigrationFailed(w)
        PROVE  LockInv'
    <3>1. proc[w].pc \in Executing /\ proc' = [proc EXCEPT ![w] = IdleProcess]
      BY <2>4 DEF ReleaseMigrationLock, MarkMigrationFailed, Executing, Pcs
    <3>2. \A v \in Workers : proc'[v].pc \notin Executing
      BY <1>b, <3>1, <2>t, <2>i DEF LockInv
    <3> QED BY <3>2 DEF LockInv
  <2>5. ASSUME NEW w \in Workers, Crash(w) PROVE LockInv'
    BY <1>b, <2>5, <2>t, <2>i DEF LockInv, Crash
  <2>6. CASE LockGoesStale
    <3>1. \A v \in Workers : proc[v].pc \notin Executing
      BY <1>b, <2>6 DEF LockInv, LockGoesStale
    <3> QED BY <2>6, <3>1 DEF LockInv, LockGoesStale
  <2>7. CASE RequestRollback \/ RetryFailed
    <3>1. proc' = proc /\ mig'.lockedBy = mig.lockedBy /\ mig'.lockStale = mig.lockStale
      BY ZenonT(60), <2>7, <2>t DEF RequestRollback, RetryFailed, Documents
    <3> QED BY <3>1 DEF LockInv
  <2>8. CASE \/ UNCHANGED vars \/ RoutePayment \/ MakePayment \/ ReceivePayment
             \/ \E i \in InvoiceIds : InvoiceExpires(i)
    BY <2>8 DEF LockInv, vars, RoutePayment, MakePayment, ReceivePayment, InvoiceExpires
  <2> QED BY <2>1, <2>2, <2>3, <2>4, <2>5, <2>6, <2>7, <2>8,
             ForwardLocal, RollbackLocal, StepFailsLocal
          DEF Next, WorkerStep, RunnerStep, Environment
<1> QED BY <1>a, <1>b

\* As long as only the lock of a dead process goes stale, a process that
\* executes a step of the migration holds its lock, so two never execute at
\* once, whatever crashes, expires, fails or is requested meanwhile.
THEOREM LockIsExclusive == Spec => []LockExclusive
<1>1. Init => LockInv
  BY SMT DEF Init, LockInv, IdleProcess, Executing
<1>2. LockInv => LockExclusive
  BY DEF LockInv, LockExclusive
<1> QED BY <1>1, <1>2, NextLock, TypeCorrect, PTL DEF Spec

-----------------------------------------------------------------------------
\* Invoices.

\* An invoice that was issued keeps its purpose, and a paid one stays paid.
Growth(inv, new) ==
    \A i \in InvoiceIds : inv[i].purpose # "unused" =>
        /\ new[i].purpose = inv[i].purpose
        /\ inv[i].paid => new[i].paid

\* No invoice was paid on the way from inv to new.
Quiet(inv, new) ==
    \A i \in InvoiceIds : new[i].purpose # "unused" /\ new[i].paid =>
        inv[i].purpose = new[i].purpose /\ inv[i].paid

\* What a document says of the invoices stays true as they grow.
LEMMA DocGrows ==
    ASSUME NEW inv, NEW new, Growth(inv, new), NEW d, DocOK(d, inv)
    PROVE  DocOK(d, new)
BY SMT DEF Growth, DocOK, Issued, PaidOf

\* What a process relies on stays true while invoices are only added and paid.
LEMMA ProcGrows ==
    ASSUME NEW inv, NEW new, Growth(inv, new), NEW p, ProcOK(p, inv)
    PROVE  ProcOK(p, new)
<1>1. DocOK(p.doc, new)
  BY DocGrows DEF ProcOK
<1>2. \A purpose \in Purposes : PaidOf(inv, purpose) \subseteq PaidOf(new, purpose)
  BY DEF Growth, PaidOf, Purposes
<1> QED BY <1>1, <1>2 DEF ProcOK, Purposes

\* Issuing an invoice, and settling one, let the invoices grow.
LEMMA NewInvoiceGrows ==
    ASSUME TypeOK, NEW i \in InvoiceIds, NEW purpose \in Purposes, NewInvoice(i, purpose)
    PROVE  /\ Growth(invoices, invoices') /\ Quiet(invoices, invoices')
           /\ i \in Issued(invoices', purpose)
BY DEF TypeOK, NewInvoice, Growth, Quiet, Issued, Purposes

\* Settling an invoice only adds to what is paid, and touches no other invoice.
LEMMA PaidGrows ==
    ASSUME TypeOK, NEW i \in InvoiceIds, Paid(i)
    PROVE  /\ Growth(invoices, invoices')
           /\ \A purpose \in Purposes :
                 i \in Issued(invoices, purpose) => i \in PaidOf(invoices', purpose)
           /\ \A j \in InvoiceIds : invoices'[j].purpose = invoices[j].purpose
           /\ \A j \in InvoiceIds \ {i} : invoices'[j] = invoices[j]
BY DEF TypeOK, Paid, Growth, Issued, PaidOf, Invoices

\* Leaving the invoices alone is the trivial case of both.
LEMMA SameGrows ==
    ASSUME invoices' = invoices
    PROVE  Growth(invoices, invoices') /\ Quiet(invoices, invoices')
BY DEF Growth, Quiet

-----------------------------------------------------------------------------
\* Steps of one process.

\* What a step of w must establish for Trail to survive it.
TrailStep(w) ==
    /\ Growth(invoices, invoices')
    /\ DocOK(mig', invoices')
    /\ ProcOK(proc'[w], invoices')
    /\ proc'[w].doc.balanceMoveTransactionId # NoInvoice => mig'.balanceMoveTransactionId # NoInvoice
    /\ mig.balanceMoveTransactionId # NoInvoice => mig'.balanceMoveTransactionId # NoInvoice
    /\ MoveComesFirst'

\* While no invoice is paid and the record of the move stays, MoveComesFirst does.
LEMMA QuietMoveFirst ==
    ASSUME MoveComesFirst, Quiet(invoices, invoices'),
           mig.balanceMoveTransactionId # NoInvoice => mig'.balanceMoveTransactionId # NoInvoice
    PROVE  MoveComesFirst'
<1>1. \A p \in Purposes : (paidFor(p))' \subseteq paidFor(p)
  BY DEF Quiet, paidFor, Purposes
<1>2. {"fee", "reverse", "shortfall"} \subseteq Purposes
  BY DEF Purposes
<1> QED BY <1>1, <1>2 DEF MoveComesFirst

\* At these places a process's copy of the document needs no more than DocOK.
PlainPcs == {"idle", "listed", "execute", "release", "mark_failed"}

\* A process that holds no payment relies only on its copy of the document.
LEMMA PlainProc ==
    ASSUME NEW p, p.pc \in PlainPcs, NEW inv, DocOK(p.doc, inv)
    PROVE  ProcOK(p, inv)
BY DEF ProcOK, PlainPcs, UndoPcs, ReversePcs, TopUpPcs

\* A step that fails without a payment keeps the trail.
LEMMA FailTrail ==
    ASSUME TypeOK, Trail, NEW w \in Workers, Fail(w), mig' = mig,
           Growth(invoices, invoices'), Quiet(invoices, invoices')
    PROVE  TrailStep(w)
<1>1. proc'[w].pc = "mark_failed" /\ proc'[w].doc = proc[w].doc
  BY DEF TypeOK, Fail, GoTo, Processes
<1>2. DocOK(mig, invoices') /\ DocOK(proc[w].doc, invoices')
  BY DocGrows DEF Trail, ProcOK
<1>3. ProcOK(proc'[w], invoices')
  BY SMT, <1>1, <1>2, PlainProc DEF PlainPcs
<1>4. MoveComesFirst'
  BY QuietMoveFirst DEF Trail
<1> QED BY <1>1, <1>2, <1>3, <1>4 DEF Trail, TrailStep

\* An update by transitionMigration.
LEMMA TransitionTrail ==
    ASSUME TypeOK, Trail, NEW w \in Workers, NEW pc, NEW from, NEW new,
           transitionMigration(w, from, new, pc),
           Growth(invoices, invoices'), Quiet(invoices, invoices'),
           mig.status = from =>
              /\ DocOK(new, invoices')
              /\ \A p : p.pc = pc /\ p.doc = new => ProcOK(p, invoices')
              /\ mig.balanceMoveTransactionId # NoInvoice => new.balanceMoveTransactionId # NoInvoice
    PROVE  TrailStep(w)
<1>1. CASE mig.status # from
  BY <1>1, FailTrail DEF transitionMigration
<1>2. CASE mig.status = from
  <2>1. mig' = new /\ proc'[w].pc = pc /\ proc'[w].doc = new
    BY <1>2 DEF TypeOK, transitionMigration, Processes
  <2>2. MoveComesFirst'
    BY <1>2, <2>1, QuietMoveFirst DEF Trail
  <2> QED BY <1>2, <2>1, <2>2 DEF TrailStep
<1> QED BY <1>1, <1>2

\* The same for an update that ends the step: the new document is all that counts.
LEMMA UpdateTrail ==
    ASSUME TypeOK, Trail, NEW w \in Workers, NEW from, NEW new,
           transitionMigration(w, from, new, "release"),
           Growth(invoices, invoices'), Quiet(invoices, invoices'),
           mig.status = from =>
              /\ DocOK(new, invoices')
              /\ mig.balanceMoveTransactionId # NoInvoice => new.balanceMoveTransactionId # NoInvoice
    PROVE  TrailStep(w)
BY SMT, TransitionTrail, PlainProc DEF PlainPcs

\* And for a forward step.
LEMMA ForwardTrail ==
    ASSUME TypeOK, Trail, NEW w \in Workers, NEW to, NEW new,
           ForwardTransition(w, to, new, "release"),
           Growth(invoices, invoices'), Quiet(invoices, invoices'),
           mig.status = proc[w].doc.status =>
              /\ DocOK([new EXCEPT !.status = to], invoices')
              /\ mig.balanceMoveTransactionId # NoInvoice =>
                     [new EXCEPT !.status = to].balanceMoveTransactionId # NoInvoice
    PROVE  TrailStep(w)
BY FailTrail, UpdateTrail DEF ForwardTransition
\* A process that only moves on, without an update.
LEMMA GoToTrail ==
    ASSUME TypeOK, Trail, NEW w \in Workers, NEW pc, mig' = mig, invoices' = invoices,
           proc'[w].pc = pc, proc'[w].doc = proc[w].doc,
           \A p : p.pc = pc /\ p.doc = proc[w].doc => ProcOK(p, invoices)
    PROVE  TrailStep(w)
<1>1. MoveComesFirst'
  BY SameGrows, QuietMoveFirst DEF Trail
<1> QED BY <1>1, SameGrows DEF Trail, TrailStep

\* A payment that settles: of the move, or on top of the recorded move.
LEMMA PayTrail ==
    ASSUME TypeOK, Trail, NEW w \in Workers, NEW i \in InvoiceIds, NEW purpose \in Purposes,
           NEW pc, Paid(i), SettledOutcome(w, pc), mig' = mig,
           i \in Issued(invoices, purpose),
           purpose = "move" \/ mig.balanceMoveTransactionId # NoInvoice,
           \A p : p.pc = pc /\ p.doc = proc[w].doc => ProcOK(p, invoices')
    PROVE  TrailStep(w)
<1>1. Growth(invoices, invoices')
  BY PaidGrows
<1>2. DocOK(mig, invoices') /\ DocOK(proc[w].doc, invoices')
  BY <1>1, DocGrows DEF Trail, ProcOK
<1>3. ProcOK(proc'[w], invoices') /\ proc'[w].doc = proc[w].doc
  <2>1. CASE GoTo(w, pc)
    BY <2>1 DEF TypeOK, GoTo, Processes
  <2>2. CASE Fail(w)
    BY SMT, <1>2, <2>2, PlainProc DEF TypeOK, Fail, GoTo, Processes, PlainPcs
  <2> QED BY <2>1, <2>2 DEF SettledOutcome
<1>4. MoveComesFirst'
  <2>1. CASE mig.balanceMoveTransactionId # NoInvoice
    BY <2>1 DEF MoveComesFirst
  <2>2. CASE purpose = "move"
    <3>1. \A p \in {"fee", "reverse", "shortfall"} : (paidFor(p))' \subseteq paidFor(p)
      BY <2>2, PaidGrows DEF paidFor, Issued, Purposes
    <3> QED BY <3>1 DEF Trail, MoveComesFirst
  <2> QED BY <2>1, <2>2
<1> QED BY <1>1, <1>2, <1>3, <1>4 DEF Trail, TrailStep

\* A forward step that replaces an expired invoice goes on to pay the new one.
LEMMA RefreshTrail ==
    ASSUME TypeOK, Trail, NEW w \in Workers, NEW to, NEW new, NEW pc,
           ForwardTransition(w, to, new, pc),
           Growth(invoices, invoices'), Quiet(invoices, invoices'),
           mig.status = proc[w].doc.status =>
              /\ DocOK([new EXCEPT !.status = to], invoices')
              /\ \A p : p.pc = pc /\ p.doc = [new EXCEPT !.status = to] => ProcOK(p, invoices')
              /\ mig.balanceMoveTransactionId # NoInvoice =>
                     [new EXCEPT !.status = to].balanceMoveTransactionId # NoInvoice
    PROVE  TrailStep(w)
BY FailTrail, TransitionTrail DEF ForwardTransition

\* Every step of the forward pipeline keeps the trail.
LEMMA ForwardKeepsTrail ==
    ASSUME TypeOK, Trail, NEW w \in Workers, ForwardStep(w)
    PROVE  TrailStep(w)
<1> USE DEF Step, At
<1>t. mig \in Documents /\ proc[w] \in Processes /\ proc[w].doc \in Documents
  BY DEF TypeOK, Processes
<1>d. DocOK(mig, invoices) /\ ProcOK(proc[w], invoices) /\ DocOK(proc[w].doc, invoices)
  BY DEF Trail, ProcOK
<1>g. ASSUME Growth(invoices, invoices') PROVE DocOK(mig, invoices')
  BY <1>d, <1>g, DocGrows
<1>z. NoInvoice \notin InvoiceIds
  BY InvoiceIdsAssumption DEF NoInvoice
<1>go. ASSUME NEW pc, GoTo(w, pc)
       PROVE  proc'[w].pc = pc /\ proc'[w].doc = proc[w].doc
  BY <1>go DEF TypeOK, GoTo, Processes
<1> USE DEF BeforeMove, BeforeFee, AfterMove, PreMoneyStatuses
<1>1. CASE SkipTerminal(w)
  <2>1. \A p : p.pc = "release" /\ p.doc = proc[w].doc => ProcOK(p, invoices)
    BY SMT, <1>d, PlainProc DEF PlainPcs
  <2> QED BY <1>1, <1>go, <2>1, GoToTrail DEF SkipTerminal
<1>2. CASE StartMigration(w)
  <2>1. mig.status = "not_started" => DocOK([mig EXCEPT !.status = "started"], invoices')
    BY SMT, <1>2, <1>d, <1>t DEF StartMigration, DocOK, Documents
  <2> QED BY <1>2, <1>t, <2>1, SameGrows, ForwardTrail DEF StartMigration, Documents
<1>3. CASE ProvisionDestination(w)
  <2>1. mig.status = "started" => DocOK([mig EXCEPT !.status = "provisioned"], invoices')
    BY SMT, <1>3, <1>d, <1>t DEF ProvisionDestination, DocOK, Documents
  <2> QED BY <1>3, <1>t, <2>1, SameGrows, ForwardTrail DEF ProvisionDestination, Documents
<1>4. CASE RecordBalance(w)
  <2> DEFINE new == [mig EXCEPT !.sourceBalance = bal["legacy"],
                        !.destinationAmount = toMicrosRounded(bal["legacy"]),
                        !.destinationStartingBalance = toMicrosRounded(bal["usdt"])]
  <2>1. mig.status = "provisioned" => DocOK([new EXCEPT !.status = "balance_read"], invoices')
    BY SMT, <1>4, <1>d, <1>t DEF RecordBalance, DocOK, Documents
  <2>2. [new EXCEPT !.status = "balance_read"].balanceMoveTransactionId
            = mig.balanceMoveTransactionId
    BY <1>t DEF Documents
  <2>3. ForwardTransition(w, "balance_read", new, "release")
    BY <1>4 DEF RecordBalance
  <2> HIDE DEF new
  <2> QED BY <1>4, <2>1, <2>2, <2>3, SameGrows, ForwardTrail DEF RecordBalance
<1>5. CASE CreateBalanceMoveInvoice(w)
  <2>1. PICK i \in InvoiceIds :
          /\ NewInvoice(i, "move")
          /\ ForwardTransition(w, "invoice_created",
                [mig EXCEPT !.balanceMoveInvoice = i], "release")
    BY <1>5 DEF CreateBalanceMoveInvoice
  <2>2. Growth(invoices, invoices') /\ Quiet(invoices, invoices') /\ i \in Issued(invoices', "move")
    BY <2>1, NewInvoiceGrows DEF Purposes
  <2> DEFINE new == [mig EXCEPT !.balanceMoveInvoice = i]
  <2>3. mig.status = "balance_read" => DocOK([new EXCEPT !.status = "invoice_created"], invoices')
    BY <1>g, <1>t, <1>z, <2>2 DEF DocOK, Documents
  <2>4. [new EXCEPT !.status = "invoice_created"].balanceMoveTransactionId
            = mig.balanceMoveTransactionId
    BY <1>t DEF Documents
  <2> HIDE DEF new
  <2>5. ForwardTransition(w, "invoice_created", new, "release")
    BY <2>1 DEF new
  <2> QED BY <1>5, <2>2, <2>3, <2>4, <2>5, ForwardTrail DEF CreateBalanceMoveInvoice
<1>pc. ASSUME NEW p, NEW inv, DocOK(p.doc, inv)
       PROVE  /\ p.pc = "pay_move" /\ p.doc.status = "invoice_created" => ProcOK(p, inv)
              /\ p.pc = "record_move" /\ p.doc.status = "invoice_created"
                    /\ p.doc.balanceMoveInvoice \in PaidOf(inv, "move") => ProcOK(p, inv)
              /\ p.pc = "pay_fee" /\ p.doc.status = "fee_reimbursement_invoice_created"
                    => ProcOK(p, inv)
              /\ p.pc = "record_fee" /\ p.doc.status = "fee_reimbursement_invoice_created"
                    /\ p.doc.feeInvoice \in PaidOf(inv, "fee") => ProcOK(p, inv)
              /\ p.pc = "record_flip" /\ p.doc.status \in {"balance_read", "fee_reimbursed"}
                    => ProcOK(p, inv)
  BY <1>pc DEF ProcOK, UndoPcs, ReversePcs, TopUpPcs
<1>6. CASE PrepareBalanceMove(w)
  <2>1. CASE GoTo(w, "pay_move") /\ UNCHANGED <<mig, invoices>>
    <3>1. \A p : p.pc = "pay_move" /\ p.doc = proc[w].doc => ProcOK(p, invoices)
      BY <1>6, <1>d, <1>pc DEF PrepareBalanceMove
    <3> QED BY <1>go, <2>1, <3>1, GoToTrail
  <2>2. ASSUME NEW i \in InvoiceIds, NewInvoice(i, "move"),
               ForwardTransition(w, "invoice_created",
                   [mig EXCEPT !.balanceMoveInvoice = i], "pay_move")
        PROVE  TrailStep(w)
    <3> DEFINE new == [mig EXCEPT !.balanceMoveInvoice = i]
               upd == [new EXCEPT !.status = "invoice_created"]
    <3>1. Growth(invoices, invoices') /\ Quiet(invoices, invoices')
          /\ i \in Issued(invoices', "move")
      BY <2>2, NewInvoiceGrows DEF Purposes
    <3>2. mig.status = "invoice_created" => DocOK(upd, invoices')
      BY <1>g, <1>t, <1>z, <3>1 DEF DocOK, Documents
    <3>3. /\ upd.balanceMoveTransactionId = mig.balanceMoveTransactionId
          /\ upd.status = "invoice_created"
      BY <1>t DEF Documents
    <3>4. mig.status = "invoice_created" =>
             \A p : p.pc = "pay_move" /\ p.doc = upd => ProcOK(p, invoices')
      <4> HIDE DEF upd
      <4> QED BY <3>2, <3>3, <1>pc
    <3>5. ForwardTransition(w, "invoice_created", new, "pay_move")
      BY <2>2
    <3>6. proc[w].doc.status = "invoice_created"
      BY <1>6 DEF PrepareBalanceMove
    <3> HIDE DEF new
    <3> QED BY <3>1, <3>2, <3>3, <3>4, <3>5, <3>6, RefreshTrail
  <2> QED BY <1>6, <2>1, <2>2 DEF PrepareBalanceMove
<1>7. CASE PayBalanceMove(w)
  <2> DEFINE i == proc[w].doc.balanceMoveInvoice
  <2>0. proc[w].pc = "pay_move" /\ mig' = mig
    BY <1>7 DEF PayBalanceMove
  <2>1. proc[w].doc.status = "invoice_created" /\ i \in InvoiceIds /\ i \in Issued(invoices, "move")
    BY <1>d, <1>t, <2>0 DEF ProcOK, DocOK, Issued
  <2>2. CASE Paid(i) /\ SettledOutcome(w, "record_move")
    <3>1. DocOK(proc[w].doc, invoices') /\ i \in PaidOf(invoices', "move")
      BY <1>d, <2>1, <2>2, PaidGrows, DocGrows DEF Purposes
    <3>2. \A p : p.pc = "record_move" /\ p.doc = proc[w].doc => ProcOK(p, invoices')
      BY <3>1, <2>1, <1>pc
    <3> QED BY <2>0, <2>1, <2>2, <3>2, PayTrail DEF Purposes
  <2>3. CASE Fail(w) /\ UNCHANGED invoices
    BY <2>0, <2>3, SameGrows, FailTrail
  <2> QED BY <1>7, <2>2, <2>3 DEF PayBalanceMove
<1>8. CASE RecordBalanceMove(w)
  <2> DEFINE new == [mig EXCEPT !.balanceMoveTransactionId = proc[w].doc.balanceMoveInvoice]
             upd == [new EXCEPT !.status = "balance_move_sending"]
  <2>0. proc[w].pc = "record_move" /\ invoices' = invoices
    BY <1>8 DEF RecordBalanceMove
  <2>1. /\ proc[w].doc.status = "invoice_created"
        /\ proc[w].doc.balanceMoveInvoice \in PaidOf(invoices, "move")
        /\ proc[w].doc.balanceMoveInvoice # NoInvoice
    BY <1>d, <2>0, <1>z DEF ProcOK, PaidOf
  <2>2. mig.status = "invoice_created" => DocOK(upd, invoices')
    BY <1>d, <1>t, <2>0, <2>1 DEF DocOK, Documents
  <2>3. upd.balanceMoveTransactionId # NoInvoice
    BY <1>t, <2>1 DEF Documents
  <2>4. ForwardTransition(w, "balance_move_sending", new, "release")
    BY <1>8 DEF RecordBalanceMove
  <2> HIDE DEF new
  <2> QED BY <2>0, <2>1, <2>2, <2>3, <2>4, SameGrows, ForwardTrail
<1>9. CASE MarkBalanceMoveSent(w)
  <2>1. mig.status = "balance_move_sending" =>
            DocOK([mig EXCEPT !.status = "balance_move_sent"], invoices')
    BY SMT, <1>9, <1>d, <1>t DEF MarkBalanceMoveSent, DocOK, Documents
  <2> QED BY <1>9, <1>t, <2>1, SameGrows, ForwardTrail, FailTrail DEF MarkBalanceMoveSent, Documents
<1>10. CASE VerifyBalanceMove(w)
  <2>1. mig.status = "balance_move_sent" =>
            DocOK([mig EXCEPT !.status = "balance_move_verified"], invoices')
    BY SMT, <1>10, <1>d, <1>t DEF VerifyBalanceMove, DocOK, Documents
  <2> QED BY <1>10, <1>t, <2>1, SameGrows, ForwardTrail, FailTrail DEF VerifyBalanceMove, Documents
<1>11. CASE ReadFee(w)
  <2> DEFINE fee == destinationShortfallUsdtMicros(proc[w].doc.destinationAmount,
                        proc[w].doc.destinationStartingBalance, toMicrosRounded(bal["usdt"]))
             skipped == [mig EXCEPT !.feeAmount = fee]
             skipUpd == [skipped EXCEPT !.status = "fee_reimbursed"]
  <2>0. proc[w].doc.status = "balance_move_verified"
    BY <1>11 DEF ReadFee
  <2>1. CASE ForwardTransition(w, "fee_reimbursed", skipped, "release") /\ UNCHANGED invoices
    <3> HIDE DEF fee
    <3>1. DocOK(skipUpd, invoices')
      BY SMT, <1>d, <1>t, <2>1 DEF DocOK, Documents
    <3>2. skipUpd.balanceMoveTransactionId = mig.balanceMoveTransactionId
      BY <1>t DEF Documents
    <3> HIDE DEF skipped
    <3> QED BY <2>1, <3>1, <3>2, SameGrows, ForwardTrail
  <2>2. ASSUME NEW i \in InvoiceIds, NewInvoice(i, "fee"),
               ForwardTransition(w, "fee_reimbursement_invoice_created",
                          [mig EXCEPT !.feeAmount = fee, !.feeInvoice = i], "release")
        PROVE  TrailStep(w)
    <3> HIDE DEF fee
    <3> DEFINE new == [mig EXCEPT !.feeAmount = fee, !.feeInvoice = i]
               upd == [new EXCEPT !.status = "fee_reimbursement_invoice_created"]
    <3>1. Growth(invoices, invoices') /\ Quiet(invoices, invoices')
          /\ i \in Issued(invoices', "fee")
      BY <2>2, NewInvoiceGrows DEF Purposes
    <3>2. mig.status = "balance_move_verified" => DocOK(upd, invoices')
      BY <1>g, <1>t, <1>z, <3>1 DEF DocOK, Documents
    <3>3. upd.balanceMoveTransactionId = mig.balanceMoveTransactionId
      BY <1>t DEF Documents
    <3>4. ForwardTransition(w, "fee_reimbursement_invoice_created", new, "release")
      BY <2>2
    <3> HIDE DEF new
    <3> QED BY <2>0, <3>1, <3>2, <3>3, <3>4, ForwardTrail
  <2>3. \/ ForwardTransition(w, "fee_reimbursed", skipped, "release") /\ UNCHANGED invoices
        \/ \E i \in InvoiceIds : 
              /\ NewInvoice(i, "fee")
              /\ ForwardTransition(w, "fee_reimbursement_invoice_created",
                          [mig EXCEPT !.feeAmount = fee, !.feeInvoice = i], "release")
    BY <1>11 DEF ReadFee
  <2> HIDE DEF fee
  <2> QED BY <2>1, <2>2, <2>3
<1>12. CASE PrepareFee(w)
  <2>0. proc[w].doc.status = "fee_reimbursement_invoice_created"
    BY <1>12 DEF PrepareFee
  <2>1. CASE GoTo(w, "pay_fee") /\ UNCHANGED <<mig, invoices>>
    <3>1. \A p : p.pc = "pay_fee" /\ p.doc = proc[w].doc => ProcOK(p, invoices)
      BY <2>0, <1>d, <1>pc
    <3> QED BY <1>go, <2>1, <3>1, GoToTrail
  <2>2. ASSUME NEW i \in InvoiceIds, NewInvoice(i, "fee"),
               ForwardTransition(w, "fee_reimbursement_invoice_created",
                   [mig EXCEPT !.feeInvoice = i], "pay_fee")
        PROVE  TrailStep(w)
    <3> DEFINE new == [mig EXCEPT !.feeInvoice = i]
               upd == [new EXCEPT !.status = "fee_reimbursement_invoice_created"]
    <3>1. Growth(invoices, invoices') /\ Quiet(invoices, invoices')
          /\ i \in Issued(invoices', "fee")
      BY <2>2, NewInvoiceGrows DEF Purposes
    <3>2. mig.status = "fee_reimbursement_invoice_created" => DocOK(upd, invoices')
      BY <1>g, <1>t, <1>z, <3>1 DEF DocOK, Documents
    <3>3. /\ upd.balanceMoveTransactionId = mig.balanceMoveTransactionId
          /\ upd.status = "fee_reimbursement_invoice_created"
      BY <1>t DEF Documents
    <3>4. mig.status = "fee_reimbursement_invoice_created" =>
             \A p : p.pc = "pay_fee" /\ p.doc = upd => ProcOK(p, invoices')
      <4> HIDE DEF upd
      <4> QED BY <3>2, <3>3, <1>pc
    <3>5. ForwardTransition(w, "fee_reimbursement_invoice_created", new, "pay_fee")
      BY <2>2
    <3> HIDE DEF new
    <3> QED BY <2>0, <3>1, <3>2, <3>3, <3>4, <3>5, RefreshTrail
  <2> QED BY <1>12, <2>1, <2>2 DEF PrepareFee
<1>13. CASE PayFee(w)
  <2> DEFINE i == proc[w].doc.feeInvoice
  <2>0. proc[w].pc = "pay_fee" /\ mig' = mig
    BY <1>13 DEF PayFee
  <2>1. /\ proc[w].doc.status = "fee_reimbursement_invoice_created"
        /\ i \in InvoiceIds /\ i \in Issued(invoices, "fee")
        /\ proc[w].doc.balanceMoveTransactionId # NoInvoice
    BY <1>d, <1>t, <2>0 DEF ProcOK, DocOK, Issued
  <2>2. CASE Paid(i) /\ SettledOutcome(w, "record_fee")
    <3>1. DocOK(proc[w].doc, invoices') /\ i \in PaidOf(invoices', "fee")
      BY <1>d, <2>1, <2>2, PaidGrows, DocGrows DEF Purposes
    <3>2. \A p : p.pc = "record_fee" /\ p.doc = proc[w].doc => ProcOK(p, invoices')
      BY <3>1, <2>1, <1>pc
    <3>3. mig.balanceMoveTransactionId # NoInvoice
      BY <2>1 DEF Trail
    <3> QED BY <2>0, <2>1, <2>2, <3>2, <3>3, PayTrail DEF Purposes
  <2>3. CASE Fail(w) /\ UNCHANGED invoices
    BY <2>0, <2>3, SameGrows, FailTrail
  <2> QED BY <1>13, <2>2, <2>3 DEF PayFee
<1>14. CASE RecordFee(w)
  <2> DEFINE new == [mig EXCEPT !.feeTransactionId = proc[w].doc.feeInvoice]
             upd == [new EXCEPT !.status = "fee_reimbursement_sending"]
  <2>0. proc[w].pc = "record_fee" /\ invoices' = invoices
    BY <1>14 DEF RecordFee
  <2>1. /\ proc[w].doc.status = "fee_reimbursement_invoice_created"
        /\ proc[w].doc.feeInvoice \in PaidOf(invoices, "fee")
    BY <1>d, <2>0 DEF ProcOK
  <2>2. mig.status = "fee_reimbursement_invoice_created" => DocOK(upd, invoices')
    BY SMT, <1>d, <1>t, <2>0, <2>1 DEF DocOK, Documents
  <2>3. upd.balanceMoveTransactionId = mig.balanceMoveTransactionId
    BY <1>t DEF Documents
  <2>4. ForwardTransition(w, "fee_reimbursement_sending", new, "release")
    BY <1>14 DEF RecordFee
  <2> HIDE DEF new
  <2> QED BY <2>0, <2>1, <2>2, <2>3, <2>4, SameGrows, ForwardTrail
<1>15. CASE MarkFeeReimbursed(w)
  <2>1. DocOK([mig EXCEPT !.status = "fee_reimbursed"], invoices')
    BY SMT, <1>15, <1>d, <1>t DEF MarkFeeReimbursed, DocOK, Documents
  <2> QED BY <1>15, <1>t, <2>1, SameGrows, ForwardTrail, FailTrail DEF MarkFeeReimbursed, Documents
<1>16. CASE FlipDefaultPointer(w)
  <2>1. /\ proc'[w].pc = "record_flip"
        /\ proc'[w].doc = [proc[w].doc EXCEPT !.previousDefaultWalletId = default]
        /\ proc[w].doc.status \in {"balance_read", "fee_reimbursed"}
        /\ mig' = mig /\ invoices' = invoices
    BY <1>16 DEF FlipDefaultPointer, TypeOK, Processes
  <2>2. DocOK(proc'[w].doc, invoices') /\ proc'[w].doc.status = proc[w].doc.status
        /\ proc'[w].doc.balanceMoveTransactionId = proc[w].doc.balanceMoveTransactionId
    BY SMT, <2>1, <1>t, <1>d DEF DocOK, Documents
  <2>3. ProcOK(proc'[w], invoices')
    BY <2>1, <2>2, <1>pc
  <2>4. MoveComesFirst'
    BY <2>1, SameGrows, QuietMoveFirst DEF Trail
  <2> QED BY <2>1, <2>2, <2>3, <2>4, SameGrows DEF TrailStep, Trail
<1>17. CASE RecordFlip(w)
  <2> DEFINE new == [mig EXCEPT !.previousDefaultWalletId = proc[w].doc.previousDefaultWalletId]
             upd == [new EXCEPT !.status = "pointer_flipped"]
  <2>1. DocOK(upd, invoices')
    BY SMT, <1>17, <1>d, <1>t DEF RecordFlip, DocOK, Documents
  <2>2. upd.balanceMoveTransactionId = mig.balanceMoveTransactionId
    BY <1>t DEF Documents
  <2>3. ForwardTransition(w, "pointer_flipped", new, "release") /\ invoices' = invoices
    BY <1>17 DEF RecordFlip
  <2> HIDE DEF new
  <2> QED BY <2>1, <2>2, <2>3, SameGrows, ForwardTrail
<1>18. CASE VerifyLegacyZero(w)
  <2>1. DocOK([mig EXCEPT !.status = "legacy_zero_verified"], invoices')
    BY SMT, <1>18, <1>d, <1>t DEF VerifyLegacyZero, DocOK, Documents
  <2> QED BY <1>18, <1>t, <2>1, SameGrows, ForwardTrail, FailTrail DEF VerifyLegacyZero, Documents
<1>19. CASE CompleteMigration(w)
  <2>1. DocOK([mig EXCEPT !.status = "complete"], invoices')
    BY SMT, <1>19, <1>d, <1>t DEF CompleteMigration, DocOK, Documents
  <2> QED BY <1>19, <1>t, <2>1, SameGrows, ForwardTrail DEF CompleteMigration, Documents
<1> QED BY <1>1, <1>2, <1>3, <1>4, <1>5, <1>6, <1>7, <1>8, <1>9, <1>10, <1>11, <1>12,
           <1>13, <1>14, <1>15, <1>16, <1>17, <1>18, <1>19 DEF ForwardStep

\* Every step of the rollback keeps the trail.
LEMMA RollbackKeepsTrail ==
    ASSUME TypeOK, Trail, NEW w \in Workers, RollbackStep(w)
    PROVE  TrailStep(w)
<1> USE DEF At, patchRollbackProgress
<1>t. mig \in Documents /\ proc[w] \in Processes /\ proc[w].doc \in Documents
  BY DEF TypeOK, Processes
<1>d. DocOK(mig, invoices) /\ ProcOK(proc[w], invoices) /\ DocOK(proc[w].doc, invoices)
  BY DEF Trail, ProcOK
<1>g. ASSUME Growth(invoices, invoices') PROVE DocOK(mig, invoices')
  BY <1>d, <1>g, DocGrows
<1>z. NoInvoice \notin InvoiceIds
  BY InvoiceIdsAssumption DEF NoInvoice
<1>go. ASSUME NEW pc, GoTo(w, pc)
       PROVE  proc'[w].pc = pc /\ proc'[w].doc = proc[w].doc
  BY <1>go DEF TypeOK, GoTo, Processes
<1>am. ASSUME NEW pc, NEW a, proc' = [proc EXCEPT ![w].pc = pc, ![w].amount = a]
       PROVE  proc'[w].pc = pc /\ proc'[w].doc = proc[w].doc
  BY <1>am DEF TypeOK, Processes
<1>pc. ASSUME NEW p, NEW inv, DocOK(p.doc, inv), p.doc.status = "rollback_started"
       PROVE  /\ p.pc \in {"record_restore", "reverse", "verify"} => ProcOK(p, inv)
              /\ p.doc.balanceMoveTransactionId # NoInvoice =>
                   /\ p.pc \in {"reverse_invoice", "shortfall_invoice"} => ProcOK(p, inv)
                   /\ p.pc = "pay_reverse" /\ p.doc.rollbackInvoice # NoInvoice => ProcOK(p, inv)
                   /\ p.pc = "pay_shortfall" /\ p.doc.shortfallInvoice # NoInvoice => ProcOK(p, inv)
                   /\ p.pc = "record_reverse" /\ p.doc.rollbackInvoice # NoInvoice
                        /\ p.doc.rollbackInvoice \in PaidOf(inv, "reverse") => ProcOK(p, inv)
                   /\ p.pc = "record_shortfall" /\ p.doc.shortfallInvoice # NoInvoice
                        /\ p.doc.shortfallInvoice \in PaidOf(inv, "shortfall") => ProcOK(p, inv)
  BY <1>pc DEF ProcOK, UndoPcs, ReversePcs, TopUpPcs
<1>r. ASSUME proc[w].pc \in UndoPcs \cup {"record_restore"}
      PROVE  proc[w].doc.status = "rollback_started"
  BY <1>d, <1>r DEF ProcOK
<1>m. ASSUME proc[w].pc \in ReversePcs \cup TopUpPcs
      PROVE  /\ proc[w].doc.balanceMoveTransactionId # NoInvoice
             /\ mig.balanceMoveTransactionId # NoInvoice
  BY <1>d, <1>m DEF ProcOK, Trail
<1>f. ASSUME Fail(w), mig' = mig, invoices' = invoices PROVE TrailStep(w)
  BY <1>f, SameGrows, FailTrail
<1>1. CASE RollbackWrongStatus(w)
  BY <1>1, <1>f DEF RollbackWrongStatus
<1>2. CASE RestorePointer(w)
  <2>1. \A p : p.pc \in {"record_restore", "reverse"} /\ p.doc = proc[w].doc => ProcOK(p, invoices)
    BY <1>2, <1>d, <1>pc DEF RestorePointer
  <2> QED BY <1>2, <1>go, <2>1, GoToTrail DEF RestorePointer
<1>3. CASE RecordRestore(w)
  <2> DEFINE new == [mig EXCEPT !.rollbackPointerRestored = TRUE]
  <2>1. /\ DocOK(new, invoices') /\ new.status = mig.status
        /\ new.balanceMoveTransactionId = mig.balanceMoveTransactionId
    BY SMT, <1>3, <1>d, <1>t DEF RecordRestore, DocOK, Documents
  <2>2. transitionMigration(w, "rollback_started", new, "reverse") /\ invoices' = invoices
    BY <1>3 DEF RecordRestore
  <2> HIDE DEF new
  <2>3. mig.status = "rollback_started" =>
            \A p : p.pc = "reverse" /\ p.doc = new => ProcOK(p, invoices')
    BY <2>1, <1>pc
  <2> QED BY <2>1, <2>2, <2>3, SameGrows, TransitionTrail
<1>4. CASE ReadReverseAmount(w)
  <2>0. proc[w].pc = "reverse" /\ mig' = mig /\ invoices' = invoices
    BY <1>4 DEF ReadReverseAmount
  <2>1. \/ GoTo(w, "verify") \/ Fail(w)
        \/ /\ proc[w].doc.balanceMoveTransactionId # NoInvoice
           /\ \E a : proc' = [proc EXCEPT ![w].pc = "reverse_invoice", ![w].amount = a]
    BY <1>4 DEF ReadReverseAmount, forwardMovedFunds
  <2>2. proc[w].doc.status = "rollback_started"
    BY <2>0, <1>r DEF UndoPcs
  <2>3. \A p : p.pc = "verify" /\ p.doc = proc[w].doc => ProcOK(p, invoices)
    BY <2>2, <1>d, <1>pc
  <2>4. proc[w].doc.balanceMoveTransactionId # NoInvoice =>
            \A p : p.pc = "reverse_invoice" /\ p.doc = proc[w].doc => ProcOK(p, invoices)
    BY <2>2, <1>d, <1>pc
  <2> QED BY <2>0, <2>1, <2>3, <2>4, <1>f, <1>go, <1>am, GoToTrail
<1>5. CASE EnsureReverseInvoice(w)
  <2>0. /\ proc[w].pc = "reverse_invoice"
        /\ proc[w].doc.status = "rollback_started"
        /\ proc[w].doc.balanceMoveTransactionId # NoInvoice
        /\ mig.balanceMoveTransactionId # NoInvoice
    BY <1>5, <1>r, <1>m DEF EnsureReverseInvoice, UndoPcs, ReversePcs
  <2>1. CASE /\ proc[w].doc.rollbackInvoice # NoInvoice
             /\ GoTo(w, "pay_reverse") /\ UNCHANGED <<mig, invoices>>
    <3>1. \A p : p.pc = "pay_reverse" /\ p.doc = proc[w].doc => ProcOK(p, invoices)
      BY <2>0, <2>1, <1>d, <1>pc
    <3> QED BY <2>1, <3>1, <1>go, GoToTrail
  <2>2. ASSUME NEW i \in InvoiceIds, NewInvoice(i, "reverse"),
               transitionMigration(w, "rollback_started",
                   [mig EXCEPT !.rollbackInvoice = i], "pay_reverse")
        PROVE  TrailStep(w)
    <3> DEFINE new == [mig EXCEPT !.rollbackInvoice = i]
    <3>1. Growth(invoices, invoices') /\ Quiet(invoices, invoices')
          /\ i \in Issued(invoices', "reverse")
      BY <2>2, NewInvoiceGrows DEF Purposes
    <3>2. /\ DocOK(new, invoices') /\ new.status = mig.status
          /\ new.rollbackInvoice # NoInvoice
          /\ new.balanceMoveTransactionId = mig.balanceMoveTransactionId
      BY SMT, <1>g, <1>t, <1>z, <3>1 DEF DocOK, Documents
    <3>3. transitionMigration(w, "rollback_started", new, "pay_reverse")
      BY <2>2
    <3> HIDE DEF new
    <3>4. mig.status = "rollback_started" =>
              \A p : p.pc = "pay_reverse" /\ p.doc = new => ProcOK(p, invoices')
      BY <2>0, <3>2, <1>pc
    <3> QED BY <3>1, <3>2, <3>3, <3>4, TransitionTrail
  <2> QED BY <1>5, <2>1, <2>2 DEF EnsureReverseInvoice
<1>6. CASE PayReverse(w)
  <2> DEFINE i == proc[w].doc.rollbackInvoice
  <2>0. proc[w].pc = "pay_reverse" /\ mig' = mig
    BY <1>6 DEF PayReverse
  <2>1. /\ proc[w].doc.status = "rollback_started"
        /\ proc[w].doc.balanceMoveTransactionId # NoInvoice
        /\ mig.balanceMoveTransactionId # NoInvoice
        /\ i # NoInvoice /\ i \in InvoiceIds /\ i \in Issued(invoices, "reverse")
    BY <2>0, <1>d, <1>r, <1>m DEF ProcOK, DocOK, Issued, UndoPcs, ReversePcs
  <2>2. CASE Paid(i) /\ SettledOutcome(w, "record_reverse")
    <3>1. DocOK(proc[w].doc, invoices') /\ i \in PaidOf(invoices', "reverse")
      BY <1>d, <2>1, <2>2, PaidGrows, DocGrows DEF Purposes
    <3>2. \A p : p.pc = "record_reverse" /\ p.doc = proc[w].doc => ProcOK(p, invoices')
      BY <3>1, <2>1, <1>pc
    <3> QED BY <2>0, <2>1, <2>2, <3>2, PayTrail DEF Purposes
  <2>3. CASE Fail(w) /\ UNCHANGED invoices
    BY <2>0, <2>3, <1>f
  <2> QED BY <1>6, <2>2, <2>3 DEF PayReverse
<1>7. CASE RecordReverse(w)
  <2> DEFINE new == [mig EXCEPT !.rollbackTransactionId = proc[w].doc.rollbackInvoice]
  <2>0. proc[w].pc = "record_reverse" /\ invoices' = invoices
    BY <1>7 DEF RecordReverse
  <2>1. proc[w].doc.rollbackInvoice \in PaidOf(invoices, "reverse")
    BY <1>d, <2>0 DEF ProcOK
  <2>2. /\ DocOK(new, invoices') /\ new.status = mig.status
        /\ new.balanceMoveTransactionId = mig.balanceMoveTransactionId
    BY SMT, <1>d, <1>t, <2>0, <2>1 DEF DocOK, Documents
  <2>3. transitionMigration(w, "rollback_started", new, "verify")
    BY <1>7 DEF RecordReverse
  <2> HIDE DEF new
  <2>4. mig.status = "rollback_started" =>
            \A p : p.pc = "verify" /\ p.doc = new => ProcOK(p, invoices')
    BY <2>2, <1>pc
  <2> QED BY <2>0, <2>2, <2>3, <2>4, SameGrows, TransitionTrail
<1>8. CASE VerifyRollback(w)
  <2>0. proc[w].pc = "verify" /\ invoices' = invoices
    BY <1>8 DEF VerifyRollback
  <2>1. \/ transitionMigration(w, "rollback_started",
               [mig EXCEPT !.status = "rolled_back"], "release")
        \/ /\ proc[w].doc.balanceMoveTransactionId # NoInvoice
           /\ \E a : proc' = [proc EXCEPT ![w].pc = "shortfall_invoice", ![w].amount = a]
           /\ mig' = mig
        \/ Fail(w) /\ mig' = mig
    BY <1>8 DEF VerifyRollback, forwardMovedFunds
  <2>2. /\ DocOK([mig EXCEPT !.status = "rolled_back"], invoices')
        /\ [mig EXCEPT !.status = "rolled_back"].balanceMoveTransactionId
               = mig.balanceMoveTransactionId
    BY SMT, <2>0, <1>d, <1>t
       DEF DocOK, Documents, BeforeMove, BeforeFee, AfterMove, PreMoneyStatuses
  <2>3. proc[w].doc.balanceMoveTransactionId # NoInvoice =>
            \A p : p.pc = "shortfall_invoice" /\ p.doc = proc[w].doc => ProcOK(p, invoices)
    BY <2>0, <1>d, <1>r, <1>pc DEF UndoPcs
  <2> QED BY <2>0, <2>1, <2>2, <2>3, <1>f, <1>am, SameGrows, UpdateTrail, GoToTrail
<1>9. CASE EnsureShortfallInvoice(w)
  <2>0. /\ proc[w].pc = "shortfall_invoice"
        /\ proc[w].doc.status = "rollback_started"
        /\ proc[w].doc.balanceMoveTransactionId # NoInvoice
        /\ mig.balanceMoveTransactionId # NoInvoice
    BY <1>9, <1>r, <1>m DEF EnsureShortfallInvoice, UndoPcs, TopUpPcs
  <2>1. CASE /\ proc[w].doc.shortfallInvoice # NoInvoice
             /\ GoTo(w, "pay_shortfall") /\ UNCHANGED <<mig, invoices>>
    <3>1. \A p : p.pc = "pay_shortfall" /\ p.doc = proc[w].doc => ProcOK(p, invoices)
      BY <2>0, <2>1, <1>d, <1>pc
    <3> QED BY <2>1, <3>1, <1>go, GoToTrail
  <2>2. ASSUME NEW i \in InvoiceIds, NewInvoice(i, "shortfall"),
               transitionMigration(w, "rollback_started",
                   [mig EXCEPT !.shortfallInvoice = i], "pay_shortfall")
        PROVE  TrailStep(w)
    <3> DEFINE new == [mig EXCEPT !.shortfallInvoice = i]
    <3>1. Growth(invoices, invoices') /\ Quiet(invoices, invoices')
          /\ i \in Issued(invoices', "shortfall")
      BY <2>2, NewInvoiceGrows DEF Purposes
    <3>2. /\ DocOK(new, invoices') /\ new.status = mig.status
          /\ new.shortfallInvoice # NoInvoice
          /\ new.balanceMoveTransactionId = mig.balanceMoveTransactionId
      BY SMT, <1>g, <1>t, <1>z, <3>1 DEF DocOK, Documents
    <3>3. transitionMigration(w, "rollback_started", new, "pay_shortfall")
      BY <2>2
    <3> HIDE DEF new
    <3>4. mig.status = "rollback_started" =>
              \A p : p.pc = "pay_shortfall" /\ p.doc = new => ProcOK(p, invoices')
      BY <2>0, <3>2, <1>pc
    <3> QED BY <3>1, <3>2, <3>3, <3>4, TransitionTrail
  <2> QED BY <1>9, <2>1, <2>2 DEF EnsureShortfallInvoice
<1>10. CASE PayShortfall(w)
  <2> DEFINE i == proc[w].doc.shortfallInvoice
  <2>0. proc[w].pc = "pay_shortfall" /\ mig' = mig
    BY <1>10 DEF PayShortfall
  <2>1. /\ proc[w].doc.status = "rollback_started"
        /\ proc[w].doc.balanceMoveTransactionId # NoInvoice
        /\ mig.balanceMoveTransactionId # NoInvoice
        /\ i # NoInvoice /\ i \in InvoiceIds /\ i \in Issued(invoices, "shortfall")
    BY <2>0, <1>d, <1>r, <1>m DEF ProcOK, DocOK, Issued, UndoPcs, TopUpPcs
  <2>2. CASE Paid(i) /\ SettledOutcome(w, "record_shortfall")
    <3>1. DocOK(proc[w].doc, invoices') /\ i \in PaidOf(invoices', "shortfall")
      BY <1>d, <2>1, <2>2, PaidGrows, DocGrows DEF Purposes
    <3>2. \A p : p.pc = "record_shortfall" /\ p.doc = proc[w].doc => ProcOK(p, invoices')
      BY <3>1, <2>1, <1>pc
    <3> QED BY <2>0, <2>1, <2>2, <3>2, PayTrail DEF Purposes
  <2>3. CASE Fail(w) /\ UNCHANGED invoices
    BY <2>0, <2>3, <1>f
  <2> QED BY <1>10, <2>2, <2>3 DEF PayShortfall
<1>11. CASE RecordShortfall(w)
  <2> DEFINE new == [mig EXCEPT !.shortfallTransactionId = proc[w].doc.shortfallInvoice]
  <2>0. proc[w].pc = "record_shortfall" /\ invoices' = invoices
    BY <1>11 DEF RecordShortfall
  <2>1. proc[w].doc.shortfallInvoice \in PaidOf(invoices, "shortfall")
    BY <1>d, <2>0 DEF ProcOK
  <2>2. /\ DocOK(new, invoices')
        /\ new.balanceMoveTransactionId = mig.balanceMoveTransactionId
    BY SMT, <1>d, <1>t, <2>0, <2>1 DEF DocOK, Documents
  <2>3. transitionMigration(w, "rollback_started", new, "release")
    BY <1>11 DEF RecordShortfall
  <2> HIDE DEF new
  <2> QED BY <2>0, <2>2, <2>3, SameGrows, UpdateTrail
<1> QED BY <1>1, <1>2, <1>3, <1>4, <1>5, <1>6, <1>7, <1>8, <1>9, <1>10, <1>11
        DEF RollbackStep

-----------------------------------------------------------------------------
\* All steps.

\* Trail is inductive.
LEMMA NextTrail == TypeOK /\ Trail /\ [Next]_vars => Trail'
<1> SUFFICES ASSUME TypeOK, Trail, [Next]_vars PROVE Trail'
  OBVIOUS
<1>t. /\ mig \in Documents /\ proc \in [Workers -> Processes]
      /\ invoices \in [InvoiceIds -> Invoices]
  BY DEF TypeOK
<1>d. /\ DocOK(mig, invoices) /\ MoveComesFirst
      /\ \A v \in Workers : /\ ProcOK(proc[v], invoices) /\ DocOK(proc[v].doc, invoices)
                            /\ proc[v].doc.balanceMoveTransactionId # NoInvoice =>
                                  mig.balanceMoveTransactionId # NoInvoice
  BY DEF Trail, ProcOK
<1>i. /\ DocOK(UpsertedDocument, invoices) /\ ProcOK(IdleProcess, invoices)
      /\ IdleProcess.doc.balanceMoveTransactionId = NoInvoice
  <2>1. DocOK(UpsertedDocument, invoices)
    BY DEF DocOK, UpsertedDocument, BeforeFee, AfterMove
  <2>2. IdleProcess.pc = "idle" /\ IdleProcess.doc = UpsertedDocument
    BY DEF IdleProcess
  <2>3. ProcOK(IdleProcess, invoices)
    BY SMT, <2>1, <2>2, PlainProc DEF PlainPcs
  <2> QED BY SMT, <2>1, <2>2, <2>3 DEF UpsertedDocument
\* A step of a process.
<1>1. ASSUME NEW w \in Workers, TrailStep(w), \A v \in Workers \ {w} : proc'[v] = proc[v]
      PROVE  Trail'
  <2>1. \A v \in Workers : ProcOK(proc'[v], invoices')
    BY <1>1, <1>d, ProcGrows DEF TrailStep
  <2>2. \A v \in Workers : proc'[v].doc.balanceMoveTransactionId # NoInvoice =>
                               mig'.balanceMoveTransactionId # NoInvoice
    BY <1>1, <1>d DEF TrailStep
  <2> QED BY <1>1, <2>1, <2>2 DEF TrailStep, Trail
<1>2. ASSUME NEW w \in Workers, ForwardStep(w) \/ RollbackStep(w) PROVE Trail'
  BY <1>1, <1>2, ForwardKeepsTrail, RollbackKeepsTrail, ForwardLocal, RollbackLocal DEF Local
<1>3. ASSUME NEW w \in Workers, StepFails(w) PROVE Trail'
  <2>1. TrailStep(w)
    BY <1>3, FailTrail, SameGrows DEF StepFails
  <2> QED BY <1>1, <1>3, <2>1, StepFailsLocal DEF Local
\* A change of the document that keeps the trail in it, at most with a process
\* that starts from the new document or stops.
<1>4. ASSUME invoices' = invoices, DocOK(mig', invoices'),
             mig'.balanceMoveTransactionId = mig.balanceMoveTransactionId,
             \A v \in Workers :
                \/ proc'[v] = IdleProcess
                \/ proc'[v].pc \in PlainPcs /\ proc'[v].doc \in {proc[v].doc, mig'}
                \/ proc'[v].pc = proc[v].pc /\ proc'[v].doc = proc[v].doc
      PROVE  Trail'
  <2>1. ASSUME NEW v \in Workers
        PROVE  /\ ProcOK(proc'[v], invoices')
               /\ proc'[v].doc.balanceMoveTransactionId # NoInvoice =>
                      mig'.balanceMoveTransactionId # NoInvoice
    <3>1. CASE proc'[v] = IdleProcess
      BY <1>4, <1>i, <3>1
    <3>2. CASE proc'[v].pc \in PlainPcs /\ proc'[v].doc \in {proc[v].doc, mig'}
      BY <1>4, <1>d, <3>2, PlainProc
    <3>3. CASE proc'[v].pc = proc[v].pc /\ proc'[v].doc = proc[v].doc
      BY <1>4, <1>d, <3>3 DEF ProcOK
    <3> QED BY <1>4, <3>1, <3>2, <3>3
  <2>2. MoveComesFirst'
    BY <1>4, <1>d, SameGrows, QuietMoveFirst
  <2> QED BY <1>4, <2>1, <2>2 DEF Trail
<1>5. ASSUME NEW w \in Workers, RunnerStep(w) \/ Crash(w) PROVE Trail'
  <2>1. ASSUME NEW job \in {"forward", "rollback"}, ListMigration(w, job) PROVE Trail'
    <3>1. /\ invoices' = invoices /\ mig' = mig
          /\ proc'[w].pc = "listed" /\ proc'[w].doc = proc[w].doc
          /\ \A v \in Workers \ {w} : proc'[v] = proc[v]
      BY <2>1, <1>t DEF ListMigration, Processes
    <3> QED BY <1>4, <1>d, <3>1 DEF PlainPcs
  <2>2. CASE AcquireMigrationLock(w)
    <3>1. CASE /\ mig' = [mig EXCEPT !.lockedBy = w, !.lockStale = FALSE]
               /\ proc' = [v \in Workers |->
                     IF v = w
                     THEN [proc[v] EXCEPT !.pc = "execute", !.doc = mig', !.seesStale = FALSE]
                     ELSE [proc[v] EXCEPT !.seesStale = FALSE]]
      <4>1. /\ proc'[w].pc = "execute" /\ proc'[w].doc = mig'
            /\ \A v \in Workers \ {w} : proc'[v].pc = proc[v].pc /\ proc'[v].doc = proc[v].doc
        BY <3>1, <1>t DEF Processes
      <4>2. DocOK(mig', invoices) /\ mig'.balanceMoveTransactionId = mig.balanceMoveTransactionId
        BY ZenonT(60), <3>1, <1>t, <1>d DEF DocOK, Documents
      <4>3. invoices' = invoices
        BY <2>2 DEF AcquireMigrationLock
      <4> QED BY <1>4, <4>1, <4>2, <4>3 DEF PlainPcs
    <3>2. CASE proc' = [proc EXCEPT ![w] = IdleProcess] /\ mig' = mig
      BY <1>4, <1>d, <1>t, <2>2, <3>2 DEF AcquireMigrationLock
    <3> QED BY <2>2, <3>1, <3>2 DEF AcquireMigrationLock
  <2>3. CASE ReleaseMigrationLock(w) \/ MarkMigrationFailed(w) \/ Crash(w)
    <3>1. invoices' = invoices /\ proc' = [proc EXCEPT ![w] = IdleProcess]
      BY <2>3 DEF ReleaseMigrationLock, MarkMigrationFailed, Crash
    <3>2. ASSUME NEW s \in {"failed", "requires_operator_review"}
          PROVE  /\ DocOK([mig EXCEPT !.status = s, !.lockedBy = NoWorker, !.lockStale = FALSE],
                          invoices)
                 /\ [mig EXCEPT !.status = s, !.lockedBy = NoWorker, !.lockStale = FALSE]
                        .balanceMoveTransactionId = mig.balanceMoveTransactionId
      BY SMT, <3>2, <1>t, <1>d
         DEF DocOK, Documents, BeforeMove, BeforeFee, AfterMove, PreMoneyStatuses
    <3>3. /\ DocOK([mig EXCEPT !.lockedBy = NoWorker, !.lockStale = FALSE], invoices)
          /\ [mig EXCEPT !.lockedBy = NoWorker, !.lockStale = FALSE].balanceMoveTransactionId
                 = mig.balanceMoveTransactionId
      BY SMT, <1>t, <1>d DEF DocOK, Documents
    <3>4. \/ mig' = mig
          \/ mig' = [mig EXCEPT !.lockedBy = NoWorker, !.lockStale = FALSE]
          \/ \E s \in {"failed", "requires_operator_review"} :
                mig' = [mig EXCEPT !.status = s, !.lockedBy = NoWorker, !.lockStale = FALSE]
      BY <2>3 DEF ReleaseMigrationLock, MarkMigrationFailed, Crash, failureStatusForMigration
    <3>5. DocOK(mig', invoices) /\ mig'.balanceMoveTransactionId = mig.balanceMoveTransactionId
      BY <3>2, <3>3, <3>4, <1>d
    <3> QED BY <1>4, <1>t, <3>1, <3>5
  <2> QED BY <1>5, <2>1, <2>2, <2>3 DEF RunnerStep
<1>6. CASE Environment
  <2>1. CASE LockGoesStale \/ RequestRollback \/ RetryFailed
    <3>1. invoices' = invoices /\ proc' = proc
      BY <2>1 DEF LockGoesStale, RequestRollback, RetryFailed
    <3>2. DocOK(mig', invoices) /\ mig'.balanceMoveTransactionId = mig.balanceMoveTransactionId
      <4> USE DEF DocOK, Documents, BeforeMove, BeforeFee, AfterMove, PreMoneyStatuses
      <4>1. CASE LockGoesStale
        BY SMT, <4>1, <1>t, <1>d DEF LockGoesStale
      <4>2. CASE RequestRollback
        BY SMT, <4>2, <1>t, <1>d DEF RequestRollback
      <4>3. CASE RetryFailed
        BY SMT, <4>3, <1>t, <1>d DEF RetryFailed
      <4> QED BY <2>1, <4>1, <4>2, <4>3
    <3> QED BY <1>4, <3>1, <3>2
  <2>2. CASE RoutePayment \/ MakePayment \/ ReceivePayment
    BY <2>2, <1>4, <1>d DEF RoutePayment, MakePayment, ReceivePayment
  <2>3. ASSUME NEW i \in InvoiceIds, InvoiceExpires(i) PROVE Trail'
    <3>1. /\ \A j \in InvoiceIds : invoices'[j].purpose = invoices[j].purpose
                                   /\ invoices'[j].paid = invoices[j].paid
          /\ mig' = mig /\ proc' = proc
      BY <2>3, <1>t DEF InvoiceExpires, Invoices
    <3>2. Growth(invoices, invoices') /\ Quiet(invoices, invoices')
      BY <3>1 DEF Growth, Quiet
    <3>3. DocOK(mig', invoices') /\ \A v \in Workers : ProcOK(proc'[v], invoices')
      BY <1>d, <3>1, <3>2, DocGrows, ProcGrows
    <3>4. MoveComesFirst'
      BY <1>d, <3>1, <3>2, QuietMoveFirst
    <3> QED BY <1>d, <3>1, <3>3, <3>4 DEF Trail
  <2> QED BY <1>6, <2>1, <2>2, <2>3 DEF Environment
<1>7. CASE UNCHANGED vars
  BY <1>7, <1>4, <1>d DEF vars
<1> QED BY <1>2, <1>3, <1>5, <1>6, <1>7 DEF Next, WorkerStep

\* The trail is empty at the start.
LEMMA InitTrail == Init => Trail
<1> SUFFICES ASSUME Init PROVE Trail
  OBVIOUS
<1>1. DocOK(UpsertedDocument, invoices)
  BY DEF DocOK, UpsertedDocument, BeforeFee, AfterMove
<1>2. \A w \in Workers : proc[w].pc = "idle" /\ proc[w].doc = UpsertedDocument
  BY DEF Init, IdleProcess
<1>3. \A w \in Workers : ProcOK(proc[w], invoices)
  BY SMT, <1>1, <1>2, PlainProc DEF PlainPcs
<1>4. MoveComesFirst
  BY DEF Init, MoveComesFirst, paidFor
<1> QED BY <1>1, <1>2, <1>3, <1>4 DEF Init, Trail, UpsertedDocument

\* The trail holds always.
LEMMA TrailInvariant == Spec => []Trail
BY InitTrail, NextTrail, TypeCorrect, PTL DEF Spec

\* A transaction id in the document names an invoice of its own kind that IBEX
\* has settled: the worker writes it only after payInvoice returned, for the
\* invoice of the very document copy it paid with, and a refreshed invoice, a
\* retry, a rollback or an overtaking process does not make it false.
THEOREM RecordsAreTrue == Spec => []RecordedMeansPaid
<1>1. Trail => RecordedMeansPaid
  BY DEF Trail, DocOK, RecordedMeansPaid, transactionOf, Purposes, PaidOf, paidFor
<1> QED BY <1>1, TrailInvariant, PTL

\* The treasury pays no fee and no top-up, and nothing is sent back, before the
\* move of the balance is in the document: the later statuses are reached only
\* through its record (executeCashWalletMigrationStep), the rollback looks for
\* it (forwardMovedFunds), and no step clears it.
THEOREM MoveIsFirst == Spec => []MoveComesFirst
<1>1. Trail => MoveComesFirst
  BY DEF Trail
<1> QED BY <1>1, TrailInvariant, PTL

-----------------------------------------------------------------------------
\* What one step of an executing process does to the records.

PayPc == [move |-> "pay_move", fee |-> "pay_fee",
          reverse |-> "pay_reverse", shortfall |-> "pay_shortfall"]
RecordPc == [move |-> "record_move", fee |-> "record_fee",
             reverse |-> "record_reverse", shortfall |-> "record_shortfall"]

SameRecords ==
    /\ \A kind \in Purposes : transactionOf(mig', kind) = transactionOf(mig, kind)
    /\ mig'.rollbackPointerRestored = mig.rollbackPointerRestored

\* It makes one payment, or records one, or records that the pointer is
\* restored, or does none of these.
Pays(w, kind) ==
    /\ proc[w].pc = PayPc[kind] /\ mig' = mig
    /\ \E i \in Issued(invoices, kind) : Paid(i)

Records(w, kind) ==
    /\ proc[w].pc = RecordPc[kind] /\ invoices' = invoices
    /\ mig.status = proc[w].doc.status
    /\ transactionOf(mig', kind) \in PaidOf(invoices, kind)
    /\ \A k \in Purposes \ {kind} : transactionOf(mig', k) = transactionOf(mig, k)
    /\ mig'.rollbackPointerRestored = mig.rollbackPointerRestored

Restores(w) ==
    /\ proc[w].pc = "record_restore" /\ invoices' = invoices
    /\ \A k \in Purposes : transactionOf(mig', k) = transactionOf(mig, k)
    /\ mig'.rollbackPointerRestored = TRUE

Bookless ==
    /\ Growth(invoices, invoices') /\ Quiet(invoices, invoices')
    /\ SameRecords

BookStep(w) ==
    \/ \E kind \in Purposes : Pays(w, kind) \/ Records(w, kind)
    \/ Restores(w)
    \/ Bookless

\* Its copy of the document stays as it was, but for the default it has found,
\* or is the document it has just written.
SameCopy(w) ==
    /\ mig' = mig
    /\ proc'[w].doc.status = proc[w].doc.status
    /\ SameContents(proc'[w].doc, proc[w].doc)
    /\ proc'[w].doc.previousDefaultWalletId \in {proc[w].doc.previousDefaultWalletId, default}

ForwardPcs == {"pay_move", "record_move", "pay_fee", "record_fee", "record_flip"}

\* A forward step.
ForwardEffect(w) ==
    /\ proc[w].job = "forward" /\ proc'[w].pc \in ForwardPcs \cup {"release", "mark_failed"}
    /\ proc'[w].pc = "mark_failed" =>
           SameCopy(w) /\ proc[w].doc.status \notin TERMINAL_STATUSES
    /\ \/ SameCopy(w)
       \/ /\ proc[w].doc.status \notin TERMINAL_STATUSES
          /\ mig.status = proc[w].doc.status
          /\ proc'[w].doc = mig'
          /\ mig'.rollbackPointerRestored = mig.rollbackPointerRestored
          /\ mig'.rollbackTransactionId = mig.rollbackTransactionId
          /\ mig'.shortfallTransactionId = mig.shortfallTransactionId
          /\ mig'.previousDefaultWalletId \in
                 {mig.previousDefaultWalletId, proc[w].doc.previousDefaultWalletId}
    /\ BookStep(w)

\* A step that writes nothing is bookless and keeps the copy.
LEMMA MoveOnEffect ==
    ASSUME TypeOK, NEW w \in Workers, NEW pc, GoTo(w, pc), mig' = mig,
           Growth(invoices, invoices'), Quiet(invoices, invoices')
    PROVE  /\ SameCopy(w) /\ Bookless
           /\ proc'[w].pc = pc /\ proc'[w].job = proc[w].job
BY DEF TypeOK, GoTo, Processes, SameCopy, SameContents, Bookless, SameRecords

\* A forward update, whatever it does to the records of forward payments.
LEMMA ForwardUpdateEffect ==
    ASSUME TypeOK, NEW w \in Workers, NEW pc \in ForwardPcs \cup {"release"}, NEW to, NEW new,
           proc[w].job = "forward", proc[w].doc.status \notin TERMINAL_STATUSES,
           ForwardTransition(w, to, new, pc),
           Growth(invoices, invoices'), Quiet(invoices, invoices'),
           LET upd == [new EXCEPT !.status = to] IN
             /\ upd.rollbackPointerRestored = mig.rollbackPointerRestored
             /\ upd.rollbackTransactionId = mig.rollbackTransactionId
             /\ upd.shortfallTransactionId = mig.shortfallTransactionId
             /\ upd.previousDefaultWalletId \in
                    {mig.previousDefaultWalletId, proc[w].doc.previousDefaultWalletId}
             /\ mig.status = proc[w].doc.status /\ mig' = upd => BookStep(w)
    PROVE  ForwardEffect(w)
<1> DEFINE upd == [new EXCEPT !.status = to]
<1>1. CASE Fail(w) /\ mig' = mig
  BY <1>1, MoveOnEffect DEF Fail, ForwardEffect, BookStep
<1>2. CASE /\ mig.status = proc[w].doc.status /\ mig' = upd
           /\ proc' = [proc EXCEPT ![w].pc = pc, ![w].doc = upd]
  <2> HIDE DEF upd
  <2>1. proc'[w].pc = pc /\ proc'[w].doc = mig'
    BY <1>2 DEF TypeOK, Processes
  <2>2. pc # "mark_failed"
    BY DEF ForwardPcs
  <2> QED BY <1>2, <2>1, <2>2 DEF ForwardEffect, upd
<1> QED BY <1>1, <1>2 DEF ForwardTransition, transitionMigration

\* The usual case: the records stay.
LEMMA PlainForwardEffect ==
    ASSUME TypeOK, NEW w \in Workers, NEW pc \in ForwardPcs \cup {"release"}, NEW to, NEW new,
           proc[w].job = "forward", proc[w].doc.status \notin TERMINAL_STATUSES,
           ForwardTransition(w, to, new, pc),
           Growth(invoices, invoices'), Quiet(invoices, invoices'),
           LET upd == [new EXCEPT !.status = to] IN
             /\ upd.rollbackPointerRestored = mig.rollbackPointerRestored
             /\ upd.previousDefaultWalletId \in
                    {mig.previousDefaultWalletId, proc[w].doc.previousDefaultWalletId}
             /\ \A kind \in Purposes : transactionOf(upd, kind) = transactionOf(mig, kind)
    PROVE  ForwardEffect(w)
<1> DEFINE upd == [new EXCEPT !.status = to]
<1>1. /\ upd.rollbackTransactionId = mig.rollbackTransactionId
      /\ upd.shortfallTransactionId = mig.shortfallTransactionId
  <2> HIDE DEF upd
  <2> QED BY DEF transactionOf, Purposes, upd
<1>2. mig' = upd => BookStep(w)
  <2> HIDE DEF upd
  <2> QED BY DEF BookStep, Bookless, SameRecords, upd
<1> QED BY <1>1, <1>2, ForwardUpdateEffect

\* A payment.
LEMMA PayEffect ==
    ASSUME TypeOK, NEW w \in Workers, NEW kind \in Purposes, NEW i \in Issued(invoices, kind),
           NEW pc, proc[w].pc = PayPc[kind], Paid(i), SettledOutcome(w, pc), mig' = mig
    PROVE  /\ SameCopy(w) /\ BookStep(w) /\ proc'[w].job = proc[w].job
           /\ proc'[w].pc \in {pc, "mark_failed"}
<1>1. BookStep(w)
  BY DEF BookStep, Pays
<1>2. SameCopy(w) /\ proc'[w].job = proc[w].job /\ proc'[w].pc \in {pc, "mark_failed"}
  BY SMT DEF SettledOutcome, Fail, GoTo, SameCopy, SameContents, TypeOK, Processes
<1> QED BY <1>1, <1>2

\* Every action of the forward pipeline has such an effect.
LEMMA ForwardHasEffect ==
    ASSUME TypeOK, Trail, NEW w \in Workers, ForwardStep(w)
    PROVE  ForwardEffect(w)
<1> USE DEF Step, At
<1>t. mig \in Documents /\ proc[w] \in Processes /\ proc[w].doc \in Documents
  BY DEF TypeOK, Processes
<1>d. ProcOK(proc[w], invoices) /\ DocOK(proc[w].doc, invoices)
  BY DEF Trail, ProcOK
<1>n. ASSUME proc[w].doc.status \in {"not_started", "started", "provisioned", "balance_read",
             "invoice_created", "balance_move_sending", "balance_move_sent",
             "balance_move_verified", "fee_reimbursement_invoice_created",
             "fee_reimbursement_sending", "fee_reimbursed", "pointer_flipped",
             "legacy_zero_verified"}
      PROVE  proc[w].doc.status \notin TERMINAL_STATUSES
  BY <1>n DEF TERMINAL_STATUSES
<1>f. ASSUME proc[w].job = "forward", proc[w].doc.status \notin TERMINAL_STATUSES,
             Fail(w), mig' = mig, invoices' = invoices
      PROVE  ForwardEffect(w)
  BY <1>f, SameGrows, MoveOnEffect DEF Fail, ForwardEffect, BookStep
<1>g. ASSUME proc[w].job = "forward", NEW pc \in ForwardPcs \cup {"release"},
             GoTo(w, pc), mig' = mig, invoices' = invoices
      PROVE  ForwardEffect(w)
  BY <1>g, SameGrows, MoveOnEffect DEF ForwardPcs, ForwardEffect, BookStep
\* A step that writes the status alone.
<1>p. ASSUME proc[w].job = "forward", proc[w].doc.status \notin TERMINAL_STATUSES,
             NEW to, ForwardTransition(w, to, mig, "release"), invoices' = invoices
      PROVE  ForwardEffect(w)
  <2>1. /\ [mig EXCEPT !.status = to].rollbackPointerRestored = mig.rollbackPointerRestored
        /\ [mig EXCEPT !.status = to].previousDefaultWalletId = mig.previousDefaultWalletId
        /\ \A kind \in Purposes :
              transactionOf([mig EXCEPT !.status = to], kind) = transactionOf(mig, kind)
    BY <1>t DEF Documents, transactionOf, Purposes
  <2> QED BY <1>p, <2>1, SameGrows, PlainForwardEffect
<1>1. CASE SkipTerminal(w)
  BY <1>1, <1>g DEF SkipTerminal
<1>2. CASE StartMigration(w)
  BY <1>2, <1>n, <1>p DEF StartMigration
<1>3. CASE ProvisionDestination(w)
  BY <1>3, <1>n, <1>p DEF ProvisionDestination
<1>9. CASE MarkBalanceMoveSent(w)
  BY <1>9, <1>n, <1>p, <1>f DEF MarkBalanceMoveSent
<1>10. CASE VerifyBalanceMove(w)
  BY <1>10, <1>n, <1>p, <1>f DEF VerifyBalanceMove
<1>15. CASE MarkFeeReimbursed(w)
  BY <1>15, <1>n, <1>p, <1>f DEF MarkFeeReimbursed
<1>18. CASE VerifyLegacyZero(w)
  BY <1>18, <1>n, <1>p, <1>f DEF VerifyLegacyZero
<1>19. CASE CompleteMigration(w)
  BY <1>19, <1>n, <1>p DEF CompleteMigration
\* A step that writes other fields, but no record.
<1>4. CASE RecordBalance(w)
  <2> DEFINE new == [mig EXCEPT !.sourceBalance = bal["legacy"],
                        !.destinationAmount = toMicrosRounded(bal["legacy"]),
                        !.destinationStartingBalance = toMicrosRounded(bal["usdt"])]
  <2>1. /\ [new EXCEPT !.status = "balance_read"].rollbackPointerRestored
               = mig.rollbackPointerRestored
        /\ [new EXCEPT !.status = "balance_read"].previousDefaultWalletId
               = mig.previousDefaultWalletId
        /\ \A kind \in Purposes :
              transactionOf([new EXCEPT !.status = "balance_read"], kind) = transactionOf(mig, kind)
    BY <1>t DEF Documents, transactionOf, Purposes
  <2>2. /\ ForwardTransition(w, "balance_read", new, "release") /\ invoices' = invoices
        /\ proc[w].job = "forward" /\ proc[w].doc.status = "provisioned"
    BY <1>4 DEF RecordBalance
  <2> HIDE DEF new
  <2> QED BY <1>n, <2>1, <2>2, SameGrows, PlainForwardEffect
<1>inv. ASSUME NEW i
        PROVE  LET a == [[mig EXCEPT !.balanceMoveInvoice = i] EXCEPT !.status = "invoice_created"]
                   b == [[mig EXCEPT !.feeInvoice = i]
                            EXCEPT !.status = "fee_reimbursement_invoice_created"]
               IN  /\ a.rollbackPointerRestored = mig.rollbackPointerRestored
                   /\ b.rollbackPointerRestored = mig.rollbackPointerRestored
                   /\ a.previousDefaultWalletId = mig.previousDefaultWalletId
                   /\ b.previousDefaultWalletId = mig.previousDefaultWalletId
                   /\ \A kind \in Purposes : /\ transactionOf(a, kind) = transactionOf(mig, kind)
                                             /\ transactionOf(b, kind) = transactionOf(mig, kind)
  BY <1>t DEF Documents, transactionOf, Purposes
<1>5. CASE CreateBalanceMoveInvoice(w)
  BY <1>5, <1>n, <1>inv, NewInvoiceGrows, PlainForwardEffect DEF CreateBalanceMoveInvoice, Purposes
<1>6. CASE PrepareBalanceMove(w)
  <2>1. CASE GoTo(w, "pay_move") /\ UNCHANGED <<mig, invoices>>
    BY <1>6, <1>g, <2>1 DEF PrepareBalanceMove, ForwardPcs
  <2>2. ASSUME NEW i \in InvoiceIds, NewInvoice(i, "move"),
               ForwardTransition(w, "invoice_created",
                   [mig EXCEPT !.balanceMoveInvoice = i], "pay_move")
        PROVE  ForwardEffect(w)
    BY <1>6, <2>2, <1>n, <1>inv, NewInvoiceGrows, PlainForwardEffect
       DEF PrepareBalanceMove, Purposes, ForwardPcs
  <2> QED BY <1>6, <2>1, <2>2 DEF PrepareBalanceMove
<1>11. CASE ReadFee(w)
  <2> DEFINE fee == destinationShortfallUsdtMicros(proc[w].doc.destinationAmount,
                        proc[w].doc.destinationStartingBalance, toMicrosRounded(bal["usdt"]))
             skipped == [mig EXCEPT !.feeAmount = fee]
             invoiced(i) == [mig EXCEPT !.feeAmount = fee, !.feeInvoice = i]
  <2>0. proc[w].job = "forward" /\ proc[w].doc.status = "balance_move_verified"
    BY <1>11 DEF ReadFee
  <2>1. \/ ForwardTransition(w, "fee_reimbursed", skipped, "release") /\ invoices' = invoices
        \/ \E i \in InvoiceIds :
              /\ NewInvoice(i, "fee")
              /\ ForwardTransition(w, "fee_reimbursement_invoice_created", invoiced(i), "release")
    BY <1>11 DEF ReadFee
  <2>3. CASE ForwardTransition(w, "fee_reimbursed", skipped, "release") /\ invoices' = invoices
    <3>1. /\ [skipped EXCEPT !.status = "fee_reimbursed"].rollbackPointerRestored
                 = mig.rollbackPointerRestored
          /\ [skipped EXCEPT !.status = "fee_reimbursed"].previousDefaultWalletId
                 = mig.previousDefaultWalletId
          /\ \A kind \in Purposes :
                transactionOf([skipped EXCEPT !.status = "fee_reimbursed"], kind)
                    = transactionOf(mig, kind)
      <4> HIDE DEF fee
      <4> QED BY <1>t DEF Documents, transactionOf, Purposes
    <3> HIDE DEF skipped
    <3> QED BY <2>0, <2>3, <3>1, <1>n, SameGrows, PlainForwardEffect
  <2>4. ASSUME NEW i \in InvoiceIds, NewInvoice(i, "fee"),
               ForwardTransition(w, "fee_reimbursement_invoice_created", invoiced(i), "release")
        PROVE  ForwardEffect(w)
    <3> DEFINE new == invoiced(i)
    <3>1. /\ [new EXCEPT !.status = "fee_reimbursement_invoice_created"].rollbackPointerRestored
                 = mig.rollbackPointerRestored
          /\ [new EXCEPT !.status = "fee_reimbursement_invoice_created"].previousDefaultWalletId
                 = mig.previousDefaultWalletId
          /\ \A kind \in Purposes :
                transactionOf([new EXCEPT !.status = "fee_reimbursement_invoice_created"], kind)
                    = transactionOf(mig, kind)
      <4> HIDE DEF fee
      <4> QED BY <1>t DEF Documents, transactionOf, Purposes
    <3>2. Growth(invoices, invoices') /\ Quiet(invoices, invoices')
      BY <2>4, NewInvoiceGrows DEF Purposes
    <3>3. ForwardTransition(w, "fee_reimbursement_invoice_created", new, "release")
      BY <2>4
    <3> HIDE DEF new
    <3> QED BY <2>0, <3>1, <3>2, <3>3, <1>n, PlainForwardEffect
  <2> HIDE DEF fee
  <2> QED BY <2>1, <2>3, <2>4
<1>12. CASE PrepareFee(w)
  <2>1. CASE GoTo(w, "pay_fee") /\ UNCHANGED <<mig, invoices>>
    BY <1>12, <1>g, <2>1 DEF PrepareFee, ForwardPcs
  <2>2. ASSUME NEW i \in InvoiceIds, NewInvoice(i, "fee"),
               ForwardTransition(w, "fee_reimbursement_invoice_created",
                   [mig EXCEPT !.feeInvoice = i], "pay_fee")
        PROVE  ForwardEffect(w)
    BY <1>12, <2>2, <1>n, <1>inv, NewInvoiceGrows, PlainForwardEffect
       DEF PrepareFee, Purposes, ForwardPcs
  <2> QED BY <1>12, <2>1, <2>2 DEF PrepareFee
<1>16. CASE FlipDefaultPointer(w)
  <2>1. /\ proc[w].job = "forward" /\ proc'[w].pc = "record_flip"
        /\ proc'[w].doc = [proc[w].doc EXCEPT !.previousDefaultWalletId = default]
        /\ mig' = mig /\ invoices' = invoices
    BY <1>16 DEF FlipDefaultPointer, TypeOK, Processes
  <2>2. SameCopy(w)
    BY <2>1, <1>t DEF SameCopy, SameContents, Documents
  <2>3. Bookless
    BY <2>1, SameGrows DEF Bookless, SameRecords
  <2> QED BY <2>1, <2>2, <2>3 DEF ForwardEffect, ForwardPcs, BookStep
<1>17. CASE RecordFlip(w)
  <2> DEFINE new == [mig EXCEPT !.previousDefaultWalletId = proc[w].doc.previousDefaultWalletId]
  <2>1. /\ [new EXCEPT !.status = "pointer_flipped"].rollbackPointerRestored
               = mig.rollbackPointerRestored
        /\ [new EXCEPT !.status = "pointer_flipped"].previousDefaultWalletId
               = proc[w].doc.previousDefaultWalletId
        /\ \A kind \in Purposes :
              transactionOf([new EXCEPT !.status = "pointer_flipped"], kind)
                  = transactionOf(mig, kind)
    BY <1>t DEF Documents, transactionOf, Purposes
  <2>2. /\ ForwardTransition(w, "pointer_flipped", new, "release") /\ invoices' = invoices
        /\ proc[w].job = "forward" /\ proc[w].pc = "record_flip"
    BY <1>17 DEF RecordFlip
  <2>3. proc[w].doc.status \in {"balance_read", "fee_reimbursed"}
    BY <2>2, <1>d DEF ProcOK
  <2> HIDE DEF new
  <2> QED BY <1>n, <2>1, <2>2, <2>3, SameGrows, PlainForwardEffect
\* The payments.
<1>7. CASE PayBalanceMove(w)
  <2> DEFINE i == proc[w].doc.balanceMoveInvoice
  <2>0. proc[w].pc = "pay_move" /\ mig' = mig /\ proc[w].job = "forward"
    BY <1>7 DEF PayBalanceMove
  <2>1. /\ proc[w].doc.status = "invoice_created" /\ i \in Issued(invoices, "move")
        /\ proc[w].doc.status \notin TERMINAL_STATUSES
    BY <1>d, <2>0, <1>n DEF ProcOK, DocOK
  <2>2. CASE Paid(i) /\ SettledOutcome(w, "record_move")
    <3>1. SameCopy(w) /\ BookStep(w) /\ proc'[w].pc \in {"record_move", "mark_failed"}
      BY <2>0, <2>1, <2>2, PayEffect DEF Purposes, PayPc
    <3> QED BY <2>0, <2>1, <3>1 DEF ForwardEffect, ForwardPcs
  <2>3. CASE Fail(w) /\ UNCHANGED invoices
    BY <2>0, <2>1, <2>3, <1>f
  <2> QED BY <1>7, <2>2, <2>3 DEF PayBalanceMove
<1>13. CASE PayFee(w)
  <2> DEFINE i == proc[w].doc.feeInvoice
  <2>0. proc[w].pc = "pay_fee" /\ mig' = mig /\ proc[w].job = "forward"
    BY <1>13 DEF PayFee
  <2>1. /\ proc[w].doc.status = "fee_reimbursement_invoice_created" /\ i \in Issued(invoices, "fee")
        /\ proc[w].doc.status \notin TERMINAL_STATUSES
    BY <1>d, <2>0, <1>n DEF ProcOK, DocOK
  <2>2. CASE Paid(i) /\ SettledOutcome(w, "record_fee")
    <3>1. SameCopy(w) /\ BookStep(w) /\ proc'[w].pc \in {"record_fee", "mark_failed"}
      BY <2>0, <2>1, <2>2, PayEffect DEF Purposes, PayPc
    <3> QED BY <2>0, <2>1, <3>1 DEF ForwardEffect, ForwardPcs
  <2>3. CASE Fail(w) /\ UNCHANGED invoices
    BY <2>0, <2>1, <2>3, <1>f
  <2> QED BY <1>13, <2>2, <2>3 DEF PayFee
\* Their records.
<1>8. CASE RecordBalanceMove(w)
  <2> DEFINE i == proc[w].doc.balanceMoveInvoice
             new == [mig EXCEPT !.balanceMoveTransactionId = i]
             upd == [new EXCEPT !.status = "balance_move_sending"]
  <2>0. /\ proc[w].pc = "record_move" /\ invoices' = invoices /\ proc[w].job = "forward"
        /\ ForwardTransition(w, "balance_move_sending", new, "release")
    BY <1>8 DEF RecordBalanceMove
  <2>1. /\ i \in PaidOf(invoices, "move")
        /\ proc[w].doc.status \notin TERMINAL_STATUSES
    BY <1>d, <2>0, <1>n DEF ProcOK
  <2>2. /\ upd.rollbackPointerRestored = mig.rollbackPointerRestored
        /\ upd.rollbackTransactionId = mig.rollbackTransactionId
        /\ upd.shortfallTransactionId = mig.shortfallTransactionId
        /\ upd.feeTransactionId = mig.feeTransactionId
        /\ upd.previousDefaultWalletId = mig.previousDefaultWalletId
        /\ upd.balanceMoveTransactionId = i
    BY <1>t DEF Documents
  <2> HIDE DEF i, new
  <2>3. mig.status = proc[w].doc.status /\ mig' = upd => BookStep(w)
    <3> HIDE DEF upd
    <3> QED BY <2>0, <2>1, <2>2 DEF BookStep, Records, RecordPc, transactionOf, Purposes
  <2> QED BY <2>0, <2>1, <2>2, <2>3, SameGrows, ForwardUpdateEffect
<1>14. CASE RecordFee(w)
  <2> DEFINE i == proc[w].doc.feeInvoice
             new == [mig EXCEPT !.feeTransactionId = i]
             upd == [new EXCEPT !.status = "fee_reimbursement_sending"]
  <2>0. /\ proc[w].pc = "record_fee" /\ invoices' = invoices /\ proc[w].job = "forward"
        /\ ForwardTransition(w, "fee_reimbursement_sending", new, "release")
    BY <1>14 DEF RecordFee
  <2>1. /\ i \in PaidOf(invoices, "fee")
        /\ proc[w].doc.status \notin TERMINAL_STATUSES
    BY <1>d, <2>0, <1>n DEF ProcOK
  <2>2. /\ upd.rollbackPointerRestored = mig.rollbackPointerRestored
        /\ upd.rollbackTransactionId = mig.rollbackTransactionId
        /\ upd.shortfallTransactionId = mig.shortfallTransactionId
        /\ upd.balanceMoveTransactionId = mig.balanceMoveTransactionId
        /\ upd.previousDefaultWalletId = mig.previousDefaultWalletId
        /\ upd.feeTransactionId = i
    BY <1>t DEF Documents
  <2> HIDE DEF i, new
  <2>3. mig.status = proc[w].doc.status /\ mig' = upd => BookStep(w)
    <3> HIDE DEF upd
    <3> QED BY <2>0, <2>1, <2>2 DEF BookStep, Records, RecordPc, transactionOf, Purposes
  <2> QED BY <2>0, <2>1, <2>2, <2>3, SameGrows, ForwardUpdateEffect
<1> QED BY <1>1, <1>2, <1>3, <1>4, <1>5, <1>6, <1>7, <1>8, <1>9, <1>10, <1>11, <1>12,
           <1>13, <1>14, <1>15, <1>16, <1>17, <1>18, <1>19 DEF ForwardStep

\* A step of the rollback.
RollbackEffect(w) ==
    /\ proc[w].job = "rollback"
    /\ proc'[w].pc \in UndoPcs \cup {"record_restore", "release", "mark_failed"}
    /\ proc'[w].pc # "mark_failed" => proc[w].doc.status = "rollback_started"
    /\ proc'[w].pc \in UndoPcs =>
           \/ proc[w].pc \in UndoPcs
           \/ proc[w].doc.rollbackPointerRestored
           \/ mig'.rollbackPointerRestored
    /\ proc'[w].pc \in ReversePcs =>
           \/ proc[w].pc \in ReversePcs \ {"record_reverse"}
           \/ proc[w].doc.rollbackTransactionId = NoInvoice /\ SameCopy(w)
    /\ proc'[w].pc \in TopUpPcs =>
           \/ proc[w].pc \in TopUpPcs \ {"record_shortfall"}
           \/ proc[w].doc.shortfallTransactionId = NoInvoice /\ SameCopy(w)
    /\ \/ SameCopy(w)
       \/ /\ proc[w].doc.status = "rollback_started"
          /\ mig'.status \in UndoStatuses
          /\ proc'[w].doc = mig'
          /\ mig.rollbackPointerRestored => mig'.rollbackPointerRestored
          /\ mig'.rollbackTransactionId = mig.rollbackTransactionId
                 \/ proc[w].pc = "record_reverse"
          /\ mig'.shortfallTransactionId = mig.shortfallTransactionId
                 \/ proc[w].pc = "record_shortfall"
          /\ mig'.previousDefaultWalletId = mig.previousDefaultWalletId
    /\ BookStep(w)

\* An update of the rollback, patchRollbackProgress or the last transition.
LEMMA RollbackUpdateEffect ==
    ASSUME TypeOK, NEW w \in Workers, NEW pc, NEW new,
           pc \in UndoPcs \cup {"release"},
           proc[w].job = "rollback", proc[w].doc.status = "rollback_started",
           transitionMigration(w, "rollback_started", new, pc),
           Growth(invoices, invoices'), Quiet(invoices, invoices'),
           new.status \in UndoStatuses,
           mig.rollbackPointerRestored => new.rollbackPointerRestored,
           pc \in UndoPcs => proc[w].pc \in UndoPcs \/ new.rollbackPointerRestored,
           pc \in ReversePcs => proc[w].pc \in ReversePcs \ {"record_reverse"},
           pc \in TopUpPcs => proc[w].pc \in TopUpPcs \ {"record_shortfall"},
           new.rollbackTransactionId = mig.rollbackTransactionId \/ proc[w].pc = "record_reverse",
           new.shortfallTransactionId = mig.shortfallTransactionId
               \/ proc[w].pc = "record_shortfall",
           new.previousDefaultWalletId = mig.previousDefaultWalletId,
           mig.status = proc[w].doc.status /\ mig' = new => BookStep(w)
    PROVE  RollbackEffect(w)
<1>1. CASE Fail(w) /\ mig' = mig
  BY SMT, <1>1, MoveOnEffect
     DEF Fail, RollbackEffect, BookStep, UndoPcs, ReversePcs, TopUpPcs
<1>2. CASE /\ mig.status = "rollback_started" /\ mig' = new
           /\ proc' = [proc EXCEPT ![w].pc = pc, ![w].doc = new]
  <2>1. proc'[w].pc = pc /\ proc'[w].doc = mig'
    BY SMT, <1>2 DEF TypeOK, Processes
  <2> QED BY <1>2, <2>1 DEF RollbackEffect
<1> QED BY <1>1, <1>2 DEF transitionMigration

\* Every action of the rollback worker has such an effect.
LEMMA RollbackHasEffect ==
    ASSUME TypeOK, Trail, NEW w \in Workers, RollbackStep(w)
    PROVE  RollbackEffect(w)
<1> USE DEF At, patchRollbackProgress
<1>t. mig \in Documents /\ proc[w] \in Processes /\ proc[w].doc \in Documents
  BY DEF TypeOK, Processes
<1>d. ProcOK(proc[w], invoices) /\ DocOK(proc[w].doc, invoices)
  BY DEF Trail, ProcOK
<1>j. proc[w].job = "rollback"
  BY DEF RollbackStep, RollbackWrongStatus, RestorePointer, RecordRestore, ReadReverseAmount,
         EnsureReverseInvoice, PayReverse, RecordReverse, VerifyRollback,
         EnsureShortfallInvoice, PayShortfall, RecordShortfall
<1>r. ASSUME proc[w].pc \in UndoPcs \cup {"record_restore"}
      PROVE  proc[w].doc.status = "rollback_started"
  BY <1>d, <1>r DEF ProcOK
<1>f. ASSUME Fail(w), mig' = mig, invoices' = invoices PROVE RollbackEffect(w)
  BY SMT, <1>f, <1>j, SameGrows, MoveOnEffect
     DEF Fail, RollbackEffect, BookStep, UndoPcs, ReversePcs, TopUpPcs
<1>am. ASSUME NEW pc, NEW a, proc' = [proc EXCEPT ![w].pc = pc, ![w].amount = a],
              mig' = mig, invoices' = invoices
       PROVE  proc'[w].pc = pc /\ SameCopy(w) /\ BookStep(w)
  <2>1. proc'[w].pc = pc /\ SameCopy(w)
    BY <1>am DEF TypeOK, Processes, SameCopy, SameContents
  <2>2. Bookless
    BY <1>am, SameGrows DEF Bookless, SameRecords
  <2> QED BY <2>1, <2>2 DEF BookStep
<1>k. ASSUME NEW x
      PROVE  LET a == [mig EXCEPT !.rollbackInvoice = x]
                 b == [mig EXCEPT !.shortfallInvoice = x]
             IN  /\ a.status = mig.status /\ b.status = mig.status
                 /\ a.previousDefaultWalletId = mig.previousDefaultWalletId
                 /\ b.previousDefaultWalletId = mig.previousDefaultWalletId
                 /\ a.rollbackPointerRestored = mig.rollbackPointerRestored
                 /\ b.rollbackPointerRestored = mig.rollbackPointerRestored
                 /\ a.rollbackTransactionId = mig.rollbackTransactionId
                 /\ b.rollbackTransactionId = mig.rollbackTransactionId
                 /\ a.shortfallTransactionId = mig.shortfallTransactionId
                 /\ b.shortfallTransactionId = mig.shortfallTransactionId
                 /\ \A kind \in Purposes : /\ transactionOf(a, kind) = transactionOf(mig, kind)
                                           /\ transactionOf(b, kind) = transactionOf(mig, kind)
  BY <1>t DEF Documents, transactionOf, Purposes
<1>1. CASE RollbackWrongStatus(w)
  BY <1>1, <1>f DEF RollbackWrongStatus
<1>2. CASE RestorePointer(w)
  BY SMT, <1>2, <1>j, SameGrows, MoveOnEffect
     DEF RestorePointer, RollbackEffect, BookStep, UndoPcs, ReversePcs, TopUpPcs
<1>3. CASE RecordRestore(w)
  <2> DEFINE new == [mig EXCEPT !.rollbackPointerRestored = TRUE]
  <2>0. /\ proc[w].pc = "record_restore" /\ invoices' = invoices
        /\ transitionMigration(w, "rollback_started", new, "reverse")
        /\ proc[w].doc.status = "rollback_started"
    BY <1>3, <1>r DEF RecordRestore
  <2>1. /\ new.status = mig.status /\ new.rollbackPointerRestored = TRUE
        /\ new.previousDefaultWalletId = mig.previousDefaultWalletId
        /\ new.rollbackTransactionId = mig.rollbackTransactionId
        /\ new.shortfallTransactionId = mig.shortfallTransactionId
        /\ \A kind \in Purposes : transactionOf(new, kind) = transactionOf(mig, kind)
    BY <1>t DEF Documents, transactionOf, Purposes
  <2> HIDE DEF new
  <2>2. mig' = new => BookStep(w)
    BY <2>0, <2>1 DEF BookStep, Restores
  <2>3. CASE mig.status = "rollback_started"
    BY <2>0, <2>1, <2>2, <2>3, <1>j, SameGrows, RollbackUpdateEffect
       DEF UndoPcs, ReversePcs, TopUpPcs, UndoStatuses
  <2>4. CASE mig.status # "rollback_started"
    BY <2>0, <2>4, <1>f DEF transitionMigration
  <2> QED BY <2>3, <2>4
<1>4. CASE ReadReverseAmount(w)
  <2>0. proc[w].pc = "reverse" /\ mig' = mig /\ invoices' = invoices
    BY <1>4 DEF ReadReverseAmount
  <2>1. \/ GoTo(w, "verify") \/ Fail(w)
        \/ /\ proc[w].doc.rollbackTransactionId = NoInvoice
           /\ \E a : proc' = [proc EXCEPT ![w].pc = "reverse_invoice", ![w].amount = a]
    BY <1>4 DEF ReadReverseAmount
  <2>2. proc[w].doc.status = "rollback_started"
    BY <2>0, <1>r DEF UndoPcs
  <2>3. CASE GoTo(w, "verify")
    BY SMT, <2>0, <2>2, <2>3, <1>j, SameGrows, MoveOnEffect
       DEF RollbackEffect, BookStep, UndoPcs, ReversePcs, TopUpPcs
  <2>4. CASE /\ proc[w].doc.rollbackTransactionId = NoInvoice
             /\ \E a : proc' = [proc EXCEPT ![w].pc = "reverse_invoice", ![w].amount = a]
    <3>1. proc'[w].pc = "reverse_invoice" /\ SameCopy(w) /\ BookStep(w)
      BY <2>0, <2>4, <1>am
    <3> QED BY <2>0, <2>2, <2>4, <3>1, <1>j DEF RollbackEffect, UndoPcs, ReversePcs, TopUpPcs
  <2> QED BY <2>0, <2>1, <2>3, <2>4, <1>f
<1>5. CASE EnsureReverseInvoice(w)
  <2>0. proc[w].pc = "reverse_invoice" /\ proc[w].doc.status = "rollback_started"
    BY <1>5, <1>r DEF EnsureReverseInvoice, UndoPcs, ReversePcs
  <2>1. CASE GoTo(w, "pay_reverse") /\ UNCHANGED <<mig, invoices>>
    BY SMT, <2>0, <2>1, <1>j, SameGrows, MoveOnEffect
       DEF RollbackEffect, BookStep, UndoPcs, ReversePcs, TopUpPcs
  <2>2. ASSUME NEW i \in InvoiceIds, NewInvoice(i, "reverse"),
               transitionMigration(w, "rollback_started",
                   [mig EXCEPT !.rollbackInvoice = i], "pay_reverse")
        PROVE  RollbackEffect(w)
    <3> DEFINE new == [mig EXCEPT !.rollbackInvoice = i]
    <3>1. Growth(invoices, invoices') /\ Quiet(invoices, invoices')
      BY <2>2, NewInvoiceGrows DEF Purposes
    <3>2. /\ new.status = mig.status
          /\ new.previousDefaultWalletId = mig.previousDefaultWalletId
          /\ new.rollbackPointerRestored = mig.rollbackPointerRestored
          /\ new.rollbackTransactionId = mig.rollbackTransactionId
          /\ new.shortfallTransactionId = mig.shortfallTransactionId
          /\ \A kind \in Purposes : transactionOf(new, kind) = transactionOf(mig, kind)
      BY <1>k
    <3>3. transitionMigration(w, "rollback_started", new, "pay_reverse")
      BY <2>2
    <3> HIDE DEF new
    <3>4. mig' = new => BookStep(w)
      BY <3>1, <3>2 DEF BookStep, Bookless, SameRecords
    <3>5. CASE mig.status = "rollback_started"
      BY <2>0, <3>1, <3>2, <3>3, <3>4, <3>5, <1>j, RollbackUpdateEffect
         DEF UndoPcs, ReversePcs, TopUpPcs, UndoStatuses
    <3>6. CASE mig.status # "rollback_started"
      BY SMT, <3>1, <3>3, <3>6, <1>j, MoveOnEffect
         DEF transitionMigration, Fail, RollbackEffect, BookStep, UndoPcs, ReversePcs, TopUpPcs
    <3> QED BY <3>5, <3>6
  <2> QED BY <1>5, <2>1, <2>2 DEF EnsureReverseInvoice
<1>6. CASE PayReverse(w)
  <2> DEFINE i == proc[w].doc.rollbackInvoice
  <2>0. proc[w].pc = "pay_reverse" /\ mig' = mig
    BY <1>6 DEF PayReverse
  <2>1. proc[w].doc.status = "rollback_started" /\ i \in Issued(invoices, "reverse")
    BY <1>d, <2>0, <1>r DEF ProcOK, DocOK, UndoPcs, ReversePcs
  <2>2. CASE Paid(i) /\ SettledOutcome(w, "record_reverse")
    <3>1. SameCopy(w) /\ BookStep(w) /\ proc'[w].pc \in {"record_reverse", "mark_failed"}
      BY <2>0, <2>1, <2>2, PayEffect DEF Purposes, PayPc
    <3> QED BY <2>0, <2>1, <3>1, <1>j DEF RollbackEffect, UndoPcs, ReversePcs, TopUpPcs
  <2>3. CASE Fail(w) /\ UNCHANGED invoices
    BY <2>0, <2>3, <1>f
  <2> QED BY <1>6, <2>2, <2>3 DEF PayReverse
<1>7. CASE RecordReverse(w)
  <2> DEFINE i == proc[w].doc.rollbackInvoice
             new == [mig EXCEPT !.rollbackTransactionId = i]
  <2>0. /\ proc[w].pc = "record_reverse" /\ invoices' = invoices
        /\ transitionMigration(w, "rollback_started", new, "verify")
    BY <1>7 DEF RecordReverse
  <2>1. i \in PaidOf(invoices, "reverse") /\ proc[w].doc.status = "rollback_started"
    BY <1>d, <2>0, <1>r DEF ProcOK, UndoPcs, ReversePcs
  <2>2. /\ new.status = mig.status
        /\ new.previousDefaultWalletId = mig.previousDefaultWalletId
        /\ new.rollbackPointerRestored = mig.rollbackPointerRestored
        /\ new.shortfallTransactionId = mig.shortfallTransactionId
        /\ transactionOf(new, "reverse") = i
        /\ \A kind \in Purposes \ {"reverse"} : transactionOf(new, kind) = transactionOf(mig, kind)
    BY <1>t DEF Documents, transactionOf, Purposes
  <2> HIDE DEF i, new
  <2>3. mig.status = proc[w].doc.status /\ mig' = new => BookStep(w)
    <3> SUFFICES ASSUME mig.status = proc[w].doc.status, mig' = new
                 PROVE  Records(w, "reverse")
      BY DEF BookStep, Purposes
    <3> QED BY <2>0, <2>1, <2>2 DEF Records, RecordPc
  <2>4. CASE mig.status = "rollback_started"
    BY <2>0, <2>1, <2>2, <2>3, <2>4, <1>j, SameGrows, RollbackUpdateEffect
       DEF UndoPcs, ReversePcs, TopUpPcs, UndoStatuses
  <2>5. CASE mig.status # "rollback_started"
    BY <2>0, <2>5, <1>f DEF transitionMigration
  <2> QED BY <2>4, <2>5
<1>8. CASE VerifyRollback(w)
  <2>0. proc[w].pc = "verify" /\ invoices' = invoices /\ proc[w].doc.status = "rollback_started"
    BY <1>8, <1>r DEF VerifyRollback, UndoPcs
  <2> DEFINE new == [mig EXCEPT !.status = "rolled_back"]
  <2>1. \/ transitionMigration(w, "rollback_started", new, "release")
        \/ /\ proc[w].doc.shortfallTransactionId = NoInvoice
           /\ \E a : proc' = [proc EXCEPT ![w].pc = "shortfall_invoice", ![w].amount = a]
           /\ mig' = mig
        \/ Fail(w) /\ mig' = mig
    BY <1>8 DEF VerifyRollback
  <2>2. /\ new.status \in UndoStatuses
        /\ new.previousDefaultWalletId = mig.previousDefaultWalletId
        /\ new.rollbackPointerRestored = mig.rollbackPointerRestored
        /\ new.rollbackTransactionId = mig.rollbackTransactionId
        /\ new.shortfallTransactionId = mig.shortfallTransactionId
        /\ \A kind \in Purposes : transactionOf(new, kind) = transactionOf(mig, kind)
    BY <1>t DEF Documents, transactionOf, Purposes, UndoStatuses
  <2> HIDE DEF new
  <2>3. mig' = new => BookStep(w)
    BY <2>0, <2>2, SameGrows DEF BookStep, Bookless, SameRecords
  <2>4. CASE transitionMigration(w, "rollback_started", new, "release")
    BY <2>0, <2>2, <2>3, <2>4, <1>j, SameGrows, RollbackUpdateEffect
       DEF UndoPcs, ReversePcs, TopUpPcs
  <2>5. CASE /\ proc[w].doc.shortfallTransactionId = NoInvoice
             /\ \E a : proc' = [proc EXCEPT ![w].pc = "shortfall_invoice", ![w].amount = a]
             /\ mig' = mig
    <3>1. proc'[w].pc = "shortfall_invoice" /\ SameCopy(w) /\ BookStep(w)
      BY <2>0, <2>5, <1>am
    <3> QED BY <2>0, <2>5, <3>1, <1>j DEF RollbackEffect, UndoPcs, ReversePcs, TopUpPcs
  <2> QED BY <2>0, <2>1, <2>4, <2>5, <1>f
<1>9. CASE EnsureShortfallInvoice(w)
  <2>0. proc[w].pc = "shortfall_invoice" /\ proc[w].doc.status = "rollback_started"
    BY <1>9, <1>r DEF EnsureShortfallInvoice, UndoPcs, TopUpPcs
  <2>1. CASE GoTo(w, "pay_shortfall") /\ UNCHANGED <<mig, invoices>>
    BY SMT, <2>0, <2>1, <1>j, SameGrows, MoveOnEffect
       DEF RollbackEffect, BookStep, UndoPcs, ReversePcs, TopUpPcs
  <2>2. ASSUME NEW i \in InvoiceIds, NewInvoice(i, "shortfall"),
               transitionMigration(w, "rollback_started",
                   [mig EXCEPT !.shortfallInvoice = i], "pay_shortfall")
        PROVE  RollbackEffect(w)
    <3> DEFINE new == [mig EXCEPT !.shortfallInvoice = i]
    <3>1. Growth(invoices, invoices') /\ Quiet(invoices, invoices')
      BY <2>2, NewInvoiceGrows DEF Purposes
    <3>2. /\ new.status = mig.status
          /\ new.previousDefaultWalletId = mig.previousDefaultWalletId
          /\ new.rollbackPointerRestored = mig.rollbackPointerRestored
          /\ new.rollbackTransactionId = mig.rollbackTransactionId
          /\ new.shortfallTransactionId = mig.shortfallTransactionId
          /\ \A kind \in Purposes : transactionOf(new, kind) = transactionOf(mig, kind)
      BY <1>k
    <3>3. transitionMigration(w, "rollback_started", new, "pay_shortfall")
      BY <2>2
    <3> HIDE DEF new
    <3>4. mig' = new => BookStep(w)
      BY <3>1, <3>2 DEF BookStep, Bookless, SameRecords
    <3>5. CASE mig.status = "rollback_started"
      BY <2>0, <3>1, <3>2, <3>3, <3>4, <3>5, <1>j, RollbackUpdateEffect
         DEF UndoPcs, ReversePcs, TopUpPcs, UndoStatuses
    <3>6. CASE mig.status # "rollback_started"
      BY SMT, <3>1, <3>3, <3>6, <1>j, MoveOnEffect
         DEF transitionMigration, Fail, RollbackEffect, BookStep, UndoPcs, ReversePcs, TopUpPcs
    <3> QED BY <3>5, <3>6
  <2> QED BY <1>9, <2>1, <2>2 DEF EnsureShortfallInvoice
<1>10. CASE PayShortfall(w)
  <2> DEFINE i == proc[w].doc.shortfallInvoice
  <2>0. proc[w].pc = "pay_shortfall" /\ mig' = mig
    BY <1>10 DEF PayShortfall
  <2>1. proc[w].doc.status = "rollback_started" /\ i \in Issued(invoices, "shortfall")
    BY <1>d, <2>0, <1>r DEF ProcOK, DocOK, UndoPcs, TopUpPcs
  <2>2. CASE Paid(i) /\ SettledOutcome(w, "record_shortfall")
    <3>1. SameCopy(w) /\ BookStep(w) /\ proc'[w].pc \in {"record_shortfall", "mark_failed"}
      BY <2>0, <2>1, <2>2, PayEffect DEF Purposes, PayPc
    <3> QED BY <2>0, <2>1, <3>1, <1>j DEF RollbackEffect, UndoPcs, ReversePcs, TopUpPcs
  <2>3. CASE Fail(w) /\ UNCHANGED invoices
    BY <2>0, <2>3, <1>f
  <2> QED BY <1>10, <2>2, <2>3 DEF PayShortfall
<1>11. CASE RecordShortfall(w)
  <2> DEFINE i == proc[w].doc.shortfallInvoice
             new == [mig EXCEPT !.shortfallTransactionId = i]
  <2>0. /\ proc[w].pc = "record_shortfall" /\ invoices' = invoices
        /\ transitionMigration(w, "rollback_started", new, "release")
    BY <1>11 DEF RecordShortfall
  <2>1. i \in PaidOf(invoices, "shortfall") /\ proc[w].doc.status = "rollback_started"
    BY <1>d, <2>0, <1>r DEF ProcOK, UndoPcs, TopUpPcs
  <2>2. /\ new.status = mig.status
        /\ new.previousDefaultWalletId = mig.previousDefaultWalletId
        /\ new.rollbackPointerRestored = mig.rollbackPointerRestored
        /\ new.rollbackTransactionId = mig.rollbackTransactionId
        /\ transactionOf(new, "shortfall") = i
        /\ \A kind \in Purposes \ {"shortfall"} :
              transactionOf(new, kind) = transactionOf(mig, kind)
    BY <1>t DEF Documents, transactionOf, Purposes
  <2> HIDE DEF i, new
  <2>3. mig.status = proc[w].doc.status /\ mig' = new => BookStep(w)
    <3> SUFFICES ASSUME mig.status = proc[w].doc.status, mig' = new
                 PROVE  Records(w, "shortfall")
      BY DEF BookStep, Purposes
    <3> QED BY <2>0, <2>1, <2>2 DEF Records, RecordPc
  <2>4. CASE mig.status = "rollback_started"
    BY <2>0, <2>1, <2>2, <2>3, <2>4, <1>j, SameGrows, RollbackUpdateEffect
       DEF UndoPcs, ReversePcs, TopUpPcs, UndoStatuses
  <2>5. CASE mig.status # "rollback_started"
    BY <2>0, <2>5, <1>f DEF transitionMigration
  <2> QED BY <2>4, <2>5
<1> QED BY <1>1, <1>2, <1>3, <1>4, <1>5, <1>6, <1>7, <1>8, <1>9, <1>10, <1>11
        DEF RollbackStep

\* A failing call: nothing is written, and a forward process that fails was
\* not looking at a terminal migration.
FailEffect(w) ==
    /\ proc'[w].pc = "mark_failed" /\ SameCopy(w) /\ Bookless
    /\ proc[w].job = "forward" => proc[w].doc.status \notin TERMINAL_STATUSES

\* A call that returns an error has that effect.
LEMMA StepFailsEffect ==
    ASSUME TypeOK, Trail, OneWay, NEW w \in Workers, StepFails(w)
    PROVE  FailEffect(w)
<1>1. proc'[w].pc = "mark_failed" /\ SameCopy(w) /\ Bookless
  BY SameGrows, MoveOnEffect DEF StepFails, Fail
<1>2. ASSUME proc[w].job = "forward" PROVE proc[w].doc.status \notin TERMINAL_STATUSES
  <2>1. proc[w].pc \in ForwardPcs \cup {"execute"}
    BY <1>2 DEF StepFails, OneWay, Executing, Pcs, ForwardPcs, UndoPcs, ReversePcs, TopUpPcs
  <2>2. CASE proc[w].pc = "execute"
    BY <1>2, <2>2 DEF StepFails, At
  <2>3. CASE proc[w].pc \in ForwardPcs
    BY <2>3 DEF Trail, ProcOK, ForwardPcs, TERMINAL_STATUSES
  <2> QED BY <2>1, <2>2, <2>3
<1> QED BY <1>1, <1>2 DEF FailEffect

-----------------------------------------------------------------------------
\* What the steps that are not those of an executing process do.

\* The steps that are not local to an executing process leave the records and
\* the invoices' purposes and payments alone.
LEMMA OuterBookless ==
    ASSUME TypeOK,
           \/ \E w \in Workers : RunnerStep(w) \/ Crash(w)
           \/ Environment
           \/ UNCHANGED vars
    PROVE  Bookless
<1>t. mig \in Documents /\ invoices \in [InvoiceIds -> Invoices]
  BY DEF TypeOK
<1>1. Growth(invoices, invoices') /\ Quiet(invoices, invoices')
  <2>1. CASE \E i \in InvoiceIds : InvoiceExpires(i)
    <3>1. \A j \in InvoiceIds : invoices'[j].purpose = invoices[j].purpose
                                /\ invoices'[j].paid = invoices[j].paid
      BY SMT, <2>1, <1>t DEF InvoiceExpires, Invoices
    <3> QED BY <3>1 DEF Growth, Quiet
  <2>2. CASE invoices' = invoices
    BY <2>2, SameGrows
  <2> QED BY <2>1, <2>2
          DEF RunnerStep, ListMigration, AcquireMigrationLock, ReleaseMigrationLock,
              MarkMigrationFailed, Crash, Environment, LockGoesStale, RequestRollback,
              RetryFailed, RoutePayment, MakePayment, ReceivePayment, vars
<1>2. SameRecords
  <2>1. CASE mig' = mig
    BY <2>1 DEF SameRecords
  <2>2. CASE \E w \in Workers : AcquireMigrationLock(w) \/ ReleaseMigrationLock(w)
                                 \/ MarkMigrationFailed(w)
    BY ZenonT(60), <2>2, <1>t DEF AcquireMigrationLock, ReleaseMigrationLock, MarkMigrationFailed,
                      SameRecords, transactionOf, Documents, Purposes
  <2>3. CASE LockGoesStale \/ RequestRollback \/ RetryFailed
    BY ZenonT(60), <2>3, <1>t DEF LockGoesStale, RequestRollback, RetryFailed,
                      SameRecords, transactionOf, Documents, Purposes
  <2> QED BY <2>1, <2>2, <2>3
          DEF RunnerStep, ListMigration, Crash, Environment, RoutePayment, MakePayment,
              ReceivePayment, InvoiceExpires, vars
<1> QED BY <1>1, <1>2 DEF Bookless

\* The steps that are.
LEMMA InnerEffect ==
    ASSUME TypeOK, Trail, OneWay, NEW w \in Workers,
           ForwardStep(w) \/ RollbackStep(w) \/ StepFails(w)
    PROVE  Local(w) /\ BookStep(w) /\ (ForwardEffect(w) \/ RollbackEffect(w) \/ FailEffect(w))
<1>1. Local(w)
  BY ForwardLocal, RollbackLocal, StepFailsLocal
<1>2. ForwardEffect(w) \/ RollbackEffect(w) \/ FailEffect(w)
  BY ForwardHasEffect, RollbackHasEffect, StepFailsEffect
<1> QED BY <1>1, <1>2 DEF ForwardEffect, RollbackEffect, FailEffect, BookStep

\* What the outer steps do to the document: its contents stay, and the status
\* moves only when the process that holds the lock stops, or by the operator.
LEMMA OuterContents ==
    ASSUME TypeOK, UpToDate,
           \/ \E w \in Workers : RunnerStep(w) \/ Crash(w)
           \/ Environment
           \/ UNCHANGED vars
    PROVE  /\ SameContents(mig', mig)
           /\ mig'.previousDefaultWalletId = mig.previousDefaultWalletId
           /\ \/ mig'.status = mig.status
              \/ mig'.status = "rollback_started" /\ mig.status \in ROLLBACKABLE_STATUSES /\ proc' = proc
              \/ /\ mig.status = "failed" /\ mig'.status = "pointer_flipped" /\ proc' = proc
                 /\ mig.balanceMoveTransactionId = NoInvoice
              \/ \E w \in Workers : /\ mig.lockedBy = w /\ proc[w].pc = "mark_failed"
                                     /\ proc' = [proc EXCEPT ![w] = IdleProcess]
                                     /\ mig'.status \in {"failed", "requires_operator_review"}
<1>t. mig \in Documents
  BY DEF TypeOK
<1>1. CASE mig' = mig
  BY <1>1 DEF SameContents
<1>2. CASE \E w \in Workers : AcquireMigrationLock(w) \/ ReleaseMigrationLock(w)
  <2>1. mig' = mig \/ \E x, y : mig' = [mig EXCEPT !.lockedBy = x, !.lockStale = y]
    BY <1>2 DEF AcquireMigrationLock, ReleaseMigrationLock
  <2> QED BY ZenonT(60), <2>1, <1>1, <1>t DEF SameContents, Documents
<1>3. ASSUME NEW w \in Workers, MarkMigrationFailed(w), mig' # mig
      PROVE  /\ SameContents(mig', mig)
             /\ mig'.previousDefaultWalletId = mig.previousDefaultWalletId
             /\ mig.lockedBy = w /\ proc[w].pc = "mark_failed"
             /\ proc' = [proc EXCEPT ![w] = IdleProcess]
             /\ mig'.status \in {"failed", "requires_operator_review"}
  <2> DEFINE s == IF proc[w].job = "rollback" THEN "requires_operator_review"
                  ELSE failureStatusForMigration(proc[w].doc.status)
  <2>1. s \in {"failed", "requires_operator_review"}
    BY DEF failureStatusForMigration
  <2>2. /\ mig.lockedBy = w /\ proc[w].pc = "mark_failed"
        /\ proc' = [proc EXCEPT ![w] = IdleProcess]
        /\ mig' = [mig EXCEPT !.status = s, !.lockedBy = NoWorker, !.lockStale = FALSE]
    BY <1>3 DEF MarkMigrationFailed
  <2> HIDE DEF s
  <2> QED BY <2>1, <2>2, <1>t DEF SameContents, Documents
<1>4. CASE LockGoesStale
  BY <1>4, <1>t DEF LockGoesStale, SameContents, Documents
<1>5. CASE RequestRollback
  BY <1>5, <1>t DEF RequestRollback, SameContents, Documents
<1>6. CASE RetryFailed
  <2>1. /\ mig' = [mig EXCEPT !.status = "pointer_flipped"] /\ proc' = proc
        /\ mig.status = "failed" /\ mig.balanceMoveTransactionId = NoInvoice
    BY <1>6 DEF RetryFailed, UpToDate
  <2> QED BY <2>1, <1>t DEF SameContents, Documents
<1> QED BY <1>1, <1>2, <1>3, <1>4, <1>5, <1>6
        DEF RunnerStep, ListMigration, Crash, Environment, RoutePayment, MakePayment,
            ReceivePayment, InvoiceExpires, vars

\* And to the processes: a process that executes after it holds the document it
\* has just locked, or has not moved.
LEMMA OuterProcesses ==
    ASSUME TypeOK, NEW v \in Workers,
           \/ \E w \in Workers : RunnerStep(w) \/ Crash(w)
           \/ Environment
           \/ UNCHANGED vars
    PROVE  \/ proc'[v].pc = "execute" /\ proc'[v].doc = mig'
           \/ /\ proc'[v].doc = proc[v].doc /\ proc'[v].amount = proc[v].amount
              /\ proc'[v].pc = proc[v].pc \/ proc'[v].pc \notin Executing
           \/ proc'[v] = IdleProcess
<1>t. proc \in [Workers -> Processes]
  BY DEF TypeOK
<1>1. ASSUME NEW w \in Workers, proc' = [proc EXCEPT ![w] = IdleProcess]
      PROVE  proc'[v] = IdleProcess \/ proc'[v] = proc[v]
  BY <1>1, <1>t
<1>2. ASSUME NEW w \in Workers, NEW job \in {"forward", "rollback"}, ListMigration(w, job)
      PROVE  /\ proc'[v].doc = proc[v].doc /\ proc'[v].amount = proc[v].amount
             /\ proc'[v].pc = proc[v].pc \/ proc'[v].pc = "listed"
  BY <1>2, <1>t DEF ListMigration, Processes
<1>3. ASSUME NEW w \in Workers,
             proc' = [x \in Workers |->
                   IF x = w
                   THEN [proc[x] EXCEPT !.pc = "execute", !.doc = mig', !.seesStale = FALSE]
                   ELSE [proc[x] EXCEPT !.seesStale = FALSE]]
      PROVE  \/ proc'[v].pc = "execute" /\ proc'[v].doc = mig'
             \/ /\ proc'[v].doc = proc[v].doc /\ proc'[v].amount = proc[v].amount
                /\ proc'[v].pc = proc[v].pc
  BY <1>3, <1>t DEF Processes
<1>4. ASSUME NEW w \in Workers, RunnerStep(w) \/ Crash(w)
      PROVE  \/ proc' = [proc EXCEPT ![w] = IdleProcess]
             \/ \E job \in {"forward", "rollback"} : ListMigration(w, job)
             \/ proc' = [x \in Workers |->
                   IF x = w
                   THEN [proc[x] EXCEPT !.pc = "execute", !.doc = mig', !.seesStale = FALSE]
                   ELSE [proc[x] EXCEPT !.seesStale = FALSE]]
  BY <1>4 DEF RunnerStep, AcquireMigrationLock, ReleaseMigrationLock, MarkMigrationFailed, Crash
<1>5. CASE Environment \/ UNCHANGED vars
  BY <1>5 DEF Environment, LockGoesStale, RequestRollback, RetryFailed, RoutePayment,
              MakePayment, ReceivePayment, InvoiceExpires, vars
<1>6. "listed" \notin Executing
  BY DEF Executing
<1> QED BY <1>1, <1>2, <1>3, <1>4, <1>5, <1>6

-----------------------------------------------------------------------------
\* What one step of an executing process does to the amounts and the money.

SameAmounts(d, e) ==
    /\ d.sourceBalance = e.sourceBalance
    /\ d.destinationAmount = e.destinationAmount
    /\ d.destinationStartingBalance = e.destinationStartingBalance
    /\ d.feeAmount = e.feeAmount

\* The status moves on, for the reason the code has.
Advances(w) ==
    /\ mig.status = proc[w].doc.status
    /\ \/ mig.status = "not_started" /\ mig'.status = "started"
       \/ mig.status = "started" /\ mig'.status = "provisioned"
       \/ /\ mig.status = "balance_read" /\ mig'.status = "invoice_created"
          /\ proc[w].doc.destinationAmount # 0
       \/ mig.status = "invoice_created" /\ mig'.status = "balance_move_sending"
       \/ mig.status = "balance_move_sending" /\ mig'.status = "balance_move_sent"
       \/ mig.status = "balance_move_sent" /\ mig'.status = "balance_move_verified"
       \/ /\ mig.status = "fee_reimbursement_invoice_created"
          /\ mig'.status = "fee_reimbursement_sending"
       \/ /\ mig.status = "fee_reimbursement_sending" /\ mig'.status = "fee_reimbursed"
          /\ proc[w].doc.feeTransactionId # NoInvoice
       \/ /\ mig.status \in {"balance_read", "fee_reimbursed"} /\ mig'.status = "pointer_flipped"
          /\ proc[w].pc = "record_flip"
       \/ mig.status = "pointer_flipped" /\ mig'.status = "legacy_zero_verified"
       \/ mig.status = "legacy_zero_verified" /\ mig'.status = "complete"
       \/ /\ mig.status = "rollback_started" /\ mig'.status = "rolled_back"
          /\ forwardMovedFunds(proc[w].doc) =>
                 /\ proc[w].doc.sourceBalance # Undefined
                 /\ legacyShortfallUsdtMicros(proc[w].doc.sourceBalance, bal["legacy"]) <= Tolerance

\* No money moves and no amount is written.
Rests(w) ==
    /\ bal' = bal /\ Growth(invoices, invoices') /\ Quiet(invoices, invoices')
    /\ SameAmounts(mig', mig)
    /\ mig'.status = mig.status \/ Advances(w)

ReadsBalance(w) ==
    /\ mig.status = "provisioned" /\ mig'.status = "balance_read"
    /\ bal' = bal /\ invoices' = invoices
    /\ mig'.sourceBalance = bal["legacy"]
    /\ mig'.destinationAmount = toMicrosRounded(bal["legacy"])
    /\ mig'.destinationStartingBalance = toMicrosRounded(bal["usdt"])
    /\ mig'.feeAmount = mig.feeAmount

ReadsFee(w) ==
    /\ mig.status = "balance_move_verified" /\ proc[w].doc.status = "balance_move_verified"
    /\ bal' = bal /\ Growth(invoices, invoices') /\ Quiet(invoices, invoices')
    /\ mig'.sourceBalance = mig.sourceBalance
    /\ mig'.destinationAmount = mig.destinationAmount
    /\ mig'.destinationStartingBalance = mig.destinationStartingBalance
    /\ mig'.feeAmount = destinationShortfallUsdtMicros(proc[w].doc.destinationAmount,
                            proc[w].doc.destinationStartingBalance, toMicrosRounded(bal["usdt"]))
    /\ \/ mig'.status = "fee_reimbursed" /\ mig'.feeAmount < MinPayable
       \/ mig'.status = "fee_reimbursement_invoice_created"

MovesBalance(w) ==
    /\ proc[w].pc = "pay_move" /\ mig' = mig
    /\ Paid(proc[w].doc.balanceMoveInvoice)
    /\ bal["legacy"] >= proc[w].doc.sourceBalance
    /\ \E fee \in LnFees :
         /\ fee <= proc[w].doc.sourceBalance
         /\ bal' = [bal EXCEPT !["legacy"] = @ - proc[w].doc.sourceBalance,
                               !["usdt"] = @ + proc[w].doc.sourceBalance - fee]

Reimburses(w) ==
    /\ proc[w].pc = "pay_fee" /\ mig' = mig
    /\ Payable(proc[w].doc.feeInvoice) /\ Paid(proc[w].doc.feeInvoice)
    /\ \E fee \in LnFees \cup {0} :
         /\ fee <= proc[w].doc.feeAmount * SubPerMicro
         /\ ~usesNoAmountFeeReimbursementInvoice(proc[w].doc.feeAmount) => fee = 0
         /\ bal' = [bal EXCEPT !["usdt"] = @ + proc[w].doc.feeAmount * SubPerMicro - fee]

SendsBack(w) ==
    /\ proc[w].pc = "pay_reverse" /\ mig' = mig
    /\ Payable(proc[w].doc.rollbackInvoice) /\ Paid(proc[w].doc.rollbackInvoice)
    /\ bal["usdt"] >= proc[w].amount * SubPerMicro
    /\ \E fee \in LnFees :
         /\ fee <= proc[w].amount * SubPerMicro
         /\ bal' = [bal EXCEPT !["usdt"] = @ - proc[w].amount * SubPerMicro,
                               !["legacy"] = @ + proc[w].amount * SubPerMicro - fee]

TopsUp(w) ==
    /\ proc[w].pc = "pay_shortfall" /\ mig' = mig
    /\ Payable(proc[w].doc.shortfallInvoice) /\ Paid(proc[w].doc.shortfallInvoice)
    /\ \E fee \in LnFees :
         /\ fee <= proc[w].amount * SubPerMicro
         /\ bal' = [bal EXCEPT !["legacy"] = @ + proc[w].amount * SubPerMicro - fee]

Deed(w) ==
    /\ owed' = owed
    /\ \/ Rests(w) \/ ReadsBalance(w) \/ ReadsFee(w)
       \/ MovesBalance(w) \/ Reimburses(w) \/ SendsBack(w) \/ TopsUp(w)

\* A step that leaves the document alone.
LEMMA IdleDeed ==
    ASSUME NEW w, mig' = mig, bal' = bal, owed' = owed, invoices' = invoices
    PROVE  Deed(w)
BY SameGrows DEF Deed, Rests, SameAmounts

\* A forward transition that writes no amount.
LEMMA ForwardDeed ==
    ASSUME NEW w, NEW to, NEW new, NEW pc, ForwardTransition(w, to, new, pc),
           LET upd == [new EXCEPT !.status = to] IN upd.status = to /\ SameAmounts(upd, mig),
           bal' = bal, owed' = owed, Growth(invoices, invoices'), Quiet(invoices, invoices'),
           proc[w].doc.status = to \/ (mig'.status = to /\ mig.status = proc[w].doc.status => Advances(w))
    PROVE  Deed(w)
<1> DEFINE upd == [new EXCEPT !.status = to]
<1>0. upd.status = to /\ SameAmounts(upd, mig)
  OBVIOUS
<1>1. \/ mig' = mig
      \/ mig.status = proc[w].doc.status /\ mig' = upd
  BY DEF ForwardTransition, transitionMigration
<1> HIDE DEF upd
<1>2. CASE mig' = mig
  BY <1>2 DEF Deed, Rests, SameAmounts
<1>3. CASE mig.status = proc[w].doc.status /\ mig' = upd
  BY <1>0, <1>3 DEF Deed, Rests
<1> QED BY <1>1, <1>2, <1>3

\* Every step of an executing process is one of these deeds.
LEMMA InnerDeed ==
    ASSUME TypeOK, Trail, NEW w \in Workers,
           ForwardStep(w) \/ RollbackStep(w) \/ StepFails(w)
    PROVE  Deed(w)
<1> USE DEF Step, At
<1>t. mig \in Documents /\ proc[w].doc \in Documents
  BY DEF TypeOK, Processes
<1>d. ProcOK(proc[w], invoices)
  BY DEF Trail
<1>g. Growth(invoices, invoices) /\ Quiet(invoices, invoices)
  BY SameGrows DEF Growth, Quiet
\* A step that writes the status alone.
<1>p. ASSUME NEW to, ForwardTransition(w, to, mig, "release"),
             invoices' = invoices, bal' = bal, owed' = owed,
             mig'.status = to /\ mig.status = proc[w].doc.status => Advances(w)
      PROVE  Deed(w)
  <2>1. [mig EXCEPT !.status = to].status = to /\ SameAmounts([mig EXCEPT !.status = to], mig)
    BY <1>t DEF Documents, SameAmounts
  <2> QED BY <1>p, <2>1, <1>g, ForwardDeed
\* A step that writes, besides, an invoice, a transaction id or the pointer.
<1>u. ASSUME NEW new, NEW to, NEW pc, ForwardTransition(w, to, new, pc),
             new \in Documents, SameAmounts(new, mig),
             bal' = bal, owed' = owed, Growth(invoices, invoices'), Quiet(invoices, invoices'),
             \/ proc[w].doc.status = to
             \/ mig'.status = to /\ mig.status = proc[w].doc.status => Advances(w)
      PROVE  Deed(w)
  <2>1. [new EXCEPT !.status = to].status = to /\ SameAmounts([new EXCEPT !.status = to], mig)
    BY <1>u DEF Documents, SameAmounts
  <2> QED BY <1>u, <2>1, ForwardDeed
<1>1. CASE SkipTerminal(w) \/ FlipDefaultPointer(w) \/ StepFails(w)
  BY <1>1, IdleDeed DEF SkipTerminal, FlipDefaultPointer, StepFails, world
<1>2. CASE StartMigration(w)
  BY <1>2, <1>p DEF StartMigration, world, Advances
<1>3. CASE ProvisionDestination(w)
  BY <1>3, <1>p DEF ProvisionDestination, world, Advances
<1>4. CASE RecordBalance(w)
  <2> DEFINE upd == [[mig EXCEPT !.sourceBalance = bal["legacy"],
                        !.destinationAmount = toMicrosRounded(bal["legacy"]),
                        !.destinationStartingBalance = toMicrosRounded(bal["usdt"])]
                            EXCEPT !.status = "balance_read"]
  <2>1. /\ upd.status = "balance_read" /\ upd.sourceBalance = bal["legacy"]
        /\ upd.destinationAmount = toMicrosRounded(bal["legacy"])
        /\ upd.destinationStartingBalance = toMicrosRounded(bal["usdt"])
        /\ upd.feeAmount = mig.feeAmount
    BY <1>t DEF Documents
  <2>2. /\ bal' = bal /\ invoices' = invoices /\ owed' = owed
        /\ mig' = mig \/ (mig.status = "provisioned" /\ mig' = upd)
    BY <1>4 DEF RecordBalance, ForwardTransition, transitionMigration, world
  <2> HIDE DEF upd
  <2>3. CASE mig' = mig
    BY <2>2, <2>3, IdleDeed
  <2> QED BY <2>1, <2>2, <2>3 DEF Deed, ReadsBalance
<1>5. CASE CreateBalanceMoveInvoice(w)
  <2>1. PICK i \in InvoiceIds :
            /\ NewInvoice(i, "move")
            /\ ForwardTransition(w, "invoice_created", [mig EXCEPT !.balanceMoveInvoice = i], "release")
    BY <1>5 DEF CreateBalanceMoveInvoice
  <2>2. Growth(invoices, invoices') /\ Quiet(invoices, invoices')
    BY <2>1, NewInvoiceGrows DEF Purposes
  <2>3. /\ proc[w].doc.status = "balance_read" /\ proc[w].doc.destinationAmount # 0
        /\ bal' = bal /\ owed' = owed
    BY <1>5 DEF CreateBalanceMoveInvoice, world
  <2>4. mig'.status = "invoice_created" /\ mig.status = proc[w].doc.status => Advances(w)
    BY <2>3 DEF Advances
  <2> DEFINE new == [mig EXCEPT !.balanceMoveInvoice = i]
  <2>n. new \in Documents /\ SameAmounts(new, mig)
    BY SMT, <1>t DEF Documents, SameAmounts, Ids
  <2>f. ForwardTransition(w, "invoice_created", new, "release")
    BY <2>1
  <2> HIDE DEF new
  <2> QED BY <2>2, <2>3, <2>4, <2>n, <2>f, <1>u
<1>6. CASE PrepareBalanceMove(w)
  <2>0. proc[w].doc.status = "invoice_created" /\ bal' = bal /\ owed' = owed
    BY <1>6 DEF PrepareBalanceMove, world
  <2>1. CASE mig' = mig /\ invoices' = invoices
    BY <2>0, <2>1, IdleDeed
  <2>2. ASSUME NEW i \in InvoiceIds, NewInvoice(i, "move"),
               ForwardTransition(w, "invoice_created", [mig EXCEPT !.balanceMoveInvoice = i], "pay_move")
        PROVE  Deed(w)
    <3>1. Growth(invoices, invoices') /\ Quiet(invoices, invoices')
      BY <2>2, NewInvoiceGrows DEF Purposes
    <3> DEFINE new == [mig EXCEPT !.balanceMoveInvoice = i]
    <3>n. new \in Documents /\ SameAmounts(new, mig)
      BY SMT, <1>t DEF Documents, SameAmounts, Ids
    <3>f. ForwardTransition(w, "invoice_created", new, "pay_move")
      BY <2>2
    <3> HIDE DEF new
    <3> QED BY <2>0, <3>1, <3>n, <3>f, <1>u
  <2> QED BY <1>6, <2>1, <2>2 DEF PrepareBalanceMove
<1>7. CASE PayBalanceMove(w)
  <2>1. CASE bal' = bal /\ invoices' = invoices
    BY <1>7, <2>1, IdleDeed DEF PayBalanceMove, world
  <2>2. CASE Paid(proc[w].doc.balanceMoveInvoice) /\ bal["legacy"] >= proc[w].doc.sourceBalance
    BY <1>7, <2>1, <2>2 DEF PayBalanceMove, world, Deed, MovesBalance
  <2> QED BY <1>7, <2>1, <2>2 DEF PayBalanceMove
<1>8. CASE RecordBalanceMove(w)
  <2>1. /\ proc[w].doc.status = "invoice_created" /\ bal' = bal /\ owed' = owed /\ invoices' = invoices
        /\ ForwardTransition(w, "balance_move_sending",
              [mig EXCEPT !.balanceMoveTransactionId = proc[w].doc.balanceMoveInvoice], "release")
    BY <1>8, <1>d DEF RecordBalanceMove, world, ProcOK
  <2>2. mig'.status = "balance_move_sending" /\ mig.status = proc[w].doc.status => Advances(w)
    BY <2>1 DEF Advances
  <2> DEFINE new == [mig EXCEPT !.balanceMoveTransactionId = proc[w].doc.balanceMoveInvoice]
  <2>n. new \in Documents /\ SameAmounts(new, mig)
    BY SMT, <1>t DEF Documents, SameAmounts, Ids
  <2>f. ForwardTransition(w, "balance_move_sending", new, "release")
    BY <2>1
  <2> HIDE DEF new
  <2> QED BY <2>1, <2>2, <2>n, <2>f, <1>g, <1>u
<1>9. CASE MarkBalanceMoveSent(w)
  BY <1>9, <1>p, IdleDeed DEF MarkBalanceMoveSent, world, Advances
<1>10. CASE VerifyBalanceMove(w)
  BY <1>10, <1>p, IdleDeed DEF VerifyBalanceMove, world, Advances
<1>11. CASE ReadFee(w)
  <2> DEFINE fee == destinationShortfallUsdtMicros(proc[w].doc.destinationAmount,
                        proc[w].doc.destinationStartingBalance, toMicrosRounded(bal["usdt"]))
             a == [[mig EXCEPT !.feeAmount = fee] EXCEPT !.status = "fee_reimbursed"]
             b(i) == [[mig EXCEPT !.feeAmount = fee, !.feeInvoice = i]
                          EXCEPT !.status = "fee_reimbursement_invoice_created"]
  <2>1. /\ proc[w].doc.status = "balance_move_verified" /\ bal' = bal /\ owed' = owed
        /\ \/ fee < MinPayable /\ invoices' = invoices
              /\ (mig' = mig \/ (mig.status = "balance_move_verified" /\ mig' = a))
           \/ \E i \in InvoiceIds :
                /\ NewInvoice(i, "fee")
                /\ (mig' = mig \/ (mig.status = "balance_move_verified" /\ mig' = b(i)))
    BY <1>11 DEF ReadFee, ForwardTransition, transitionMigration, world,
                 isSubMinimumFeeReimbursementAmount
  <2>2. /\ a.status = "fee_reimbursed" /\ a.feeAmount = fee
        /\ a.sourceBalance = mig.sourceBalance /\ a.destinationAmount = mig.destinationAmount
        /\ a.destinationStartingBalance = mig.destinationStartingBalance
    <3> HIDE DEF fee
    <3> QED BY <1>t DEF Documents
  <2>3. ASSUME NEW i
        PROVE  /\ b(i).status = "fee_reimbursement_invoice_created" /\ b(i).feeAmount = fee
               /\ b(i).sourceBalance = mig.sourceBalance
               /\ b(i).destinationAmount = mig.destinationAmount
               /\ b(i).destinationStartingBalance = mig.destinationStartingBalance
    <3> HIDE DEF fee
    <3> QED BY <1>t DEF Documents
  <2>4. Growth(invoices, invoices') /\ Quiet(invoices, invoices')
    BY <2>1, <1>g, NewInvoiceGrows DEF Purposes
  <2>5. CASE mig' = mig
    BY <2>1, <2>4, <2>5 DEF Deed, Rests, SameAmounts
  <2>6. CASE fee < MinPayable /\ mig.status = "balance_move_verified" /\ mig' = a
    <3> HIDE DEF a
    <3> QED BY <2>1, <2>2, <2>4, <2>6 DEF Deed, ReadsFee
  <2>7. ASSUME NEW i, mig.status = "balance_move_verified", mig' = b(i) PROVE Deed(w)
    <3> HIDE DEF b
    <3> QED BY <2>1, <2>3, <2>4, <2>7 DEF Deed, ReadsFee
  <2> HIDE DEF a, b, fee
  <2> QED BY <2>1, <2>5, <2>6, <2>7
<1>12. CASE PrepareFee(w)
  <2>0. proc[w].doc.status = "fee_reimbursement_invoice_created" /\ bal' = bal /\ owed' = owed
    BY <1>12 DEF PrepareFee, world
  <2>1. CASE mig' = mig /\ invoices' = invoices
    BY <2>0, <2>1, IdleDeed
  <2>2. ASSUME NEW i \in InvoiceIds, NewInvoice(i, "fee"),
               ForwardTransition(w, "fee_reimbursement_invoice_created",
                   [mig EXCEPT !.feeInvoice = i], "pay_fee")
        PROVE  Deed(w)
    <3>1. Growth(invoices, invoices') /\ Quiet(invoices, invoices')
      BY <2>2, NewInvoiceGrows DEF Purposes
    <3> DEFINE new == [mig EXCEPT !.feeInvoice = i]
    <3>n. new \in Documents /\ SameAmounts(new, mig)
      BY SMT, <1>t DEF Documents, SameAmounts, Ids
    <3>f. ForwardTransition(w, "fee_reimbursement_invoice_created", new, "pay_fee")
      BY <2>2
    <3> HIDE DEF new
    <3> QED BY <2>0, <3>1, <3>n, <3>f, <1>u
  <2> QED BY <1>12, <2>1, <2>2 DEF PrepareFee
<1>13. CASE PayFee(w)
  <2>1. CASE bal' = bal /\ invoices' = invoices
    BY <1>13, <2>1, IdleDeed DEF PayFee, world
  <2>2. CASE Payable(proc[w].doc.feeInvoice) /\ Paid(proc[w].doc.feeInvoice)
    BY <1>13, <2>1, <2>2 DEF PayFee, world, Deed, Reimburses
  <2> QED BY <1>13, <2>1, <2>2 DEF PayFee
<1>14. CASE RecordFee(w)
  <2>1. /\ proc[w].doc.status = "fee_reimbursement_invoice_created"
        /\ bal' = bal /\ owed' = owed /\ invoices' = invoices
        /\ ForwardTransition(w, "fee_reimbursement_sending",
              [mig EXCEPT !.feeTransactionId = proc[w].doc.feeInvoice], "release")
    BY <1>14, <1>d DEF RecordFee, world, ProcOK
  <2>2. mig'.status = "fee_reimbursement_sending" /\ mig.status = proc[w].doc.status => Advances(w)
    BY <2>1 DEF Advances
  <2> DEFINE new == [mig EXCEPT !.feeTransactionId = proc[w].doc.feeInvoice]
  <2>n. new \in Documents /\ SameAmounts(new, mig)
    BY SMT, <1>t DEF Documents, SameAmounts, Ids
  <2>f. ForwardTransition(w, "fee_reimbursement_sending", new, "release")
    BY <2>1
  <2> HIDE DEF new
  <2> QED BY <2>1, <2>2, <2>n, <2>f, <1>g, <1>u
<1>15. CASE MarkFeeReimbursed(w)
  BY <1>15, <1>p, IdleDeed DEF MarkFeeReimbursed, world, Advances
<1>17. CASE RecordFlip(w)
  <2>1. /\ proc[w].doc.status \in {"balance_read", "fee_reimbursed"} /\ proc[w].pc = "record_flip"
        /\ bal' = bal /\ owed' = owed /\ invoices' = invoices
        /\ ForwardTransition(w, "pointer_flipped",
              [mig EXCEPT !.previousDefaultWalletId = proc[w].doc.previousDefaultWalletId], "release")
    BY <1>17, <1>d DEF RecordFlip, world, ProcOK
  <2>2. mig'.status = "pointer_flipped" /\ mig.status = proc[w].doc.status => Advances(w)
    BY <2>1 DEF Advances
  <2> DEFINE new == [mig EXCEPT !.previousDefaultWalletId = proc[w].doc.previousDefaultWalletId]
  <2>n. new \in Documents /\ SameAmounts(new, mig)
    BY SMT, <1>t DEF Documents, SameAmounts, Ids
  <2>f. ForwardTransition(w, "pointer_flipped", new, "release")
    BY <2>1
  <2> HIDE DEF new
  <2> QED BY <2>1, <2>2, <2>n, <2>f, <1>g, <1>u
<1>18. CASE VerifyLegacyZero(w)
  BY <1>18, <1>p, IdleDeed DEF VerifyLegacyZero, world, Advances
<1>19. CASE CompleteMigration(w)
  BY <1>19, <1>p DEF CompleteMigration, world, Advances
\* The rollback.
<1>w. ASSUME NEW new, NEW pc, transitionMigration(w, "rollback_started", new, pc),
             new.status = mig.status, SameAmounts(new, mig),
             bal' = bal, owed' = owed, Growth(invoices, invoices'), Quiet(invoices, invoices')
      PROVE  Deed(w)
  BY <1>w DEF transitionMigration, Deed, Rests, SameAmounts
<1>20. CASE RollbackWrongStatus(w) \/ RestorePointer(w) \/ ReadReverseAmount(w)
  BY <1>20, IdleDeed DEF RollbackWrongStatus, RestorePointer, ReadReverseAmount, world
<1>21. CASE RecordRestore(w)
  <2> DEFINE new == [mig EXCEPT !.rollbackPointerRestored = TRUE]
  <2>n. new.status = mig.status /\ SameAmounts(new, mig)
    BY <1>t DEF Documents, SameAmounts
  <2>f. /\ transitionMigration(w, "rollback_started", new, "reverse")
        /\ bal' = bal /\ owed' = owed /\ invoices' = invoices
    BY <1>21 DEF RecordRestore, patchRollbackProgress, world
  <2> HIDE DEF new
  <2> QED BY <2>n, <2>f, <1>g, <1>w
<1>22. CASE EnsureReverseInvoice(w)
  <2>1. CASE mig' = mig /\ invoices' = invoices
    BY <1>22, <2>1, IdleDeed DEF EnsureReverseInvoice, world
  <2>2. ASSUME NEW i \in InvoiceIds, NewInvoice(i, "reverse"),
               patchRollbackProgress(w, [mig EXCEPT !.rollbackInvoice = i], "pay_reverse")
        PROVE  Deed(w)
    <3> DEFINE new == [mig EXCEPT !.rollbackInvoice = i]
    <3>n. new.status = mig.status /\ SameAmounts(new, mig)
      BY <1>t DEF Documents, SameAmounts
    <3>f. /\ transitionMigration(w, "rollback_started", new, "pay_reverse")
          /\ bal' = bal /\ owed' = owed
      BY <1>22, <2>2 DEF EnsureReverseInvoice, patchRollbackProgress, world
    <3>g. Growth(invoices, invoices') /\ Quiet(invoices, invoices')
      BY <2>2, NewInvoiceGrows DEF Purposes
    <3> HIDE DEF new
    <3> QED BY <3>n, <3>f, <3>g, <1>w
  <2> QED BY <1>22, <2>1, <2>2 DEF EnsureReverseInvoice
<1>23. CASE PayReverse(w)
  <2>1. CASE bal' = bal /\ invoices' = invoices
    BY <1>23, <2>1, IdleDeed DEF PayReverse, world
  <2>2. ASSUME ~(bal' = bal /\ invoices' = invoices) PROVE SendsBack(w) /\ owed' = owed
    BY <1>23, <2>2 DEF PayReverse, world, SendsBack
  <2> QED BY <2>1, <2>2 DEF Deed
<1>24. CASE RecordReverse(w)
  <2> DEFINE new == [mig EXCEPT !.rollbackTransactionId = proc[w].doc.rollbackInvoice]
  <2>n. new.status = mig.status /\ SameAmounts(new, mig)
    BY <1>t DEF Documents, SameAmounts
  <2>f. /\ transitionMigration(w, "rollback_started", new, "verify")
        /\ bal' = bal /\ owed' = owed /\ invoices' = invoices
    BY <1>24 DEF RecordReverse, patchRollbackProgress, world
  <2> HIDE DEF new
  <2> QED BY <2>n, <2>f, <1>g, <1>w
<1>25. CASE VerifyRollback(w)
  <2>1. CASE mig' = mig
    BY <1>25, <2>1, IdleDeed DEF VerifyRollback, world
  <2>2. CASE mig' # mig
    <3> DEFINE new == [mig EXCEPT !.status = "rolled_back"]
               doc == proc[w].doc
               short == legacyShortfallUsdtMicros(doc.sourceBalance, bal["legacy"])
    <3>1. /\ mig.status = "rollback_started" /\ mig' = new /\ proc[w].pc = "verify"
          /\ bal' = bal /\ owed' = owed /\ invoices' = invoices
          /\ forwardMovedFunds(doc) => doc.sourceBalance # Undefined /\ ~(short > Tolerance)
      BY <1>25, <2>2 DEF VerifyRollback, transitionMigration, world
    <3>2. new.status = "rolled_back" /\ SameAmounts(new, mig)
      BY <1>t DEF Documents, SameAmounts
    <3>3. doc.status = "rollback_started"
      BY <1>d, <3>1 DEF ProcOK, UndoPcs
    <3>4. forwardMovedFunds(doc) => short <= Tolerance
      <4>1. forwardMovedFunds(doc) => short \in Nat
        BY <3>1, <1>t, ShortfallIsNat DEF TypeOK, Documents, Amounts, Wallets
      <4> HIDE DEF short
      <4> QED BY SMT, <3>1, <4>1, AmountsAssumption
    <3> HIDE DEF new
    <3>5. Advances(w)
      BY <3>1, <3>2, <3>3, <3>4 DEF Advances
    <3> QED BY <3>1, <3>2, <3>5, <1>g DEF Deed, Rests
  <2> QED BY <2>1, <2>2
<1>26. CASE EnsureShortfallInvoice(w)
  <2>1. CASE mig' = mig /\ invoices' = invoices
    BY <1>26, <2>1, IdleDeed DEF EnsureShortfallInvoice, world
  <2>2. ASSUME NEW i \in InvoiceIds, NewInvoice(i, "shortfall"),
               patchRollbackProgress(w, [mig EXCEPT !.shortfallInvoice = i], "pay_shortfall")
        PROVE  Deed(w)
    <3> DEFINE new == [mig EXCEPT !.shortfallInvoice = i]
    <3>n. new.status = mig.status /\ SameAmounts(new, mig)
      BY <1>t DEF Documents, SameAmounts
    <3>f. /\ transitionMigration(w, "rollback_started", new, "pay_shortfall")
          /\ bal' = bal /\ owed' = owed
      BY <1>26, <2>2 DEF EnsureShortfallInvoice, patchRollbackProgress, world
    <3>g. Growth(invoices, invoices') /\ Quiet(invoices, invoices')
      BY <2>2, NewInvoiceGrows DEF Purposes
    <3> HIDE DEF new
    <3> QED BY <3>n, <3>f, <3>g, <1>w
  <2> QED BY <1>26, <2>1, <2>2 DEF EnsureShortfallInvoice
<1>27. CASE PayShortfall(w)
  <2>1. CASE bal' = bal /\ invoices' = invoices
    BY <1>27, <2>1, IdleDeed DEF PayShortfall, world
  <2>2. ASSUME ~(bal' = bal /\ invoices' = invoices) PROVE TopsUp(w) /\ owed' = owed
    BY <1>27, <2>2 DEF PayShortfall, world, TopsUp
  <2> QED BY <2>1, <2>2 DEF Deed
<1>28. CASE RecordShortfall(w)
  <2> DEFINE new == [mig EXCEPT !.shortfallTransactionId = proc[w].doc.shortfallInvoice]
  <2>n. new.status = mig.status /\ SameAmounts(new, mig)
    BY <1>t DEF Documents, SameAmounts
  <2>f. /\ transitionMigration(w, "rollback_started", new, "release")
        /\ bal' = bal /\ owed' = owed /\ invoices' = invoices
    BY <1>28 DEF RecordShortfall, patchRollbackProgress, world
  <2> HIDE DEF new
  <2> QED BY <2>n, <2>f, <1>g, <1>w
<1> QED BY <1>1, <1>2, <1>3, <1>4, <1>5, <1>6, <1>7, <1>8, <1>9, <1>10, <1>11, <1>12, <1>13,
           <1>14, <1>15, <1>17, <1>18, <1>19, <1>20, <1>21, <1>22, <1>23, <1>24, <1>25,
           <1>26, <1>27, <1>28 DEF ForwardStep, RollbackStep

\* What the outer steps do to the money: nothing, but for the user and for
\* those who pay the user.
LEMMA OuterMoney ==
    ASSUME TypeOK,
           \/ \E w \in Workers : RunnerStep(w) \/ Crash(w)
           \/ Environment
           \/ UNCHANGED vars
    PROVE  \/ bal' = bal /\ owed' = owed
           \/ \E x \in Wallets, a \in Nat : /\ a <= bal[x] /\ bal' = [bal EXCEPT ![x] = @ - a]
                                            /\ owed' = owed - a
           \/ \E x \in DepositWallets, a \in Nat : /\ bal' = [bal EXCEPT ![x] = @ + a]
                                                   /\ owed' = owed + a
<1>1. CASE MakePayment
  <2>1. user \in Wallets /\ bal[user] \in Nat
    BY <1>1 DEF MakePayment, TypeOK
  <2>2. PICK a \in Payments : LET paid == IF a <= bal[user] THEN a ELSE 0 IN
                              /\ bal' = [bal EXCEPT ![user] = @ - paid]
                              /\ owed' = owed - paid
    BY <1>1 DEF MakePayment
  <2> DEFINE paid == IF a <= bal[user] THEN a ELSE 0
  <2>3. paid \in Nat /\ paid <= bal[user]
    BY SMT, <2>1, AmountsAssumption
  <2>4. bal' = [bal EXCEPT ![user] = @ - paid] /\ owed' = owed - paid
    BY <2>2
  <2> HIDE DEF paid
  <2> QED BY <2>1, <2>3, <2>4
<1>2. CASE ReceivePayment
  BY <1>2, AmountsAssumption DEF ReceivePayment
<1>3. CASE bal' = bal /\ owed' = owed
  BY <1>3
<1> QED BY <1>1, <1>2, <1>3
        DEF RunnerStep, ListMigration, AcquireMigrationLock, ReleaseMigrationLock,
            MarkMigrationFailed, Crash, Environment, LockGoesStale, RequestRollback,
            RetryFailed, RoutePayment, InvoiceExpires, vars, world

\* Nothing at all, while the user has no payment under way and nobody pays in.
LEMMA OuterStill ==
    ASSUME user = "none", DepositWallets = {},
           \/ \E w \in Workers : RunnerStep(w) \/ Crash(w)
           \/ Environment
           \/ UNCHANGED vars
    PROVE  bal' = bal /\ owed' = owed
BY DEF RunnerStep, ListMigration, AcquireMigrationLock, ReleaseMigrationLock,
       MarkMigrationFailed, Crash, Environment, LockGoesStale, RequestRollback,
       RetryFailed, RoutePayment, MakePayment, ReceivePayment, InvoiceExpires, vars, world

-----------------------------------------------------------------------------
\* The amounts.

\* Statuses that say nothing of the amounts.
LEMMA AmountsKept ==
    ASSUME NEW d, NEW e, AmountsOK(d), SameContents(e, d),
           \/ e.status = d.status
           \/ e.status \in {"rollback_started", "pointer_flipped", "failed",
                            "requires_operator_review"}
    PROVE  AmountsOK(e)
BY DEF AmountsOK, SameContents, BeforeReading, BeforeFeeRead, BeforeMove, PreMoneyStatuses,
       FeeStatuses

\* A step of an executing process records the move from invoice_created only.
LEMMA MoveRecorded ==
    ASSUME Trail, NEW w \in Workers, BookStep(w)
    PROVE  \/ mig'.balanceMoveTransactionId = mig.balanceMoveTransactionId
           \/ mig.status = "invoice_created" /\ mig.status = proc[w].doc.status
<1>1. CASE Bookless \/ Restores(w)
  BY <1>1 DEF Bookless, SameRecords, Restores, transactionOf, Purposes
<1>2. ASSUME NEW kind \in Purposes, Pays(w, kind)
      PROVE  mig'.balanceMoveTransactionId = mig.balanceMoveTransactionId
  BY <1>2 DEF Pays
<1>3. ASSUME NEW kind \in Purposes, Records(w, kind), kind # "move"
      PROVE  mig'.balanceMoveTransactionId = mig.balanceMoveTransactionId
  BY <1>3 DEF Records, transactionOf, Purposes
<1>4. ASSUME Records(w, "move")
      PROVE  mig.status = "invoice_created" /\ mig.status = proc[w].doc.status
  BY <1>4 DEF Records, RecordPc, Trail, ProcOK
<1> QED BY <1>1, <1>2, <1>3, <1>4 DEF BookStep

\* A deed keeps the amounts of the document in order.
LEMMA DeedAmounts ==
    ASSUME TypeOK, TypeOK', AmountsOK(mig), NEW w \in Workers, Deed(w),
           SameContents(proc[w].doc, mig),
           \/ mig'.balanceMoveTransactionId = mig.balanceMoveTransactionId
           \/ mig.status = "invoice_created"
    PROVE  AmountsOK(mig')
<1>t. /\ bal["legacy"] \in Nat /\ bal["usdt"] \in Nat
      /\ proc[w].doc.destinationAmount \in Amounts
      /\ proc[w].doc.destinationStartingBalance \in Amounts
  BY DEF TypeOK, Wallets, Processes, Documents
<1>n. /\ toMicrosRounded(bal["legacy"]) \in Nat /\ toMicrosRounded(bal["usdt"]) \in Nat
      /\ \A n \in Nat : n # Undefined
  BY SMT, <1>t, RoundedIsNat DEF Undefined
<1>1. CASE mig' = mig
  BY <1>1
<1>2. CASE Rests(w) /\ mig'.status = mig.status
  BY <1>2 DEF Rests, SameAmounts, AmountsOK
<1>3. CASE Rests(w) /\ Advances(w)
  BY <1>3 DEF Rests, Advances, SameAmounts, AmountsOK, BeforeReading, BeforeFeeRead, BeforeMove,
              PreMoneyStatuses, FeeStatuses, SameContents
<1>4. CASE ReadsBalance(w)
  BY <1>4, <1>n, <1>t DEF ReadsBalance, AmountsOK, BeforeReading, BeforeFeeRead, BeforeMove,
              PreMoneyStatuses, FeeStatuses
<1>5. CASE ReadsFee(w)
  <2>1. mig'.feeAmount \in Nat
    BY <1>5, <1>n, <1>t, ShortfallIsNat DEF ReadsFee
  <2> QED BY <1>5, <2>1, <1>n DEF ReadsFee, AmountsOK, BeforeReading, BeforeFeeRead, BeforeMove,
              PreMoneyStatuses, FeeStatuses
<1> QED BY <1>1, <1>2, <1>3, <1>4, <1>5
        DEF Deed, Rests, MovesBalance, Reimburses, SendsBack, TopsUp

-----------------------------------------------------------------------------
\* What is paid.

\* A step without payments leaves what is paid as it is.
LEMMA QuietFor ==
    ASSUME Growth(invoices, invoices'), Quiet(invoices, invoices')
    PROVE  \A kind \in Purposes : (paidFor(kind))' = paidFor(kind)
BY DEF Growth, Quiet, paidFor, Purposes

\* A payment adds its invoice to what is paid of its kind.
LEMMA PaidAdds ==
    ASSUME TypeOK, NEW kind \in Purposes, NEW i \in Issued(invoices, kind), Paid(i)
    PROVE  /\ (paidFor(kind))' = paidFor(kind) \cup {i}
           /\ \A k \in Purposes \ {kind} : (paidFor(k))' = paidFor(k)
<1>1. /\ i \in InvoiceIds /\ invoices[i].purpose = kind
      /\ i \in PaidOf(invoices', kind)
      /\ \A j \in InvoiceIds : invoices'[j].purpose = invoices[j].purpose
      /\ \A j \in InvoiceIds \ {i} : invoices'[j] = invoices[j]
  BY PaidGrows DEF Issued
<1>2. (paidFor(kind))' = paidFor(kind) \cup {i}
  BY <1>1 DEF paidFor, PaidOf
<1>3. ASSUME NEW k \in Purposes \ {kind} PROVE (paidFor(k))' = paidFor(k)
  BY <1>1, <1>3 DEF paidFor
<1> QED BY <1>2, <1>3

\* A process about to pay holds an invoice of the kind it pays.
LEMMA PayingIssued ==
    ASSUME Trail, NEW w \in Workers
    PROVE  /\ proc[w].pc = "pay_move" => proc[w].doc.balanceMoveInvoice \in Issued(invoices, "move")
           /\ proc[w].pc = "pay_fee" => proc[w].doc.feeInvoice \in Issued(invoices, "fee")
           /\ proc[w].pc = "pay_reverse" =>
                  proc[w].doc.rollbackInvoice \in Issued(invoices, "reverse")
           /\ proc[w].pc = "pay_shortfall" =>
                  proc[w].doc.shortfallInvoice \in Issued(invoices, "shortfall")
BY DEF Trail, ProcOK, DocOK

\* A restored pointer stays recorded.
LEMMA RestoredStays ==
    ASSUME NEW w \in Workers, BookStep(w)
    PROVE  mig.rollbackPointerRestored => mig'.rollbackPointerRestored
BY DEF BookStep, Pays, Records, Restores, Bookless, SameRecords

-----------------------------------------------------------------------------
\* The invoices.

\* What a step of an executing process does to the invoices recorded for the
\* fee and for the two payments of the rollback: it replaces one only where the
\* process's copy has none, or one that has expired.
SameInvoices(d, e) ==
    /\ d.feeInvoice = e.feeInvoice
    /\ d.rollbackInvoice = e.rollbackInvoice
    /\ d.shortfallInvoice = e.shortfallInvoice

Expired(i) == i \in InvoiceIds /\ invoices[i].expired

InvoicesKept(w) ==
    /\ \/ mig'.feeInvoice = mig.feeInvoice
       \/ /\ mig.status = "balance_move_verified"
          /\ mig'.status = "fee_reimbursement_invoice_created"
       \/ Expired(proc[w].doc.feeInvoice)
    /\ \/ mig'.rollbackInvoice = mig.rollbackInvoice
       \/ proc[w].doc.rollbackInvoice = NoInvoice \/ Expired(proc[w].doc.rollbackInvoice)
    /\ \/ mig'.shortfallInvoice = mig.shortfallInvoice
       \/ proc[w].doc.shortfallInvoice = NoInvoice \/ Expired(proc[w].doc.shortfallInvoice)

\* The invoices in the document after a step of ForwardStep, RollbackStep or StepFails.
LEMMA InnerInvoices ==
    ASSUME TypeOK, Trail, NEW w \in Workers,
           ForwardStep(w) \/ RollbackStep(w) \/ StepFails(w)
    PROVE  InvoicesKept(w)
<1> USE DEF Step, At
<1>t. mig \in Documents /\ proc[w].doc \in Documents
  BY DEF TypeOK, Processes
<1>s. ASSUME SameInvoices(mig', mig) PROVE InvoicesKept(w)
  BY <1>s DEF SameInvoices, InvoicesKept
<1>f. ASSUME NEW new \in Documents, NEW to, NEW pc, ForwardTransition(w, to, new, pc),
             SameInvoices(new, mig)
      PROVE  InvoicesKept(w)
  <2>1. mig' = mig \/ mig' = [new EXCEPT !.status = to]
    BY <1>f DEF ForwardTransition, transitionMigration
  <2>2. SameInvoices([new EXCEPT !.status = to], mig)
    BY <1>f DEF SameInvoices, Documents
  <2> QED BY <2>1, <2>2, <1>s DEF SameInvoices
<1>r. ASSUME NEW new, NEW pc, transitionMigration(w, "rollback_started", new, pc),
             SameInvoices(new, mig)
      PROVE  InvoicesKept(w)
  BY <1>r, <1>s DEF transitionMigration, SameInvoices
<1>0. CASE mig' = mig
  BY <1>0, <1>s DEF SameInvoices
<1>1. CASE \/ SkipTerminal(w) \/ FlipDefaultPointer(w) \/ StepFails(w) \/ PayBalanceMove(w)
           \/ PayFee(w) \/ RollbackWrongStatus(w) \/ RestorePointer(w) \/ ReadReverseAmount(w)
           \/ PayReverse(w) \/ PayShortfall(w)
  BY <1>0, <1>1 DEF SkipTerminal, FlipDefaultPointer, StepFails, PayBalanceMove, PayFee,
         RollbackWrongStatus, RestorePointer, ReadReverseAmount, PayReverse, PayShortfall
<1>2. CASE \/ StartMigration(w) \/ ProvisionDestination(w) \/ MarkBalanceMoveSent(w)
           \/ VerifyBalanceMove(w) \/ MarkFeeReimbursed(w) \/ VerifyLegacyZero(w)
           \/ CompleteMigration(w)
  <2>1. mig' = mig \/ \E to, pc : ForwardTransition(w, to, mig, pc)
    BY <1>2 DEF StartMigration, ProvisionDestination, MarkBalanceMoveSent, VerifyBalanceMove,
                MarkFeeReimbursed, VerifyLegacyZero, CompleteMigration
  <2> QED BY <2>1, <1>0, <1>f, <1>t DEF SameInvoices
<1>3. CASE RecordBalance(w)
  <2> DEFINE new == [mig EXCEPT !.sourceBalance = bal["legacy"],
                        !.destinationAmount = toMicrosRounded(bal["legacy"]),
                        !.destinationStartingBalance = toMicrosRounded(bal["usdt"])]
  <2>1. new \in Documents /\ SameInvoices(new, mig)
    <3>1. bal["legacy"] \in Amounts /\ toMicrosRounded(bal["legacy"]) \in Amounts
          /\ toMicrosRounded(bal["usdt"]) \in Amounts
      BY RoundedIsNat DEF TypeOK, Wallets, Amounts
    <3> QED BY <3>1, <1>t DEF Documents, SameInvoices
  <2>2. ForwardTransition(w, "balance_read", new, "release")
    BY <1>3 DEF RecordBalance
  <2> HIDE DEF new
  <2> QED BY <2>1, <2>2, <1>f
<1>4. CASE CreateBalanceMoveInvoice(w) \/ PrepareBalanceMove(w)
  <2>1. mig' = mig \/ \E i \in InvoiceIds : \E pc :
            ForwardTransition(w, "invoice_created", [mig EXCEPT !.balanceMoveInvoice = i], pc)
    BY <1>4 DEF CreateBalanceMoveInvoice, PrepareBalanceMove
  <2>2. \A i \in InvoiceIds : /\ [mig EXCEPT !.balanceMoveInvoice = i] \in Documents
                              /\ SameInvoices([mig EXCEPT !.balanceMoveInvoice = i], mig)
    BY <1>t DEF Documents, SameInvoices, Ids
  <2> QED BY <2>1, <2>2, <1>0, <1>f
<1>5. CASE RecordBalanceMove(w)
  <2> DEFINE new == [mig EXCEPT !.balanceMoveTransactionId = proc[w].doc.balanceMoveInvoice]
  <2>1. new \in Documents /\ SameInvoices(new, mig)
    BY <1>t DEF Documents, SameInvoices
  <2>2. ForwardTransition(w, "balance_move_sending", new, "release")
    BY <1>5 DEF RecordBalanceMove
  <2> HIDE DEF new
  <2> QED BY <2>1, <2>2, <1>f
<1>6. CASE RecordFee(w)
  <2> DEFINE new == [mig EXCEPT !.feeTransactionId = proc[w].doc.feeInvoice]
  <2>1. new \in Documents /\ SameInvoices(new, mig)
    BY <1>t DEF Documents, SameInvoices
  <2>2. ForwardTransition(w, "fee_reimbursement_sending", new, "release")
    BY <1>6 DEF RecordFee
  <2> HIDE DEF new
  <2> QED BY <2>1, <2>2, <1>f
<1>7. CASE RecordFlip(w)
  <2> DEFINE new == [mig EXCEPT !.previousDefaultWalletId = proc[w].doc.previousDefaultWalletId]
  <2>1. new \in Documents /\ SameInvoices(new, mig)
    BY <1>t DEF Documents, SameInvoices
  <2>2. ForwardTransition(w, "pointer_flipped", new, "release")
    BY <1>7 DEF RecordFlip
  <2> HIDE DEF new
  <2> QED BY <2>1, <2>2, <1>f
<1>8. CASE ReadFee(w)
  <2> DEFINE fee == destinationShortfallUsdtMicros(proc[w].doc.destinationAmount,
                        proc[w].doc.destinationStartingBalance, toMicrosRounded(bal["usdt"]))
             a == [[mig EXCEPT !.feeAmount = fee] EXCEPT !.status = "fee_reimbursed"]
             b(i) == [[mig EXCEPT !.feeAmount = fee, !.feeInvoice = i]
                          EXCEPT !.status = "fee_reimbursement_invoice_created"]
  <2>1. mig' = mig \/ mig' = a \/ (mig.status = "balance_move_verified" /\ \E i : mig' = b(i))
    BY <1>8 DEF ReadFee, ForwardTransition, transitionMigration
  <2> HIDE DEF fee
  <2>2. SameInvoices(a, mig)
    BY <1>t DEF Documents, SameInvoices
  <2>3. ASSUME NEW i
        PROVE  /\ b(i).status = "fee_reimbursement_invoice_created"
               /\ b(i).rollbackInvoice = mig.rollbackInvoice
               /\ b(i).shortfallInvoice = mig.shortfallInvoice
    BY <1>t DEF Documents
  <2> HIDE DEF a, b
  <2> QED BY <2>1, <2>2, <2>3, <1>0, <1>s DEF InvoicesKept
<1>9. CASE PrepareFee(w)
  <2>1. CASE Expired(proc[w].doc.feeInvoice)
    <3>1. PICK i \in InvoiceIds :
              \/ mig' = mig
              \/ mig' = [[mig EXCEPT !.feeInvoice = i]
                             EXCEPT !.status = "fee_reimbursement_invoice_created"]
      BY <1>9, <2>1 DEF PrepareFee, ForwardTransition, transitionMigration, Expired
    <3>2. mig'.rollbackInvoice = mig.rollbackInvoice /\ mig'.shortfallInvoice = mig.shortfallInvoice
      BY <3>1, <1>t DEF Documents
    <3> QED BY <2>1, <3>2 DEF InvoicesKept
  <2>2. CASE ~Expired(proc[w].doc.feeInvoice)
    <3>1. proc[w].doc.feeInvoice \in InvoiceIds
      BY <1>9, InvoiceIdsAssumption DEF PrepareFee, Trail, ProcOK, DocOK, Issued, NoInvoice
    <3>2. mig' = mig
      BY <1>9, <2>2, <3>1 DEF PrepareFee, Expired, isInvoicePaymentRequestStale
    <3> QED BY <3>2, <1>0
  <2> QED BY <2>1, <2>2
<1>10. CASE RecordRestore(w) \/ RecordReverse(w) \/ VerifyRollback(w) \/ RecordShortfall(w)
  <2>1. mig' = mig \/ \E pc, x :
            \/ transitionMigration(w, "rollback_started", [mig EXCEPT !.rollbackPointerRestored = x], pc)
            \/ transitionMigration(w, "rollback_started", [mig EXCEPT !.rollbackTransactionId = x], pc)
            \/ transitionMigration(w, "rollback_started", [mig EXCEPT !.status = x], pc)
            \/ transitionMigration(w, "rollback_started", [mig EXCEPT !.shortfallTransactionId = x], pc)
    BY <1>10 DEF RecordRestore, RecordReverse, VerifyRollback, RecordShortfall,
                 patchRollbackProgress
  <2>2. \A x : /\ SameInvoices([mig EXCEPT !.rollbackPointerRestored = x], mig)
               /\ SameInvoices([mig EXCEPT !.rollbackTransactionId = x], mig)
               /\ SameInvoices([mig EXCEPT !.status = x], mig)
               /\ SameInvoices([mig EXCEPT !.shortfallTransactionId = x], mig)
    BY <1>t DEF Documents, SameInvoices
  <2> QED BY <2>1, <2>2, <1>0, <1>r
<1>11. CASE EnsureReverseInvoice(w)
  <2>0. proc[w].doc.rollbackInvoice \in InvoiceIds \cup {NoInvoice}
    BY <1>t DEF Documents, Ids
  <2>1. CASE proc[w].doc.rollbackInvoice = NoInvoice \/ Expired(proc[w].doc.rollbackInvoice)
    <3>1. mig' = mig \/ \E i : mig' = [mig EXCEPT !.rollbackInvoice = i]
      BY <1>11 DEF EnsureReverseInvoice, patchRollbackProgress, transitionMigration
    <3>2. mig'.feeInvoice = mig.feeInvoice /\ mig'.shortfallInvoice = mig.shortfallInvoice
      BY <3>1, <1>t DEF Documents
    <3> QED BY <2>1, <3>2 DEF InvoicesKept
  <2> QED BY <1>11, <2>0, <2>1, <1>0 DEF EnsureReverseInvoice, Expired, isInvoicePaymentRequestStale
<1>12. CASE EnsureShortfallInvoice(w)
  <2>0. proc[w].doc.shortfallInvoice \in InvoiceIds \cup {NoInvoice}
    BY <1>t DEF Documents, Ids
  <2>1. CASE proc[w].doc.shortfallInvoice = NoInvoice \/ Expired(proc[w].doc.shortfallInvoice)
    <3>1. mig' = mig \/ \E i : mig' = [mig EXCEPT !.shortfallInvoice = i]
      BY <1>12 DEF EnsureShortfallInvoice, patchRollbackProgress, transitionMigration
    <3>2. mig'.feeInvoice = mig.feeInvoice /\ mig'.rollbackInvoice = mig.rollbackInvoice
      BY <3>1, <1>t DEF Documents
    <3> QED BY <2>1, <3>2 DEF InvoicesKept
  <2> QED BY <1>12, <2>0, <2>1, <1>0 DEF EnsureShortfallInvoice, Expired, isInvoicePaymentRequestStale
<1> QED BY <1>1, <1>2, <1>3, <1>4, <1>5, <1>6, <1>7, <1>8, <1>9, <1>10, <1>11, <1>12
        DEF ForwardStep, RollbackStep

\* An event that may not happen any more never will.
LEMMA NothingHappens ==
    ASSUME TypeOK, [Next]_vars, NEW event \in Events, left[event] = 0
    PROVE  left'[event] = 0
<1>t. left \in [Events -> Nat]
  BY DEF TypeOK
<1>1. left' = left \/ \E e \in Events : Happens(e)
  <2>1. ASSUME NEW w \in Workers, ForwardStep(w) PROVE left' = left \/ Happens("ambiguous")
    BY <2>1 DEF ForwardStep, SkipTerminal, StartMigration, ProvisionDestination, RecordBalance,
         CreateBalanceMoveInvoice, PrepareBalanceMove, PayBalanceMove, RecordBalanceMove,
         MarkBalanceMoveSent, VerifyBalanceMove, ReadFee, PrepareFee, PayFee, RecordFee,
         MarkFeeReimbursed, FlipDefaultPointer, RecordFlip, VerifyLegacyZero,
         CompleteMigration, SettledOutcome
  <2>2. ASSUME NEW w \in Workers, RollbackStep(w) PROVE left' = left \/ Happens("ambiguous")
    BY <2>2 DEF RollbackStep, RollbackWrongStatus, RestorePointer, RecordRestore,
         ReadReverseAmount, EnsureReverseInvoice, PayReverse, RecordReverse, VerifyRollback,
         EnsureShortfallInvoice, PayShortfall, RecordShortfall, SettledOutcome
  <2>3. ASSUME NEW w \in Workers, RunnerStep(w) PROVE left' = left
    BY <2>3 DEF RunnerStep, ListMigration, AcquireMigrationLock, ReleaseMigrationLock,
         MarkMigrationFailed
  <2>4. ASSUME NEW w \in Workers, StepFails(w) \/ Crash(w)
        PROVE  Happens("error") \/ Happens("crash")
    BY <2>4 DEF StepFails, Crash
  <2>5. CASE Environment
    BY <2>5 DEF Environment, LockGoesStale, RequestRollback, RetryFailed, RoutePayment,
         MakePayment, ReceivePayment, InvoiceExpires, Events
  <2>6. {"ambiguous", "error", "crash"} \subseteq Events
    BY DEF Events
  <2> QED BY <2>1, <2>2, <2>3, <2>4, <2>5, <2>6 DEF Next, WorkerStep, vars
<1>2. \A e \in Events : Happens(e) => e # event
  BY SMT DEF Happens
<1> QED BY <1>1, <1>2, <1>t DEF Happens

\* While no invoice may expire, none does.
LEMMA NoneExpires ==
    ASSUME TypeOK, [Next]_vars, left["expire"] = 0, \A i \in InvoiceIds : ~invoices[i].expired
    PROVE  left'["expire"] = 0 /\ \A i \in InvoiceIds : ~invoices'[i].expired
<1>t. invoices \in [InvoiceIds -> Invoices]
  BY DEF TypeOK
<1>2. left'["expire"] = 0
  BY NothingHappens DEF Events
<1>3. \/ invoices' = invoices \/ \E i : Paid(i)
      \/ \E i \in InvoiceIds, p \in Purposes : NewInvoice(i, p)
  <2>1. ASSUME NEW w \in Workers, ForwardStep(w)
        PROVE  \/ invoices' = invoices \/ \E i : Paid(i)
               \/ \E i \in InvoiceIds, p \in Purposes : NewInvoice(i, p)
    BY <2>1 DEF ForwardStep, SkipTerminal, StartMigration, ProvisionDestination, RecordBalance,
         CreateBalanceMoveInvoice, PrepareBalanceMove, PayBalanceMove, RecordBalanceMove,
         MarkBalanceMoveSent, VerifyBalanceMove, ReadFee, PrepareFee, PayFee, RecordFee,
         MarkFeeReimbursed, FlipDefaultPointer, RecordFlip, VerifyLegacyZero,
         CompleteMigration, Purposes
  <2>2. ASSUME NEW w \in Workers, RollbackStep(w)
        PROVE  \/ invoices' = invoices \/ \E i : Paid(i)
               \/ \E i \in InvoiceIds, p \in Purposes : NewInvoice(i, p)
    BY <2>2 DEF RollbackStep, RollbackWrongStatus, RestorePointer, RecordRestore,
         ReadReverseAmount, EnsureReverseInvoice, PayReverse, RecordReverse, VerifyRollback,
         EnsureShortfallInvoice, PayShortfall, RecordShortfall, Purposes
  <2>3. ASSUME NEW w \in Workers, RunnerStep(w) \/ StepFails(w) \/ Crash(w)
        PROVE  invoices' = invoices
    BY <2>3 DEF RunnerStep, ListMigration, AcquireMigrationLock, ReleaseMigrationLock,
         MarkMigrationFailed, StepFails, Crash
  <2>4. CASE Environment
    <3>1. \A i \in InvoiceIds : ~InvoiceExpires(i)
      BY SMT DEF InvoiceExpires, Happens
    <3> QED BY <2>4, <3>1 DEF Environment, LockGoesStale, RequestRollback, RetryFailed,
              RoutePayment, MakePayment, ReceivePayment
  <2> QED BY <2>1, <2>2, <2>3, <2>4 DEF Next, WorkerStep, vars
<1>4. \A i \in InvoiceIds : ~invoices'[i].expired
  BY SMT, <1>3, <1>t DEF Paid, NewInvoice, Invoices
<1> QED BY <1>2, <1>4

-----------------------------------------------------------------------------
\* What a rollback is about to pay.

\* The user stays away while no payment of theirs may come.
LEMMA NobodySpends ==
    ASSUME [Next]_vars, user = "none", left["spend"] = 0
    PROVE  user' = "none"
<1>1. ASSUME NEW w \in Workers, ForwardStep(w) PROVE user' = user
  BY <1>1 DEF ForwardStep, SkipTerminal, StartMigration, ProvisionDestination, RecordBalance,
       CreateBalanceMoveInvoice, PrepareBalanceMove, PayBalanceMove, RecordBalanceMove,
       MarkBalanceMoveSent, VerifyBalanceMove, ReadFee, PrepareFee, PayFee, RecordFee,
       MarkFeeReimbursed, FlipDefaultPointer, RecordFlip, VerifyLegacyZero,
       CompleteMigration, world
<1>2. ASSUME NEW w \in Workers, RollbackStep(w) PROVE user' = user
  BY <1>2 DEF RollbackStep, RollbackWrongStatus, RestorePointer, RecordRestore,
       ReadReverseAmount, EnsureReverseInvoice, PayReverse, RecordReverse, VerifyRollback,
       EnsureShortfallInvoice, PayShortfall, RecordShortfall, world
<1>3. ASSUME NEW w \in Workers, RunnerStep(w) \/ StepFails(w) \/ Crash(w) PROVE user' = user
  BY <1>3 DEF RunnerStep, ListMigration, AcquireMigrationLock, ReleaseMigrationLock,
       MarkMigrationFailed, StepFails, Crash, world
<1>4. ~RoutePayment
  BY SMT DEF RoutePayment, Happens
<1>5. CASE Environment
  BY <1>4, <1>5 DEF Environment, LockGoesStale, RequestRollback, RetryFailed, MakePayment,
       ReceivePayment, InvoiceExpires, world
<1> QED BY <1>1, <1>2, <1>3, <1>5 DEF Next, WorkerStep, vars

\* Where a step of an executing process leads to a payment of the rollback, and
\* with which amount.
PurseStep(w) ==
    /\ proc'[w].pc = "verify" =>
           \/ proc[w].pc = "record_reverse" /\ mig'.rollbackTransactionId # NoInvoice
           \/ /\ mig' = mig
              /\ \/ ~forwardMovedFunds(proc[w].doc) \/ proc[w].doc.destinationAmount = 0
                 \/ proc[w].doc.rollbackTransactionId # NoInvoice
    /\ proc'[w].pc = "reverse_invoice" =>
           /\ mig' = mig /\ proc'[w].amount \in Nat
           /\ proc[w].doc.destinationAmount - Tolerance <= proc'[w].amount
    /\ proc'[w].pc = "pay_reverse" =>
           /\ proc[w].pc = "reverse_invoice" /\ proc'[w].amount = proc[w].amount
           /\ mig'.destinationAmount = mig.destinationAmount
    /\ proc'[w].pc = "shortfall_invoice" =>
           /\ proc[w].pc = "verify" /\ forwardMovedFunds(proc[w].doc) /\ mig' = mig /\ bal' = bal
           /\ proc'[w].amount = legacyShortfallUsdtMicros(proc[w].doc.sourceBalance, bal["legacy"])
    /\ proc'[w].pc = "pay_shortfall" =>
           /\ proc[w].pc = "shortfall_invoice" /\ proc'[w].amount = proc[w].amount
           /\ bal' = bal /\ mig'.rollbackTransactionId = mig.rollbackTransactionId
           /\ mig'.sourceBalance = mig.sourceBalance

\* Every step of ForwardStep, RollbackStep or StepFails is such a step.
LEMMA InnerPurse ==
    ASSUME TypeOK, Trail, OneWay, NEW w \in Workers,
           ForwardStep(w) \/ RollbackStep(w) \/ StepFails(w)
    PROVE  PurseStep(w)
<1> USE DEF At, patchRollbackProgress
<1>t. mig \in Documents /\ proc[w].doc \in Documents /\ proc \in [Workers -> Processes]
  BY DEF TypeOK, Processes
<1>g. ASSUME NEW pc, GoTo(w, pc) PROVE proc'[w].pc = pc /\ proc'[w].amount = proc[w].amount
  BY <1>g, <1>t DEF GoTo, Processes
<1>u. ASSUME NEW new, NEW pc, transitionMigration(w, "rollback_started", new, pc)
      PROVE  \/ proc'[w].pc = pc /\ proc'[w].amount = proc[w].amount /\ mig' = new
             \/ proc'[w].pc = "mark_failed"
  BY <1>u, <1>t, <1>g DEF transitionMigration, Fail, Processes
<1>a. ASSUME NEW pc, NEW a, proc' = [proc EXCEPT ![w].pc = pc, ![w].amount = a]
      PROVE  proc'[w].pc = pc /\ proc'[w].amount = a
  BY <1>a, <1>t DEF Processes
<1>0. CASE proc'[w].pc \notin {"verify", "reverse_invoice", "pay_reverse", "shortfall_invoice",
                               "pay_shortfall"}
  BY <1>0 DEF PurseStep
<1>1. CASE ForwardStep(w) \/ StepFails(w)
  <2>1. proc'[w].pc \in ForwardPcs \cup {"release", "mark_failed"}
    BY <1>1, ForwardHasEffect, StepFailsEffect DEF ForwardEffect, FailEffect
  <2> QED BY <2>1, <1>0 DEF ForwardPcs
<1>2. CASE RollbackWrongStatus(w) \/ RestorePointer(w)
  <2>1. GoTo(w, "mark_failed") \/ GoTo(w, "record_restore") \/ GoTo(w, "reverse")
    BY <1>2 DEF RollbackWrongStatus, RestorePointer, Fail
  <2>2. proc'[w].pc \in {"mark_failed", "record_restore", "reverse"}
    BY <2>1, <1>g
  <2> QED BY <2>2, <1>0
<1>3. CASE RecordRestore(w) \/ RecordShortfall(w)
  <2>1. \E new : \/ transitionMigration(w, "rollback_started", new, "reverse")
                 \/ transitionMigration(w, "rollback_started", new, "release")
    BY <1>3 DEF RecordRestore, RecordShortfall
  <2> QED BY <2>1, <1>u, <1>0
<1>4. CASE PayReverse(w) \/ PayShortfall(w)
  <2>1. GoTo(w, "mark_failed") \/ GoTo(w, "record_reverse") \/ GoTo(w, "record_shortfall")
    BY <1>4 DEF PayReverse, PayShortfall, SettledOutcome, Fail
  <2>2. proc'[w].pc \in {"mark_failed", "record_reverse", "record_shortfall"}
    BY <2>1, <1>g
  <2> QED BY <2>2, <1>0
<1>5. CASE ReadReverseAmount(w)
  <2> DEFINE doc == proc[w].doc
             target == doc.destinationAmount
             spendable == toMicrosFloored(bal["usdt"])
             amount == IF spendable < target THEN spendable ELSE target
  <2>1. /\ mig' = mig
        /\ \/ /\ ~forwardMovedFunds(doc) \/ doc.rollbackTransactionId # NoInvoice \/ target = 0
              /\ GoTo(w, "verify")
           \/ GoTo(w, "mark_failed")
           \/ /\ target # Undefined /\ ~(target - amount > Tolerance)
              /\ proc' = [proc EXCEPT ![w].pc = "reverse_invoice", ![w].amount = amount]
    BY <1>5 DEF ReadReverseAmount, Fail
  <2>2. CASE GoTo(w, "mark_failed")
    <3>1. proc'[w].pc = "mark_failed"
      BY <2>2, <1>g
    <3> QED BY <3>1, <1>0
  <2>3. ASSUME GoTo(w, "verify"),
               ~forwardMovedFunds(doc) \/ doc.rollbackTransactionId # NoInvoice \/ target = 0
        PROVE  PurseStep(w)
    <3>1. proc'[w].pc = "verify"
      BY <2>3, <1>g
    <3> QED BY <2>1, <2>3, <3>1 DEF PurseStep
  <2>4. ASSUME target # Undefined, ~(target - amount > Tolerance),
               proc' = [proc EXCEPT ![w].pc = "reverse_invoice", ![w].amount = amount]
        PROVE  PurseStep(w)
    <3>1. target \in Nat /\ spendable \in Nat /\ Tolerance \in Nat
      BY <2>4, <1>t, FlooredIsNat, AmountsAssumption DEF TypeOK, Documents, Amounts, Wallets
    <3> HIDE DEF target, spendable
    <3>2. amount \in Nat /\ target - Tolerance <= amount
      BY SMT, <2>4, <3>1
    <3> HIDE DEF amount
    <3>3. proc'[w].pc = "reverse_invoice" /\ proc'[w].amount = amount
      BY <2>4, <1>a
    <3> QED BY <2>1, <3>2, <3>3 DEF PurseStep, target
  <2> HIDE DEF doc, target, spendable, amount
  <2> QED BY <2>1, <2>2, <2>3, <2>4
<1>6. CASE EnsureReverseInvoice(w)
  <2>1. /\ proc[w].pc = "reverse_invoice"
        /\ \/ GoTo(w, "pay_reverse") /\ mig' = mig
           \/ \E i : transitionMigration(w, "rollback_started",
                         [mig EXCEPT !.rollbackInvoice = i], "pay_reverse")
    BY <1>6 DEF EnsureReverseInvoice
  <2>2. \A i : [mig EXCEPT !.rollbackInvoice = i].destinationAmount = mig.destinationAmount
    BY <1>t DEF Documents
  <2>3. \/ /\ proc'[w].pc = "pay_reverse" /\ proc'[w].amount = proc[w].amount
           /\ mig'.destinationAmount = mig.destinationAmount
        \/ proc'[w].pc = "mark_failed"
    BY <2>1, <2>2, <1>g, <1>u
  <2> QED BY <2>1, <2>3 DEF PurseStep
<1>7. CASE RecordReverse(w)
  <2> DEFINE new == [mig EXCEPT !.rollbackTransactionId = proc[w].doc.rollbackInvoice]
  <2>1. proc[w].pc = "record_reverse" /\ transitionMigration(w, "rollback_started", new, "verify")
    BY <1>7 DEF RecordReverse
  <2>2. new.rollbackTransactionId # NoInvoice
    BY <2>1, <1>t DEF Documents, Trail, ProcOK
  <2> HIDE DEF new
  <2>3. (proc'[w].pc = "verify" /\ mig' = new) \/ proc'[w].pc = "mark_failed"
    BY <2>1, <1>u
  <2> QED BY <2>1, <2>2, <2>3 DEF PurseStep
<1>8. CASE VerifyRollback(w)
  <2> DEFINE shortfall == legacyShortfallUsdtMicros(proc[w].doc.sourceBalance, bal["legacy"])
  <2>1. /\ proc[w].pc = "verify" /\ bal' = bal
        /\ \/ \E new : transitionMigration(w, "rollback_started", new, "release")
           \/ /\ forwardMovedFunds(proc[w].doc) /\ mig' = mig
              /\ proc' = [proc EXCEPT ![w].pc = "shortfall_invoice", ![w].amount = shortfall]
           \/ GoTo(w, "mark_failed")
    BY <1>8 DEF VerifyRollback, Fail
  <2> HIDE DEF shortfall
  <2>2. CASE (\E new : transitionMigration(w, "rollback_started", new, "release"))
             \/ GoTo(w, "mark_failed")
    <3>1. proc'[w].pc \in {"release", "mark_failed"}
      BY <2>2, <1>g, <1>u
    <3> QED BY <3>1, <1>0
  <2>3. ASSUME forwardMovedFunds(proc[w].doc), mig' = mig,
               proc' = [proc EXCEPT ![w].pc = "shortfall_invoice", ![w].amount = shortfall]
        PROVE  PurseStep(w)
    <3>1. proc'[w].pc = "shortfall_invoice" /\ proc'[w].amount = shortfall
      BY <2>3, <1>a
    <3> QED BY <2>1, <2>3, <3>1 DEF PurseStep, shortfall
  <2> QED BY <2>1, <2>2, <2>3
<1>9. CASE EnsureShortfallInvoice(w)
  <2>1. /\ proc[w].pc = "shortfall_invoice" /\ bal' = bal
        /\ \/ GoTo(w, "pay_shortfall") /\ mig' = mig
           \/ \E i : transitionMigration(w, "rollback_started",
                         [mig EXCEPT !.shortfallInvoice = i], "pay_shortfall")
    BY <1>9 DEF EnsureShortfallInvoice
  <2>2. \A i : LET new == [mig EXCEPT !.shortfallInvoice = i]
              IN  /\ new.rollbackTransactionId = mig.rollbackTransactionId
                  /\ new.sourceBalance = mig.sourceBalance
    BY <1>t DEF Documents
  <2>3. \/ /\ proc'[w].pc = "pay_shortfall" /\ proc'[w].amount = proc[w].amount
           /\ mig'.rollbackTransactionId = mig.rollbackTransactionId
           /\ mig'.sourceBalance = mig.sourceBalance
        \/ proc'[w].pc = "mark_failed"
    BY <2>1, <2>2, <1>g, <1>u
  <2> QED BY <2>1, <2>3 DEF PurseStep
<1> QED BY <1>1, <1>2, <1>3, <1>4, <1>5, <1>6, <1>7, <1>8, <1>9 DEF RollbackStep

-----------------------------------------------------------------------------
\* The default wallet.

\* A step of an executing process moves the default to the USDT wallet, or is the
\* restore of a rollback; only the flip leads to record_flip.
LEMMA InnerDefault ==
    ASSUME TypeOK, Trail, OneWay, NEW w \in Workers,
           ForwardStep(w) \/ RollbackStep(w) \/ StepFails(w)
    PROVE  /\ \/ default' = default
              \/ default' = "usdt"
              \/ proc[w].job = "rollback" /\ proc[w].doc.status = "rollback_started" /\ mig' = mig
           /\ proc'[w].pc = "record_flip" => default' = "usdt"
<1>t. proc \in [Workers -> Processes]
  BY DEF TypeOK
<1>1. CASE FlipDefaultPointer(w)
  BY <1>1 DEF FlipDefaultPointer
<1>2. CASE RollbackStep(w)
  <2>1. proc'[w].pc # "record_flip"
    BY <1>2, RollbackHasEffect DEF RollbackEffect, UndoPcs, ReversePcs, TopUpPcs
  <2>2. CASE RestorePointer(w)
    BY <2>1, <2>2 DEF RestorePointer, At
  <2> QED BY <1>2, <2>1, <2>2 DEF RollbackStep, RollbackWrongStatus, RecordRestore,
         ReadReverseAmount, EnsureReverseInvoice, PayReverse, RecordReverse, VerifyRollback,
         EnsureShortfallInvoice, PayShortfall, RecordShortfall
<1>3. CASE StepFails(w)
  BY SMT, <1>3, <1>t DEF StepFails, Fail, GoTo
<1>4. CASE ForwardStep(w) /\ ~FlipDefaultPointer(w)
  <2>1. default' = default
    BY <1>4 DEF ForwardStep, SkipTerminal, StartMigration, ProvisionDestination, RecordBalance,
         CreateBalanceMoveInvoice, PrepareBalanceMove, PayBalanceMove, RecordBalanceMove,
         MarkBalanceMoveSent, VerifyBalanceMove, ReadFee, PrepareFee, PayFee, RecordFee,
         MarkFeeReimbursed, RecordFlip, VerifyLegacyZero, CompleteMigration
  <2>2. \/ GoTo(w, "release") \/ GoTo(w, "pay_move") \/ GoTo(w, "pay_fee") \/ Fail(w)
        \/ SettledOutcome(w, "record_move") \/ SettledOutcome(w, "record_fee")
        \/ \E pc \in {"release", "pay_move", "pay_fee"} : \E to, new : ForwardTransition(w, to, new, pc)
    BY <1>4 DEF ForwardStep, SkipTerminal, StartMigration, ProvisionDestination, RecordBalance,
         CreateBalanceMoveInvoice, PrepareBalanceMove, PayBalanceMove, RecordBalanceMove,
         MarkBalanceMoveSent, VerifyBalanceMove, ReadFee, PrepareFee, PayFee, RecordFee,
         MarkFeeReimbursed, RecordFlip, VerifyLegacyZero, CompleteMigration
  <2>3. \E pc \in {"release", "pay_move", "pay_fee", "record_move", "record_fee", "mark_failed"} :
            \/ GoTo(w, pc)
            \/ \E d : proc' = [proc EXCEPT ![w].pc = pc, ![w].doc = d]
    BY <2>2 DEF ForwardTransition, transitionMigration, SettledOutcome, Fail
  <2>4. proc'[w].pc # "record_flip"
    BY SMT, <2>3, <1>t DEF GoTo, Processes
  <2> QED BY <2>1, <2>4
<1> QED BY <1>1, <1>2, <1>3, <1>4

-----------------------------------------------------------------------------
\* Arithmetic of the roundings.

\* Multiples of a micro keep their order.
LEMMA MultiplesOrdered ==
    ASSUME NEW a \in Int, NEW b \in Int, a <= b
    PROVE  a * SubPerMicro <= b * SubPerMicro
BY SMT, SubPerMicroAssumption

\* Rounding a balance is off by half a micro.
LEMMA HalfMicro ==
    ASSUME NEW s \in Nat
    PROVE  /\ 2 * s <= 2 * (toMicrosRounded(s) * SubPerMicro) + SubPerMicro
           /\ 2 * (toMicrosRounded(s) * SubPerMicro) <= 2 * s + SubPerMicro
<1> DEFINE m == s + SubPerMicro \div 2
           q == m \div SubPerMicro
<1>1. m \in Nat /\ 2 * m <= 2 * s + SubPerMicro /\ 2 * s + SubPerMicro <= 2 * m + 1
  BY SMT, SubPerMicroAssumption
<1> HIDE DEF m
<1>2. /\ q \in Nat /\ q * SubPerMicro <= m
      /\ m + 1 <= q * SubPerMicro + SubPerMicro
  BY SMT, <1>1, SubPerMicroAssumption
<1>3. toMicrosRounded(s) = q
  BY DEF toMicrosRounded, m
<1> HIDE DEF q
<1>4. q * SubPerMicro \in Nat /\ SubPerMicro \in Nat
  BY SMT, <1>2, SubPerMicroAssumption
<1> DEFINE p == q * SubPerMicro
<1>5. 2 * s <= 2 * p + SubPerMicro /\ 2 * p <= 2 * s + SubPerMicro
  <2> HIDE DEF p
  <2>1. p \in Nat /\ p <= m /\ m + 1 <= p + SubPerMicro
    BY <1>2, <1>4 DEF p
  <2> QED BY SMT, <2>1, <1>1, <1>4
<1> QED BY <1>3, <1>5

\* A legacy wallet the rollback finds whole, up to the tolerance, holds what the
\* account migrated with up to the tolerance and a micro of rounding.
LEMMA WholeLegacy ==
    ASSUME NEW source \in Nat, NEW current \in Nat,
           legacyShortfallUsdtMicros(source, current) <= Tolerance
    PROVE  source <= current + (Tolerance + 1) * SubPerMicro
<1> DEFINE s == toMicrosRounded(source)
           c == toMicrosRounded(current)
<1>1. s \in Nat /\ c \in Nat /\ Tolerance \in Nat /\ SubPerMicro \in Nat
  BY RoundedIsNat, SubPerMicroAssumption, AmountsAssumption
<1>2. s <= c + Tolerance
  BY SMT, <1>1 DEF legacyShortfallUsdtMicros
<1>h. /\ 2 * source <= 2 * (s * SubPerMicro) + SubPerMicro
      /\ 2 * (c * SubPerMicro) <= 2 * current + SubPerMicro
  BY HalfMicro
<1> HIDE DEF s, c
<1>3. s * SubPerMicro <= (c + Tolerance) * SubPerMicro
  BY SMT, <1>1, <1>2, MultiplesOrdered
<1>4. /\ (c + Tolerance) * SubPerMicro = c * SubPerMicro + Tolerance * SubPerMicro
      /\ (Tolerance + 1) * SubPerMicro = Tolerance * SubPerMicro + SubPerMicro
  BY SMT, <1>1
<1> DEFINE sS == s * SubPerMicro
           cS == c * SubPerMicro
           tS == Tolerance * SubPerMicro
<1>5. sS \in Nat /\ cS \in Nat /\ tS \in Nat
  BY SMT, <1>1
<1>6. /\ sS <= cS + tS /\ 2 * source <= 2 * sS + SubPerMicro
      /\ 2 * cS <= 2 * current + SubPerMicro
  BY <1>h, <1>3, <1>4
<1> HIDE DEF sS, cS, tS
<1>7. source <= current + tS + SubPerMicro
  BY SMT, <1>1, <1>5, <1>6
<1>8. tS + SubPerMicro = (Tolerance + 1) * SubPerMicro
  BY <1>4 DEF tS
<1> QED BY SMT, <1>1, <1>5, <1>7, <1>8

\* The fee read after the move covers what the user misses, up to the roundings
\* of the three balances it is computed from.
LEMMA FeeCovers ==
    ASSUME NEW source \in Nat, NEW start \in Nat, NEW usdt \in Nat, NEW due \in Int,
           2 * (due - source) <= 2 * (start * SubPerMicro) + SubPerMicro,
           due - usdt <= source
    PROVE  2 * (due - usdt) <= 2 * (destinationShortfallUsdtMicros(toMicrosRounded(source), start,
                                        toMicrosRounded(usdt)) * SubPerMicro) + 3 * SubPerMicro
<1> DEFINE D == toMicrosRounded(source)
           r == toMicrosRounded(usdt)
           fee == destinationShortfallUsdtMicros(D, start, r)
<1>1. D \in Nat /\ r \in Nat /\ fee \in Nat /\ SubPerMicro \in Nat
  BY RoundedIsNat, ShortfallIsNat, SubPerMicroAssumption DEF Amounts
<1>2. (r <= start => fee = D) /\ (r > start => D + start - r <= fee)
  BY SMT, <1>1 DEF destinationShortfallUsdtMicros
<1>h. /\ 2 * source <= 2 * (D * SubPerMicro) + SubPerMicro
      /\ 2 * (r * SubPerMicro) <= 2 * usdt + SubPerMicro
  BY HalfMicro
<1> SUFFICES 2 * (due - usdt) <= 2 * (fee * SubPerMicro) + 3 * SubPerMicro
  OBVIOUS
<1> HIDE DEF D, r, fee
<1> DEFINE dS == D * SubPerMicro
           rS == r * SubPerMicro
           stS == start * SubPerMicro
           fS == fee * SubPerMicro
<1>3. dS \in Nat /\ rS \in Nat /\ stS \in Nat /\ fS \in Nat
  BY SMT, <1>1
<1>4. r > start => dS + stS - rS <= fS
  <2>1. r > start => (D + start - r) * SubPerMicro <= fS
    BY SMT, <1>1, <1>2, MultiplesOrdered
  <2>2. (D + start - r) * SubPerMicro = dS + stS - rS
    BY SMT, <1>1
  <2> QED BY <2>1, <2>2
<1>5. r <= start => fS = dS
  BY <1>2
<1>6. /\ 2 * source <= 2 * dS + SubPerMicro /\ 2 * rS <= 2 * usdt + SubPerMicro
      /\ 2 * (due - source) <= 2 * stS + SubPerMicro
  BY <1>h
<1>7. 2 * (due - usdt) <= 2 * fS + 3 * SubPerMicro
  <2> HIDE DEF dS, rS, stS, fS
  <2>1. CASE r > start
    BY SMT, <1>1, <1>3, <1>4, <1>6, <2>1
  <2>2. CASE ~(r > start)
    BY SMT, <1>1, <1>3, <1>5, <1>6, <2>2
  <2> QED BY <2>1, <2>2
<1> QED BY <1>7


\* Nor does it exceed what the user misses, but for the same roundings.
LEMMA FeeWithin ==
    ASSUME NEW source \in Nat, NEW start \in Nat, NEW usdt \in Nat, NEW due \in Int,
           2 * (start * SubPerMicro) <= 2 * (due - source) + SubPerMicro,
           0 <= due - usdt
    PROVE  2 * (destinationShortfallUsdtMicros(toMicrosRounded(source), start,
                    toMicrosRounded(usdt)) * SubPerMicro) <= 2 * (due - usdt) + 3 * SubPerMicro
<1> DEFINE D == toMicrosRounded(source)
           r == toMicrosRounded(usdt)
           fee == destinationShortfallUsdtMicros(D, start, r)
<1>1. D \in Nat /\ r \in Nat /\ fee \in Nat /\ SubPerMicro \in Nat
  BY RoundedIsNat, ShortfallIsNat, SubPerMicroAssumption DEF Amounts
<1>2. fee = 0 \/ fee <= D + start - r
  BY SMT, <1>1 DEF destinationShortfallUsdtMicros
<1>h. /\ 2 * (D * SubPerMicro) <= 2 * source + SubPerMicro
      /\ 2 * usdt <= 2 * (r * SubPerMicro) + SubPerMicro
  BY HalfMicro
<1> SUFFICES 2 * (fee * SubPerMicro) <= 2 * (due - usdt) + 3 * SubPerMicro
  OBVIOUS
<1> HIDE DEF D, r, fee
<1> DEFINE dS == D * SubPerMicro
           rS == r * SubPerMicro
           stS == start * SubPerMicro
           fS == fee * SubPerMicro
<1>3. dS \in Nat /\ rS \in Nat /\ stS \in Nat /\ fS \in Nat
  BY SMT, <1>1
<1>4. fS = 0 \/ fS <= dS + stS - rS
  <2>1. CASE fee = 0
    BY SMT, <1>1, <2>1
  <2>2. CASE fee <= D + start - r
    <3>1. fS <= (D + start - r) * SubPerMicro
      BY SMT, <1>1, <2>2, MultiplesOrdered
    <3>2. (D + start - r) * SubPerMicro = dS + stS - rS
      BY SMT, <1>1
    <3> QED BY <3>1, <3>2
  <2> QED BY <1>2, <2>1, <2>2
<1>5. /\ 2 * dS <= 2 * source + SubPerMicro /\ 2 * usdt <= 2 * rS + SubPerMicro
      /\ 2 * stS <= 2 * (due - source) + SubPerMicro
  BY <1>h
<1>6. 2 * fS <= 2 * (due - usdt) + 3 * SubPerMicro
  <2> HIDE DEF dS, rS, stS, fS
  <2> QED BY SMT, <1>1, <1>3, <1>4, <1>5
<1> QED BY <1>6

\* A top-up of what the legacy wallet misses takes it at most a micro above what
\* the account migrated with.
LEMMA TopUpWithin ==
    ASSUME NEW source \in Nat, NEW current \in Nat
    PROVE  LET short == legacyShortfallUsdtMicros(source, current) * SubPerMicro
           IN  short \in Nat /\ (short = 0 \/ current + short <= source + SubPerMicro)
<1> DEFINE s == toMicrosRounded(source)
           c == toMicrosRounded(current)
           short == legacyShortfallUsdtMicros(source, current)
<1>1. s \in Nat /\ c \in Nat /\ SubPerMicro \in Nat
  BY RoundedIsNat, SubPerMicroAssumption
<1>2. short \in Nat /\ (short = 0 \/ short = s - c)
  BY SMT, <1>1 DEF legacyShortfallUsdtMicros
<1>h. /\ 2 * (s * SubPerMicro) <= 2 * source + SubPerMicro
      /\ 2 * current <= 2 * (c * SubPerMicro) + SubPerMicro
  BY HalfMicro
<1> SUFFICES /\ short * SubPerMicro \in Nat
             /\ short * SubPerMicro = 0 \/ current + short * SubPerMicro <= source + SubPerMicro
  OBVIOUS
<1> HIDE DEF s, c, short
<1> DEFINE sS == s * SubPerMicro
           cS == c * SubPerMicro
           tS == short * SubPerMicro
<1>3. sS \in Nat /\ cS \in Nat /\ tS \in Nat /\ (tS = 0 \/ tS = sS - cS)
  BY SMT, <1>1, <1>2
<1>4. 2 * sS <= 2 * source + SubPerMicro /\ 2 * current <= 2 * cS + SubPerMicro
  BY <1>h
<1>5. tS = 0 \/ current + tS <= source + SubPerMicro
  <2> HIDE DEF sS, cS, tS
  <2> QED BY SMT, <1>1, <1>3, <1>4
<1> QED BY <1>3, <1>5

-----------------------------------------------------------------------------
\* A rollback is one-way.

\* The part of OneWay about a single process.
OwnWay(p, restored) ==
    /\ p.pc = "mark_failed" /\ p.job = "forward" => p.doc.status \notin TERMINAL_STATUSES
    /\ p.pc \in ForwardPcs => p.job = "forward"
    /\ p.pc \in UndoPcs \cup {"record_restore"} => p.job = "rollback"
    /\ p.pc \in UndoPcs \/ p.doc.rollbackPointerRestored => restored

\* A forward process that could still act, with the lock in its hands.
Armed(w) ==
    /\ mig.lockedBy = w /\ proc[w].pc \in Executing /\ proc[w].job = "forward"
    /\ proc[w].doc.status \notin TERMINAL_STATUSES

\* A process at work on a rollback.
Undoing(w) ==
    /\ proc[w].pc \in Executing /\ proc[w].job = "rollback"
    /\ proc[w].doc.status = "rollback_started"

\* OneWay, split into what each process knows and what Begun forbids.
LEMMA OneWaySplit ==
    OneWay <=> /\ \A w \in Workers : OwnWay(proc[w], mig.rollbackPointerRestored)
               /\ Begun => mig.status \in UndoStatuses /\ \A w \in Workers : ~Armed(w)
BY DEF OneWay, OwnWay, Armed, ForwardPcs

\* Begun, split into the marks in the document and the processes at work.
LEMMA BegunSplit ==
    Begun <=> \/ mig.rollbackPointerRestored \/ mig.rollbackTransactionId # NoInvoice
              \/ \E w \in Workers : Undoing(w)
BY DEF Begun, Undoing

\* A step of one process keeps what OneWay says of the others.
LEMMA OthersWay ==
    ASSUME OneWay, NEW w \in Workers, \A v \in Workers \ {w} : proc'[v] = proc[v],
           mig.rollbackPointerRestored => mig'.rollbackPointerRestored,
           mig'.lockedBy = mig.lockedBy
    PROVE  /\ \A v \in Workers \ {w} : OwnWay(proc'[v], mig'.rollbackPointerRestored)
           /\ \A v \in Workers \ {w} : Armed(v)' <=> Armed(v)
           /\ \A v \in Workers \ {w} : Undoing(v)' <=> Undoing(v)
<1>1. \A v \in Workers \ {w} : OwnWay(proc'[v], mig'.rollbackPointerRestored)
  BY OneWaySplit DEF OwnWay
<1>2. ASSUME NEW v \in Workers \ {w} PROVE (Armed(v)' <=> Armed(v)) /\ (Undoing(v)' <=> Undoing(v))
  BY <1>2 DEF Armed, Undoing
<1> QED BY <1>1, <1>2

\* A forward step never takes the migration out of a rollback that has begun.
LEMMA ForwardOneWay ==
    ASSUME TypeOK, OneWay, NEW w \in Workers, Local(w), ForwardEffect(w)
    PROVE  OneWay'
<1>o. /\ OwnWay(proc[w], mig.rollbackPointerRestored)
      /\ Begun => mig.status \in UndoStatuses /\ \A v \in Workers : ~Armed(v)
  BY OneWaySplit
<1>r. /\ mig'.rollbackPointerRestored = mig.rollbackPointerRestored
      /\ mig'.rollbackTransactionId = mig.rollbackTransactionId
  BY DEF ForwardEffect, SameCopy
<1>l. /\ mig'.lockedBy = mig.lockedBy /\ \A v \in Workers \ {w} : proc'[v] = proc[v]
      /\ proc'[w].job = "forward" /\ proc[w].job = "forward" /\ proc[w].pc \in Executing
  BY DEF Local, ForwardEffect
<1>v. /\ \A v \in Workers \ {w} : OwnWay(proc'[v], mig'.rollbackPointerRestored)
      /\ \A v \in Workers \ {w} : Armed(v)' <=> Armed(v)
      /\ \A v \in Workers \ {w} : Undoing(v)' <=> Undoing(v)
  BY <1>r, <1>l, OthersWay
<1>1. OwnWay(proc'[w], mig'.rollbackPointerRestored)
  BY <1>o, <1>r, <1>l DEF OwnWay, ForwardEffect, SameCopy, SameContents, ForwardPcs, UndoPcs,
                             ReversePcs, TopUpPcs
<1>2. ~Undoing(w)'
  BY <1>l DEF Undoing
<1>3. Begun' => Begun
  BY <1>r, <1>v, <1>2, BegunSplit DEF Begun, Undoing
<1>4. ASSUME Begun PROVE mig'.status \in UndoStatuses /\ ~Armed(w)'
  <2>1. SameCopy(w)
    BY <1>4, <1>o DEF ForwardEffect, UndoStatuses, TERMINAL_STATUSES
  <2> QED BY <1>4, <1>o, <1>l, <2>1 DEF SameCopy, Armed
<1>5. \A v \in Workers : OwnWay(proc'[v], mig'.rollbackPointerRestored)
  BY <1>1, <1>v
<1>6. Begun' => mig'.status \in UndoStatuses /\ \A v \in Workers : ~Armed(v)'
  BY <1>3, <1>4, <1>v, <1>o
<1> QED BY <1>5, <1>6 DEF OneWay, OwnWay, Armed, ForwardPcs
\* A rollback step begins the rollback, or carries it on, only in its own statuses.
LEMMA RollbackOneWay ==
    ASSUME TypeOK, OneWay, NEW w \in Workers, Local(w), RollbackEffect(w)
    PROVE  OneWay'
<1>o. /\ OwnWay(proc[w], mig.rollbackPointerRestored)
      /\ Begun => mig.status \in UndoStatuses /\ \A v \in Workers : ~Armed(v)
  BY OneWaySplit
<1>r. mig.rollbackPointerRestored => mig'.rollbackPointerRestored
  BY DEF RollbackEffect, SameCopy
<1>l. /\ mig'.lockedBy = mig.lockedBy /\ \A v \in Workers \ {w} : proc'[v] = proc[v]
      /\ proc'[w].job = "rollback" /\ proc[w].job = "rollback" /\ proc[w].pc \in Executing
  BY DEF Local, RollbackEffect
<1>v. /\ \A v \in Workers \ {w} : OwnWay(proc'[v], mig'.rollbackPointerRestored)
      /\ \A v \in Workers \ {w} : Armed(v)' <=> Armed(v)
      /\ \A v \in Workers \ {w} : Undoing(v)' <=> Undoing(v)
  BY <1>r, <1>l, OthersWay
<1>1. OwnWay(proc'[w], mig'.rollbackPointerRestored)
  BY <1>o, <1>r, <1>l
     DEF OwnWay, RollbackEffect, SameCopy, SameContents, ForwardPcs, UndoPcs, ReversePcs, TopUpPcs
<1>2. ~Armed(w)'
  BY <1>l DEF Armed
<1>3. CASE proc[w].doc.status = "rollback_started"
  <2>1. Begun
    BY <1>3, <1>l DEF Begun
  <2>2. mig'.status \in UndoStatuses
    BY <2>1, <1>o DEF RollbackEffect, SameCopy
  <2> QED BY SMT, <2>1, <2>2, <1>1, <1>2, <1>v, <1>o DEF OneWay, OwnWay, Armed, ForwardPcs
<1>4. CASE proc[w].doc.status # "rollback_started"
  <2>1. SameCopy(w)
    BY <1>4 DEF RollbackEffect
  <2>2. ~Undoing(w)'
    BY <1>4, <2>1 DEF Undoing, SameCopy
  <2>3. Begun' => Begun
    BY <2>1, <2>2, <1>v, BegunSplit DEF Begun, Undoing, SameCopy
  <2> QED BY <2>1, <2>3, <1>1, <1>2, <1>v, <1>o DEF OneWay, OwnWay, Armed, ForwardPcs, SameCopy
<1> QED BY <1>3, <1>4

\* A step that fails changes nothing that OneWay is about.
LEMMA FailOneWay ==
    ASSUME TypeOK, OneWay, NEW w \in Workers, Local(w), FailEffect(w)
    PROVE  OneWay'
<1>o. /\ OwnWay(proc[w], mig.rollbackPointerRestored)
      /\ Begun => mig.status \in UndoStatuses /\ \A v \in Workers : ~Armed(v)
  BY OneWaySplit
<1>l. /\ mig' = mig /\ \A v \in Workers \ {w} : proc'[v] = proc[v]
      /\ proc'[w].job = proc[w].job /\ proc[w].pc \in Executing /\ proc'[w].pc = "mark_failed"
      /\ proc'[w].doc.status = proc[w].doc.status
      /\ proc'[w].doc.rollbackPointerRestored = proc[w].doc.rollbackPointerRestored
  BY DEF Local, FailEffect, SameCopy, SameContents
<1>v. /\ \A v \in Workers \ {w} : OwnWay(proc'[v], mig'.rollbackPointerRestored)
      /\ \A v \in Workers \ {w} : Armed(v)' <=> Armed(v)
      /\ \A v \in Workers \ {w} : Undoing(v)' <=> Undoing(v)
  BY <1>l, OthersWay
<1>1. OwnWay(proc'[w], mig'.rollbackPointerRestored)
  BY <1>o, <1>l DEF OwnWay, FailEffect, ForwardPcs, UndoPcs, ReversePcs, TopUpPcs
<1>2. (Armed(w)' => Armed(w)) /\ (Undoing(w)' => Undoing(w))
  BY <1>l DEF Armed, Undoing
<1>3. Begun' => Begun
  BY <1>l, <1>v, <1>2, BegunSplit DEF Begun, Undoing
<1>4. Begun' => mig'.status \in UndoStatuses /\ \A v \in Workers : ~Armed(v)'
  BY <1>3, <1>l, <1>o, <1>v, <1>2
<1>5. \A v \in Workers : OwnWay(proc'[v], mig'.rollbackPointerRestored)
  BY <1>1, <1>v
<1> QED BY <1>4, <1>5 DEF OneWay, OwnWay, Armed, ForwardPcs

\* OneWay is inductive: a forward process can fail or advance the migration
\* only with a copy that is not terminal, and from the moment a rollback begins
\* it has such a copy only without the lock and against the status.
LEMMA NextOneWay == TypeOK /\ Trail /\ OneWay /\ [Next]_vars => OneWay'
<1> SUFFICES ASSUME TypeOK, Trail, OneWay, [Next]_vars PROVE OneWay'
  OBVIOUS
<1>t. mig \in Documents /\ proc \in [Workers -> Processes]
  BY DEF TypeOK
<1>o. /\ \A v \in Workers : OwnWay(proc[v], mig.rollbackPointerRestored)
      /\ Begun => mig.status \in UndoStatuses /\ \A v \in Workers : ~Armed(v)
  BY OneWaySplit
<1>i. /\ IdleProcess.pc = "idle" /\ "idle" \notin Executing
      /\ \A r : OwnWay(IdleProcess, r)
  BY DEF IdleProcess, UpsertedDocument, Executing, OwnWay, ForwardPcs, UndoPcs, ReversePcs, TopUpPcs
<1>w. ASSUME \A v \in Workers : OwnWay(proc'[v], mig'.rollbackPointerRestored),
             Begun' => mig'.status \in UndoStatuses /\ \A v \in Workers : ~Armed(v)'
      PROVE  OneWay'
  BY <1>w DEF OneWay, OwnWay, Armed, ForwardPcs
<1>1. ASSUME NEW w \in Workers, ForwardStep(w) PROVE OneWay'
  BY <1>1, ForwardLocal, ForwardHasEffect, ForwardOneWay
<1>2. ASSUME NEW w \in Workers, RollbackStep(w) PROVE OneWay'
  BY <1>2, RollbackLocal, RollbackHasEffect, RollbackOneWay
<1>3. ASSUME NEW w \in Workers, StepFails(w) PROVE OneWay'
  BY <1>3, StepFailsLocal, StepFailsEffect, FailOneWay
<1>4. ASSUME NEW w \in Workers, NEW job \in {"forward", "rollback"}, ListMigration(w, job)
      PROVE  OneWay'
  <2>1. /\ mig' = mig /\ \A v \in Workers \ {w} : proc'[v] = proc[v]
        /\ proc'[w].pc = "listed" /\ proc'[w].doc = proc[w].doc
    BY <1>4, <1>t DEF ListMigration, Processes
  <2>2. /\ \A v \in Workers \ {w} : OwnWay(proc'[v], mig'.rollbackPointerRestored)
        /\ \A v \in Workers \ {w} : Armed(v)' <=> Armed(v)
        /\ \A v \in Workers \ {w} : Undoing(v)' <=> Undoing(v)
    BY <2>1, OthersWay
  <2>3. OwnWay(proc'[w], mig'.rollbackPointerRestored) /\ ~Armed(w)' /\ ~Undoing(w)'
    BY <2>1, <1>o DEF OwnWay, Armed, Undoing, Executing, ForwardPcs, UndoPcs, ReversePcs, TopUpPcs
  <2>4. Begun' => Begun
    BY <2>1, <2>2, <2>3, BegunSplit DEF Begun, Undoing
  <2>5. /\ \A v \in Workers : OwnWay(proc'[v], mig'.rollbackPointerRestored)
        /\ Begun' => mig'.status \in UndoStatuses /\ \A v \in Workers : ~Armed(v)'
    BY <2>1, <2>2, <2>3, <2>4, <1>o
  <2> QED BY <2>5, <1>w
\* A process stops, with or without a change of the lock and the status.
<1>5. ASSUME NEW w \in Workers, proc' = [proc EXCEPT ![w] = IdleProcess],
             mig'.lockedBy \in {mig.lockedBy, NoWorker},
             mig'.rollbackPointerRestored = mig.rollbackPointerRestored,
             mig'.rollbackTransactionId = mig.rollbackTransactionId,
             Begun => mig'.status \in UndoStatuses
      PROVE  OneWay'
  <2>1. proc'[w] = IdleProcess /\ \A v \in Workers \ {w} : proc'[v] = proc[v]
    BY <1>5, <1>t
  <2>2. \A v \in Workers : OwnWay(proc'[v], mig'.rollbackPointerRestored)
    BY <1>5, <1>i, <1>o, <2>1
  <2>3. \A v \in Workers : (Armed(v)' => Armed(v)) /\ (Undoing(v)' => Undoing(v))
    BY SMT, <1>5, <1>i, <2>1, WorkersAssumption DEF Armed, Undoing
  <2>4. Begun' => Begun
    BY <1>5, <2>3, BegunSplit DEF Begun, Undoing
  <2>5. Begun' => mig'.status \in UndoStatuses /\ \A v \in Workers : ~Armed(v)'
    BY <1>5, <2>3, <2>4, <1>o
  <2> QED BY <2>2, <2>5, <1>w
<1>6. ASSUME NEW w \in Workers, AcquireMigrationLock(w) PROVE OneWay'
  <2>1. CASE /\ mig' = [mig EXCEPT !.lockedBy = w, !.lockStale = FALSE]
             /\ proc' = [v \in Workers |->
                   IF v = w
                   THEN [proc[v] EXCEPT !.pc = "execute", !.doc = mig', !.seesStale = FALSE]
                   ELSE [proc[v] EXCEPT !.seesStale = FALSE]]
    <3>1. /\ proc'[w].pc = "execute" /\ proc'[w].doc = mig' /\ proc'[w].job = proc[w].job
          /\ \A v \in Workers \ {w} : /\ proc'[v].pc = proc[v].pc /\ proc'[v].doc = proc[v].doc
                                      /\ proc'[v].job = proc[v].job
      BY <2>1, <1>t DEF Processes
    <3>2. /\ mig'.lockedBy = w /\ mig'.status = mig.status
          /\ mig'.rollbackPointerRestored = mig.rollbackPointerRestored
          /\ mig'.rollbackTransactionId = mig.rollbackTransactionId
      BY <2>1, <1>t DEF Documents
    <3>3. \A v \in Workers : OwnWay(proc'[v], mig'.rollbackPointerRestored)
      BY SMT, <3>1, <3>2, <1>o DEF OwnWay, ForwardPcs, UndoPcs, ReversePcs, TopUpPcs
    <3>4. \A v \in Workers \ {w} : ~Armed(v)' /\ (Undoing(v)' <=> Undoing(v))
      BY <3>1, <3>2 DEF Armed, Undoing
    <3>5. Begun' => Begun \/ (mig.status = "rollback_started" /\ proc[w].job = "rollback")
      BY <3>1, <3>2, <3>4, BegunSplit DEF Begun, Undoing
    <3>6. Begun' => mig'.status \in UndoStatuses
      BY <3>2, <3>5, <1>o DEF UndoStatuses
    <3>7. mig'.status \in UndoStatuses => ~Armed(w)'
      BY <3>1 DEF Armed, UndoStatuses, TERMINAL_STATUSES
    <3> QED BY <3>3, <3>4, <3>6, <3>7, <1>w
  <2>2. CASE proc' = [proc EXCEPT ![w] = IdleProcess] /\ mig' = mig
    BY <1>5, <1>o, <2>2
  <2> QED BY <1>6, <2>1, <2>2 DEF AcquireMigrationLock
<1>7. ASSUME NEW w \in Workers, ReleaseMigrationLock(w) \/ Crash(w) PROVE OneWay'
  <2>1. /\ proc' = [proc EXCEPT ![w] = IdleProcess]
        /\ mig'.lockedBy \in {mig.lockedBy, NoWorker} /\ mig'.status = mig.status
        /\ mig'.rollbackPointerRestored = mig.rollbackPointerRestored
        /\ mig'.rollbackTransactionId = mig.rollbackTransactionId
    BY <1>7, <1>t DEF ReleaseMigrationLock, Crash, Documents
  <2> QED BY <1>5, <1>o, <2>1
<1>8. ASSUME NEW w \in Workers, MarkMigrationFailed(w) PROVE OneWay'
  <2>1. /\ proc' = [proc EXCEPT ![w] = IdleProcess] /\ proc[w].pc = "mark_failed"
        /\ mig'.lockedBy \in {mig.lockedBy, NoWorker}
        /\ mig'.rollbackPointerRestored = mig.rollbackPointerRestored
        /\ mig'.rollbackTransactionId = mig.rollbackTransactionId
        /\ mig'.status = mig.status \/ (mig.lockedBy = w /\ proc[w].job = "forward")
               \/ mig'.status = "requires_operator_review"
    <3> DEFINE s == IF proc[w].job = "rollback" THEN "requires_operator_review"
                    ELSE failureStatusForMigration(proc[w].doc.status)
    <3>1. /\ proc' = [proc EXCEPT ![w] = IdleProcess] /\ proc[w].pc = "mark_failed"
          /\ \/ mig' = mig
             \/ /\ mig.lockedBy = w
                /\ mig' = [mig EXCEPT !.status = s, !.lockedBy = NoWorker, !.lockStale = FALSE]
      BY <1>8 DEF MarkMigrationFailed
    <3>2. proc[w].job = "forward" \/ s = "requires_operator_review"
      BY <1>t DEF Processes
    <3> HIDE DEF s
    <3> QED BY <3>1, <3>2, <1>t DEF Documents
  <2>2. mig.lockedBy = w /\ proc[w].job = "forward" => Armed(w)
    BY <2>1, <1>o DEF OwnWay, Armed, Executing, Pcs
  <2>3. Begun => mig'.status \in UndoStatuses
    BY <2>1, <2>2, <1>o DEF UndoStatuses
  <2> QED BY <1>5, <2>1, <2>3
\* The document changes under the processes.
<1>9. ASSUME proc' = proc, mig'.lockedBy = mig.lockedBy,
             mig'.rollbackPointerRestored = mig.rollbackPointerRestored,
             mig'.rollbackTransactionId = mig.rollbackTransactionId,
             Begun => mig'.status \in UndoStatuses
      PROVE  OneWay'
  <2>1. \A v \in Workers : (Armed(v)' <=> Armed(v)) /\ (Undoing(v)' <=> Undoing(v))
    BY <1>9 DEF Armed, Undoing
  <2>2. Begun' => Begun
    BY <1>9, <2>1, BegunSplit DEF Begun, Undoing
  <2> QED BY <1>9, <1>o, <1>w, <2>1, <2>2
<1>10. CASE LockGoesStale \/ RequestRollback \/ RetryFailed
  <2>1. /\ proc' = proc /\ mig'.lockedBy = mig.lockedBy
        /\ mig'.rollbackPointerRestored = mig.rollbackPointerRestored
        /\ mig'.rollbackTransactionId = mig.rollbackTransactionId
    BY ZenonT(60), <1>10, <1>t DEF LockGoesStale, RequestRollback, RetryFailed, Documents
  <2>2. Begun => mig'.status \in UndoStatuses
    BY <1>10, <1>t, <1>o DEF LockGoesStale, RequestRollback, RetryFailed, Documents, UndoStatuses
  <2> QED BY <1>9, <2>1, <2>2
<1>11. CASE \/ UNCHANGED vars \/ RoutePayment \/ MakePayment \/ ReceivePayment
            \/ \E i \in InvoiceIds : InvoiceExpires(i)
  BY <1>11, <1>9, <1>o DEF vars, RoutePayment, MakePayment, ReceivePayment, InvoiceExpires
<1> QED BY <1>1, <1>2, <1>3, <1>4, <1>6, <1>7, <1>8, <1>10, <1>11
        DEF Next, WorkerStep, RunnerStep, Environment

\* OneWay holds always, also when a live process is overtaken.
LEMMA OneWayInvariant == Spec => []OneWay
<1>1. Init => OneWay
  BY SMT DEF Init, OneWay, Begun, IdleProcess, UpsertedDocument, Executing, UndoPcs, ReversePcs,
         TopUpPcs
<1> QED BY <1>1, NextOneWay, TypeCorrect, TrailInvariant, PTL DEF Spec

\* Once a rollback has restored the pointer or sent money back, the migration
\* stays in rollback_started, rolled_back or requires_operator_review: no
\* retry, no forward process that was already running and no failing one
\* (markMigrationFailed is guarded by the lock alone) takes it out again,
\* even when live processes lose their lock.
THEOREM RollbackNeverTurns == Spec => []RollbackIsOneWay
<1>1. OneWay => RollbackIsOneWay
  BY DEF OneWay, Begun, RollbackIsOneWay, UndoStatuses
<1> QED BY <1>1, OneWayInvariant, PTL

-----------------------------------------------------------------------------
\* Under the lock.

\* UpToDate is inductive, given the lock.
LEMMA NextUpToDate ==
    TypeOK /\ Trail /\ OneWay /\ LockInv /\ UpToDate /\ [Next]_vars => UpToDate'
<1> SUFFICES ASSUME TypeOK, Trail, OneWay, LockInv, UpToDate, [Next]_vars PROVE UpToDate'
  OBVIOUS
<1> DEFINE Fresh(p) == /\ SameContents(p.doc, mig)
                       /\ p.doc.status # "failed" =>
                              mig.status \in {p.doc.status, "rollback_started"}
                       /\ p.pc \in ReversePcs => p.doc.rollbackTransactionId = NoInvoice
                       /\ p.pc \in TopUpPcs => p.doc.shortfallTransactionId = NoInvoice
<1>l. StaleMeansDead => \A v \in Workers : proc'[v].pc \in Executing => mig'.lockedBy = v
  BY NextLock DEF LockInv
<1>u. /\ mig.previousDefaultWalletId # "unset" /\ default # "unset"
      /\ \A v \in Workers : proc[v].doc.previousDefaultWalletId # "unset"
      /\ StaleMeansDead => \A v \in Workers : proc[v].pc \in Executing => Fresh(proc[v])
  BY DEF UpToDate, TypeOK, Wallets
<1>g. ASSUME mig'.previousDefaultWalletId # "unset",
             \A v \in Workers : proc'[v].doc.previousDefaultWalletId # "unset",
             StaleMeansDead =>
                \A v \in Workers : proc'[v].pc \in Executing => Fresh(proc[v])'
      PROVE  UpToDate'
  BY <1>g DEF UpToDate
<1>1. ASSUME NEW w \in Workers, ForwardStep(w) \/ RollbackStep(w) \/ StepFails(w)
      PROVE  UpToDate'
  <2>1. Local(w) /\ (ForwardEffect(w) \/ RollbackEffect(w) \/ FailEffect(w))
    BY <1>1, InnerEffect
  <2>2. StaleMeansDead => \A v \in Workers \ {w} : proc'[v].pc \notin Executing
    BY <2>1, <1>l DEF Local
  <2>3. proc[w].pc \in Executing /\ \A v \in Workers \ {w} : proc'[v] = proc[v]
    BY <2>1 DEF Local
  <2>4. SameCopy(w) \/ proc'[w].doc = mig'
    BY <2>1 DEF ForwardEffect, RollbackEffect, FailEffect
  <2>5. ASSUME StaleMeansDead
        PROVE  /\ SameContents(proc'[w].doc, mig')
               /\ proc'[w].doc.status # "failed" =>
                      mig'.status \in {proc'[w].doc.status, "rollback_started"}
    BY ZenonT(60), <2>3, <2>4, <2>5, <1>u DEF SameCopy, SameContents
  <2>6. ASSUME StaleMeansDead
        PROVE  /\ proc'[w].pc \in ReversePcs => proc'[w].doc.rollbackTransactionId = NoInvoice
               /\ proc'[w].pc \in TopUpPcs => proc'[w].doc.shortfallTransactionId = NoInvoice
    <3>1. CASE ForwardEffect(w) \/ FailEffect(w)
      BY <3>1 DEF ForwardEffect, FailEffect, ForwardPcs, ReversePcs, TopUpPcs
    <3>2. CASE RollbackEffect(w)
      BY ZenonT(60), <3>2, <2>3, <2>6, <1>u DEF RollbackEffect, SameCopy, SameContents, ReversePcs, TopUpPcs
    <3> QED BY <2>1, <3>1, <3>2
  <2>7. mig'.previousDefaultWalletId # "unset" /\ proc'[w].doc.previousDefaultWalletId # "unset"
    BY <2>1, <1>u DEF ForwardEffect, RollbackEffect, FailEffect, SameCopy
  <2>8. \A v \in Workers : proc'[v].doc.previousDefaultWalletId # "unset"
    BY <2>3, <2>7, <1>u
  <2>9. StaleMeansDead => \A v \in Workers : proc'[v].pc \in Executing => Fresh(proc[v])'
    BY <2>2, <2>5, <2>6
  <2> QED BY <2>7, <2>8, <2>9, <1>g
<1>2. CASE \/ \E w \in Workers : RunnerStep(w) \/ Crash(w)
           \/ Environment \/ UNCHANGED vars
  <2>1. /\ SameContents(mig', mig)
        /\ mig'.previousDefaultWalletId = mig.previousDefaultWalletId
        /\ \/ mig'.status = mig.status
           \/ mig'.status = "rollback_started" /\ proc' = proc
           \/ mig.status = "failed" /\ proc' = proc
           \/ \E w \in Workers : /\ mig.lockedBy = w
                                  /\ proc' = [proc EXCEPT ![w] = IdleProcess]
    BY <1>2, OuterContents
  <2>2. \A v \in Workers : \/ proc'[v].pc = "execute" /\ proc'[v].doc = mig'
                           \/ /\ proc'[v].doc = proc[v].doc
                              /\ proc'[v].pc = proc[v].pc \/ proc'[v].pc \notin Executing
                           \/ proc'[v] = IdleProcess
    BY <1>2, OuterProcesses
  <2>3. /\ IdleProcess.pc \notin Executing /\ IdleProcess.doc.previousDefaultWalletId # "unset"
        /\ "execute" \notin ReversePcs \cup TopUpPcs
    BY DEF IdleProcess, UpsertedDocument, Executing, ReversePcs, TopUpPcs
  <2>4. \A v \in Workers : proc'[v].doc.previousDefaultWalletId # "unset"
    BY <2>1, <2>2, <2>3, <1>u
  <2>5. ASSUME StaleMeansDead, NEW v \in Workers, proc'[v].pc \in Executing
        PROVE  Fresh(proc[v])'
    <3>1. CASE proc'[v].pc = "execute" /\ proc'[v].doc = mig'
      BY <3>1, <2>3 DEF SameContents
    <3>2. CASE proc'[v].doc = proc[v].doc /\ proc'[v].pc = proc[v].pc
      <4>1. Fresh(proc[v]) /\ mig.lockedBy = v
        BY <2>5, <3>2, <1>u DEF LockInv
      <4>2. SameContents(proc'[v].doc, mig')
        BY <4>1, <3>2, <2>1 DEF SameContents
      <4>3. proc'[v] # IdleProcess
        BY <2>3, <2>5
      <4>4. \/ mig'.status = mig.status \/ mig'.status = "rollback_started"
            \/ mig.status = "failed"
        BY <4>1, <4>3, <2>1 DEF TypeOK
      <4>5. proc'[v].doc.status # "failed" =>
                mig'.status \in {proc'[v].doc.status, "rollback_started"}
        BY <4>1, <4>4, <3>2
      <4> QED BY <4>1, <4>2, <4>5, <3>2
    <3> QED BY <2>2, <2>3, <2>5, <3>1, <3>2
  <2> HIDE DEF Fresh
  <2> QED BY <2>1, <2>4, <2>5, <1>u, <1>g
<1> QED BY <1>1, <1>2 DEF Next, WorkerStep

\* The whole inductive invariant of the migration holds always: the lock, the trail
\* of payments, the one-way rollback and the copies of runWithMigrationLock.
THEOREM IInvInvariant == Spec => []IInv
<1>1. Init => LockInv /\ OneWay /\ UpToDate
  BY SMT DEF Init, LockInv, UpToDate, OneWay, Begun, IdleProcess, UpsertedDocument, Executing,
         UndoPcs, ReversePcs, TopUpPcs
<1>2. Init => IInv
  BY <1>1, InitType, InitTrail DEF IInv
<1>3. IInv /\ [Next]_vars => IInv'
  BY NextType, NextLock, NextTrail, NextOneWay, NextUpToDate DEF IInv
<1> QED BY <1>2, <1>3, PTL DEF Spec

-----------------------------------------------------------------------------
\* The inductive invariants about the payments.

\* A forward payment or record happens before the rollback begins to undo,
\* a backward one after.
LEMMA Season ==
    ASSUME StaleMeansDead, IInv, NEW w \in Workers, proc[w].pc \in Executing
    PROVE  /\ proc[w].pc \in ForwardPcs => ~mig.rollbackPointerRestored
           /\ proc[w].pc \in UndoPcs => mig.rollbackPointerRestored
<1>1. ASSUME proc[w].pc \in ForwardPcs PROVE ~mig.rollbackPointerRestored
  <2>1. mig.lockedBy = w /\ proc[w].job = "forward"
    BY <1>1 DEF IInv, LockInv, OneWay, ForwardPcs
  <2>2. proc[w].doc.status \notin TERMINAL_STATUSES
    BY <1>1 DEF IInv, Trail, ProcOK, ForwardPcs, TERMINAL_STATUSES
  <2>3. ~Begun
    BY <2>1, <2>2 DEF IInv, OneWay
  <2> QED BY <2>3 DEF Begun
<1>2. ASSUME proc[w].pc \in UndoPcs PROVE mig.rollbackPointerRestored
  BY <1>2 DEF IInv, OneWay
<1> QED BY <1>1, <1>2

\* AmountsInv is inductive.
LEMMA NextAmounts == IInv /\ AmountsInv /\ [Next]_vars => AmountsInv'
<1> SUFFICES ASSUME IInv, AmountsInv, [Next]_vars, StaleMeansDead PROVE AmountsInv'
  BY DEF AmountsInv
<1>t. TypeOK /\ TypeOK' /\ Trail /\ OneWay /\ UpToDate
  BY NextType DEF IInv
<1>a. AmountsOK(mig) /\ \A v \in Workers : AmountsOK(proc[v].doc)
  BY DEF AmountsInv
<1>1. ASSUME NEW w \in Workers, ForwardStep(w) \/ RollbackStep(w) \/ StepFails(w)
      PROVE  AmountsInv'
  <2>1. /\ Local(w) /\ BookStep(w) /\ Deed(w)
        /\ ForwardEffect(w) \/ RollbackEffect(w) \/ FailEffect(w)
    BY <1>1, <1>t, InnerEffect, InnerDeed
  <2>2. SameContents(proc[w].doc, mig)
    BY <2>1, <1>t DEF Local, UpToDate
  <2>3. AmountsOK(mig')
    BY <2>1, <2>2, <1>t, <1>a, MoveRecorded, DeedAmounts
  <2>4. AmountsOK(proc'[w].doc)
    <3>1. CASE proc'[w].doc = mig'
      BY <2>3, <3>1
    <3>2. CASE SameCopy(w)
      BY <3>2, <1>a, AmountsKept DEF SameCopy
    <3> QED BY <2>1, <3>1, <3>2 DEF ForwardEffect, RollbackEffect, FailEffect
  <2>5. \A v \in Workers \ {w} : proc'[v] = proc[v]
    BY <2>1 DEF Local
  <2>6. \A v \in Workers : AmountsOK(proc'[v].doc)
    BY <2>4, <2>5, <1>a
  <2> QED BY <2>3, <2>6 DEF AmountsInv
<1>2. CASE \/ \E w \in Workers : RunnerStep(w) \/ Crash(w)
           \/ Environment \/ UNCHANGED vars
  <2>1. /\ SameContents(mig', mig)
        /\ \/ mig'.status = mig.status
           \/ mig'.status \in {"rollback_started", "pointer_flipped", "failed",
                               "requires_operator_review"}
    BY <1>2, <1>t, OuterContents
  <2>2. AmountsOK(mig')
    BY <2>1, <1>a, AmountsKept
  <2>3. AmountsOK(IdleProcess.doc)
    BY DEF IdleProcess, UpsertedDocument, AmountsOK, BeforeReading, FeeStatuses
  <2>4. ASSUME NEW v \in Workers PROVE AmountsOK(proc'[v].doc)
    <3>1. proc'[v].doc = mig' \/ proc'[v].doc = proc[v].doc \/ proc'[v] = IdleProcess
      BY <1>2, <1>t, OuterProcesses
    <3> QED BY <3>1, <2>2, <2>3, <1>a
  <2> QED BY <2>2, <2>4 DEF AmountsInv
<1> QED BY <1>1, <1>2 DEF Next, WorkerStep

\* A payment of the move is the first: the wallet holds exactly the recorded
\* balance, and not nothing.
LEMMA FirstMove ==
    ASSUME StaleMeansDead, "legacy" \notin DepositWallets, IInv, AmountsInv, MoveInv,
           NEW w \in Workers, proc[w].pc \in Executing, MovesBalance(w)
    PROVE  /\ mig.sourceBalance \in Nat \ {0} /\ bal["legacy"] = mig.sourceBalance
           /\ ~mig.rollbackPointerRestored /\ mig' = mig
           /\ paidFor("move") = {}
           /\ (paidFor("move"))' = {proc[w].doc.balanceMoveInvoice}
           /\ \A k \in Purposes \ {"move"} : (paidFor(k))' = paidFor(k)
<1> DEFINE source == mig.sourceBalance
           i == proc[w].doc.balanceMoveInvoice
<1>t. TypeOK /\ Trail /\ UpToDate /\ bal["legacy"] \in Nat /\ "move" \in Purposes
  BY DEF IInv, TypeOK, Wallets, Purposes
<1>u. SameContents(proc[w].doc, mig)
  BY <1>t DEF UpToDate
<1>1. /\ proc[w].pc = "pay_move" /\ mig' = mig /\ Paid(i)
      /\ i \in Issued(invoices, "move") /\ bal["legacy"] >= source
  BY <1>t, <1>u, PayingIssued DEF MovesBalance, SameContents
<1>2. ~mig.rollbackPointerRestored
  BY <1>1, Season DEF ForwardPcs
<1>3. source \in Nat \ {0}
  <2>1. proc[w].doc.status = "invoice_created" /\ AmountsOK(proc[w].doc)
    BY <1>1, <1>t DEF Trail, ProcOK, AmountsInv
  <2>2. source # Undefined /\ toMicrosRounded(source) # 0 /\ source \in Amounts
    BY SMT, <2>1, <1>t, <1>u DEF AmountsOK, SameContents, TypeOK, Documents
  <2>3. toMicrosRounded(0) = 0
    BY SMT, SubPerMicroAssumption DEF toMicrosRounded
  <2> QED BY <2>2, <2>3 DEF Amounts
<1>4. bal["legacy"] = source /\ paidFor("move") = {}
  BY SMT, <1>1, <1>2, <1>3, <1>t DEF MoveInv, Undefined
<1> QED BY <1>1, <1>2, <1>3, <1>4, <1>t, PaidAdds

\* MoveInv is inductive.
LEMMA NextMove == IInv /\ AmountsInv /\ MoveInv /\ [Next]_vars => MoveInv'
<1> SUFFICES ASSUME IInv, AmountsInv, MoveInv, [Next]_vars,
                    StaleMeansDead, "legacy" \notin DepositWallets
             PROVE  MoveInv'
  BY DEF MoveInv
<1>t. TypeOK /\ TypeOK' /\ Trail /\ OneWay /\ UpToDate
  BY NextType DEF IInv
<1>b. /\ bal \in [Wallets -> Nat] /\ bal' \in [Wallets -> Nat]
      /\ bal["legacy"] \in Nat /\ bal'["legacy"] \in Nat
  BY <1>t DEF TypeOK, Wallets
<1>m. /\ ~mig.rollbackPointerRestored =>
            /\ mig.sourceBalance # Undefined => bal["legacy"] <= mig.sourceBalance
            /\ paidFor("move") # {} => bal["legacy"] = 0
      /\ \A i, j \in paidFor("move") : i = j
  BY DEF MoveInv
<1>g. ASSUME mig.rollbackPointerRestored => mig'.rollbackPointerRestored,
             mig'.sourceBalance \in {mig.sourceBalance, bal["legacy"]},
             bal'["legacy"] <= bal["legacy"] \/ mig'.rollbackPointerRestored,
             (paidFor("move"))' = paidFor("move")
      PROVE  MoveInv'
  <2>1. mig.sourceBalance \in Amounts /\ mig'.sourceBalance \in Amounts
    BY <1>t DEF TypeOK, Documents
  <2> QED BY SMT, <1>g, <1>m, <1>b, <2>1 DEF MoveInv, Amounts, Undefined
<1>1. ASSUME NEW w \in Workers, ForwardStep(w) \/ RollbackStep(w) \/ StepFails(w)
      PROVE  MoveInv'
  <2>1. Local(w) /\ BookStep(w) /\ Deed(w)
    BY <1>1, <1>t, InnerEffect, InnerDeed
  <2>2. /\ SameContents(proc[w].doc, mig) /\ proc[w].pc \in Executing
        /\ mig.rollbackPointerRestored => mig'.rollbackPointerRestored
    BY <2>1, <1>t, RestoredStays DEF Local, UpToDate
  <2>3. CASE Rests(w) \/ ReadsBalance(w) \/ ReadsFee(w)
    <3>1. (paidFor("move"))' = paidFor("move")
      BY <2>3, QuietFor, SameGrows DEF Rests, ReadsBalance, ReadsFee, Purposes
    <3> QED BY SMT, <2>2, <2>3, <3>1, <1>b, <1>g DEF Rests, ReadsBalance, ReadsFee, SameAmounts
  <2>4. CASE MovesBalance(w)
    <3> DEFINE source == mig.sourceBalance
               i == proc[w].doc.balanceMoveInvoice
    <3>1. /\ source \in Nat \ {0} /\ bal["legacy"] = source /\ mig' = mig
          /\ (paidFor("move"))' = {i}
      BY <2>2, <2>4, FirstMove
    <3>2. bal'["legacy"] = 0
      <4>1. bal'["legacy"] = bal["legacy"] - source
        BY <2>2, <2>4, <1>b DEF MovesBalance, SameContents, Wallets
      <4> QED BY SMT, <3>1, <4>1
    <3> QED BY SMT, <3>1, <3>2 DEF MoveInv
  <2>5. CASE Reimburses(w)
    <3>1. (paidFor("move"))' = paidFor("move")
      BY <2>5, <1>t, PayingIssued, PaidAdds DEF Reimburses, Purposes
    <3>2. bal'["legacy"] = bal["legacy"] /\ mig' = mig
      BY <2>5, <1>b DEF Reimburses, Wallets
    <3> QED BY SMT, <2>2, <3>1, <3>2, <1>b, <1>g
  <2>6. CASE SendsBack(w) \/ TopsUp(w)
    <3>1. (paidFor("move"))' = paidFor("move")
      BY <2>6, <1>t, PayingIssued, PaidAdds DEF SendsBack, TopsUp, Purposes
    <3>2. mig' = mig /\ mig.rollbackPointerRestored
      BY <2>2, <2>6, Season DEF SendsBack, TopsUp, UndoPcs, ReversePcs, TopUpPcs
    <3> QED BY <3>1, <3>2, <1>g
  <2> QED BY <2>1, <2>3, <2>4, <2>5, <2>6 DEF Deed
<1>2. CASE \/ \E w \in Workers : RunnerStep(w) \/ Crash(w)
           \/ Environment \/ UNCHANGED vars
  <2>1. Bookless /\ SameContents(mig', mig)
    BY <1>2, <1>t, OuterBookless, OuterContents
  <2>2. (paidFor("move"))' = paidFor("move")
    BY <2>1, QuietFor DEF Bookless, Purposes
  <2>3. bal'["legacy"] <= bal["legacy"]
    <3>1. CASE bal' = bal
      BY SMT, <3>1, <1>b
    <3>2. ASSUME NEW x \in Wallets, NEW a \in Nat, bal' = [bal EXCEPT ![x] = @ - a]
          PROVE  bal'["legacy"] <= bal["legacy"]
      BY SMT, <3>2, <1>b DEF Wallets
    <3>3. ASSUME NEW x \in DepositWallets, NEW a \in Nat, bal' = [bal EXCEPT ![x] = @ + a]
          PROVE  bal'["legacy"] <= bal["legacy"]
      BY SMT, <3>3, <1>b DEF Wallets
    <3> QED BY <1>2, <1>t, <3>1, <3>2, <3>3, OuterMoney
  <2> QED BY <2>1, <2>2, <2>3, <1>g DEF SameContents, Bookless
<1> QED BY <1>1, <1>2 DEF Next, WorkerStep

\* FeeInv is inductive.
LEMMA NextFee == IInv /\ FeeInv /\ [Next]_vars => FeeInv'
<1> SUFFICES ASSUME IInv, FeeInv, [Next]_vars, Bounds["expire"] = 0 PROVE FeeInv'
  BY DEF FeeInv
<1>t. TypeOK /\ TypeOK' /\ Trail /\ OneWay /\ UpToDate
  BY NextType DEF IInv
<1>e. left'["expire"] = 0 /\ \A i \in InvoiceIds : ~invoices'[i].expired
  BY <1>t, NoneExpires DEF FeeInv
<1> DEFINE Sent == {"balance_move_sending", "balance_move_sent", "balance_move_verified"}
<1>f. /\ \A i \in InvoiceIds : ~invoices[i].expired
      /\ \A v \in Workers : proc[v].doc.feeInvoice \in {NoInvoice, mig.feeInvoice}
      /\ mig.feeInvoice # NoInvoice => forwardMovedFunds(mig) /\ mig.status \notin Sent
      /\ paidFor("fee") \subseteq {mig.feeInvoice}
  BY DEF FeeInv
<1>n. NoInvoice \notin paidFor("fee") /\ \A k \in Purposes : NoInvoice \notin Issued(invoices, k)
  BY InvoiceIdsAssumption DEF paidFor, Issued, NoInvoice
<1>g. ASSUME \A v \in Workers : proc'[v].doc.feeInvoice \in {NoInvoice, mig'.feeInvoice},
             mig'.feeInvoice # NoInvoice => forwardMovedFunds(mig') /\ mig'.status \notin Sent,
             (paidFor("fee"))' \subseteq {mig'.feeInvoice}
      PROVE  FeeInv'
  BY <1>e, <1>g DEF FeeInv, forwardMovedFunds
<1>1. ASSUME NEW w \in Workers, ForwardStep(w) \/ RollbackStep(w) \/ StepFails(w)
      PROVE  FeeInv'
  <2>1. /\ Local(w) /\ BookStep(w) /\ Deed(w) /\ InvoicesKept(w)
        /\ ForwardEffect(w) \/ RollbackEffect(w) \/ FailEffect(w)
    BY <1>1, <1>t, InnerEffect, InnerDeed, InnerInvoices
  <2>2. \A v \in Workers \ {w} : proc'[v] = proc[v]
    BY <2>1 DEF Local
  <2>3. SameCopy(w) \/ proc'[w].doc = mig'
    BY <2>1 DEF ForwardEffect, RollbackEffect, FailEffect
  <2>4. forwardMovedFunds(mig) => forwardMovedFunds(mig')
    <3>1. \/ mig'.balanceMoveTransactionId = mig.balanceMoveTransactionId
          \/ mig.status = "invoice_created"
      BY <2>1, <1>t, MoveRecorded
    <3> QED BY <3>1, <1>t DEF forwardMovedFunds, Trail, DocOK, BeforeMove
  <2>5. CASE mig'.feeInvoice = mig.feeInvoice
    <3>1. \A v \in Workers : proc'[v].doc.feeInvoice \in {NoInvoice, mig'.feeInvoice}
      BY <2>2, <2>3, <2>5, <1>f DEF SameCopy, SameContents
    <3>2. mig'.feeInvoice # NoInvoice => mig'.status \notin Sent
      <4>1. mig.feeInvoice # NoInvoice => mig.status \notin Sent \cup {"invoice_created"}
        BY <1>f, <1>t DEF Trail, DocOK, BeforeMove, forwardMovedFunds
      <4> QED BY <2>1, <2>5, <4>1
              DEF Deed, Rests, Advances, ReadsBalance, ReadsFee, MovesBalance, Reimburses,
                  SendsBack, TopsUp
    <3>3. (paidFor("fee"))' \subseteq {mig'.feeInvoice}
      <4>1. CASE Rests(w) \/ ReadsBalance(w) \/ ReadsFee(w)
        BY <4>1, <2>5, <1>f, QuietFor, SameGrows DEF Rests, ReadsBalance, ReadsFee, Purposes
      <4>2. CASE Reimburses(w)
        <5>1. /\ proc[w].doc.feeInvoice \in Issued(invoices, "fee")
              /\ Paid(proc[w].doc.feeInvoice) /\ "fee" \in Purposes
          BY <4>2, <1>t, PayingIssued DEF Reimburses, Purposes
        <5>2. (paidFor("fee"))' = paidFor("fee") \cup {proc[w].doc.feeInvoice}
          BY <5>1, <1>t, PaidAdds
        <5> QED BY <5>1, <5>2, <2>5, <1>f, <1>n
      <4>3. CASE MovesBalance(w) \/ SendsBack(w) \/ TopsUp(w)
        <5>1. (paidFor("fee"))' = paidFor("fee")
          BY <4>3, <1>t, PayingIssued, PaidAdds DEF MovesBalance, SendsBack, TopsUp, Purposes
        <5> QED BY <5>1, <2>5, <1>f
      <4> QED BY <2>1, <4>1, <4>2, <4>3 DEF Deed
    <3> QED BY <3>1, <3>2, <3>3, <2>4, <2>5, <1>f, <1>g
  <2>6. CASE /\ mig'.feeInvoice # mig.feeInvoice
             /\ mig.status = "balance_move_verified"
             /\ mig'.status = "fee_reimbursement_invoice_created"
    <3>1. mig.feeInvoice = NoInvoice /\ forwardMovedFunds(mig) /\ paidFor("fee") = {}
      BY <2>6, <1>f, <1>n, <1>t DEF Trail, DocOK, AfterMove, BeforeFee, forwardMovedFunds
    <3>2. proc'[w].doc = mig' /\ mig' # mig
      BY <2>3, <2>6 DEF SameCopy
    <3>3. (paidFor("fee"))' = {}
      BY <2>1, <2>6, <3>1, <3>2, QuietFor, SameGrows
         DEF Deed, Rests, ReadsBalance, ReadsFee, MovesBalance, Reimburses, SendsBack, TopsUp,
             Purposes
    <3>4. \A v \in Workers : proc'[v].doc.feeInvoice \in {NoInvoice, mig'.feeInvoice}
      BY <2>2, <3>1, <3>2, <1>f
    <3> QED BY <3>1, <3>3, <3>4, <2>4, <2>6, <1>g
  <2> QED BY <2>1, <2>5, <2>6, <1>f DEF InvoicesKept, Expired
<1>2. CASE \/ \E w \in Workers : RunnerStep(w) \/ Crash(w)
           \/ Environment \/ UNCHANGED vars
  <2>1. /\ Bookless /\ SameContents(mig', mig)
        /\ \/ mig'.status = mig.status
           \/ mig'.status \in {"rollback_started", "pointer_flipped", "failed",
                               "requires_operator_review"}
    BY <1>2, <1>t, OuterBookless, OuterContents
  <2>2. (paidFor("fee"))' = paidFor("fee")
    BY <2>1, QuietFor DEF Bookless, Purposes
  <2>3. ASSUME NEW v \in Workers PROVE proc'[v].doc.feeInvoice \in {NoInvoice, mig'.feeInvoice}
    <3>1. proc'[v].doc = mig' \/ proc'[v].doc = proc[v].doc \/ proc'[v] = IdleProcess
      BY <1>2, <1>t, OuterProcesses
    <3> QED BY SMT, <3>1, <2>1, <1>f DEF SameContents, IdleProcess, UpsertedDocument
  <2> QED BY <2>1, <2>2, <2>3, <1>f, <1>g DEF SameContents, forwardMovedFunds
<1> QED BY <1>1, <1>2 DEF Next, WorkerStep

\* UndoInv is inductive.
LEMMA NextUndo == IInv /\ FeeInv /\ UndoInv /\ [Next]_vars => UndoInv'
<1> SUFFICES ASSUME IInv, FeeInv, UndoInv, [Next]_vars, StaleMeansDead, Bounds["expire"] = 0
             PROVE  UndoInv'
  BY DEF UndoInv
<1>t. TypeOK /\ Trail /\ OneWay /\ UpToDate
  BY DEF IInv
<1>u. /\ \A i \in InvoiceIds : ~invoices[i].expired
      /\ paidFor("reverse") \subseteq {mig.rollbackInvoice}
      /\ paidFor("shortfall") \subseteq {mig.shortfallInvoice}
  BY DEF UndoInv, FeeInv
<1>n. NoInvoice \notin paidFor("reverse") /\ NoInvoice \notin paidFor("shortfall")
  BY InvoiceIdsAssumption DEF paidFor, NoInvoice
<1>p. {"move", "fee", "reverse", "shortfall"} \subseteq Purposes
  BY DEF Purposes
<1>1. ASSUME NEW w \in Workers, ForwardStep(w) \/ RollbackStep(w) \/ StepFails(w)
      PROVE  UndoInv'
  <2>1. Local(w) /\ Deed(w) /\ InvoicesKept(w)
    BY <1>1, <1>t, InnerEffect, InnerDeed, InnerInvoices
  <2>2. SameContents(proc[w].doc, mig)
    BY <2>1, <1>t DEF Local, UpToDate
  <2>3. /\ mig'.rollbackInvoice = mig.rollbackInvoice \/ paidFor("reverse") = {}
        /\ mig'.shortfallInvoice = mig.shortfallInvoice \/ paidFor("shortfall") = {}
    BY SMT, <2>1, <2>2, <1>u, <1>n DEF InvoicesKept, Expired, SameContents
  <2>4. CASE Rests(w) \/ ReadsBalance(w) \/ ReadsFee(w)
    <3>1. (paidFor("reverse"))' = paidFor("reverse") /\ (paidFor("shortfall"))' = paidFor("shortfall")
      BY <2>4, <1>p, QuietFor, SameGrows DEF Rests, ReadsBalance, ReadsFee
    <3> QED BY <2>3, <3>1, <1>u DEF UndoInv
  <2>5. CASE MovesBalance(w) \/ Reimburses(w)
    <3>1. /\ mig' = mig /\ (paidFor("reverse"))' = paidFor("reverse")
          /\ (paidFor("shortfall"))' = paidFor("shortfall")
      BY SMT, <2>5, <1>p, <1>t, PayingIssued, PaidAdds DEF MovesBalance, Reimburses
    <3> QED BY <3>1, <1>u DEF UndoInv
  <2>6. CASE SendsBack(w)
    <3> DEFINE i == proc[w].doc.rollbackInvoice
    <3>1. mig' = mig /\ Paid(i) /\ i \in Issued(invoices, "reverse") /\ i = mig.rollbackInvoice
      BY <2>2, <2>6, <1>t, PayingIssued DEF SendsBack, SameContents
    <3>2. /\ (paidFor("reverse"))' = paidFor("reverse") \cup {i}
          /\ (paidFor("shortfall"))' = paidFor("shortfall")
      BY <3>1, <1>p, <1>t, PaidAdds
    <3> QED BY <3>1, <3>2, <1>u DEF UndoInv
  <2>7. CASE TopsUp(w)
    <3> DEFINE i == proc[w].doc.shortfallInvoice
    <3>1. mig' = mig /\ Paid(i) /\ i \in Issued(invoices, "shortfall") /\ i = mig.shortfallInvoice
      BY <2>2, <2>7, <1>t, PayingIssued DEF TopsUp, SameContents
    <3>2. /\ (paidFor("shortfall"))' = paidFor("shortfall") \cup {i}
          /\ (paidFor("reverse"))' = paidFor("reverse")
      BY <3>1, <1>p, <1>t, PaidAdds
    <3> QED BY <3>1, <3>2, <1>u DEF UndoInv
  <2> QED BY <2>1, <2>4, <2>5, <2>6, <2>7 DEF Deed
<1>2. CASE \/ \E w \in Workers : RunnerStep(w) \/ Crash(w)
           \/ Environment \/ UNCHANGED vars
  <2>1. Bookless /\ SameContents(mig', mig)
    BY <1>2, <1>t, OuterBookless, OuterContents
  <2>2. (paidFor("reverse"))' = paidFor("reverse") /\ (paidFor("shortfall"))' = paidFor("shortfall")
    BY <2>1, <1>p, QuietFor DEF Bookless
  <2> QED BY <2>1, <2>2, <1>u DEF UndoInv, SameContents
<1> QED BY <1>1, <1>2 DEF Next, WorkerStep

=============================================================================
