------------------------- MODULE MigrationLedgerProofs -------------------------
(***************************************************************************)
(* From the effects and deeds of the steps to the theorems: recorded ids   *)
(* stay, and the migration implements MigrationLedger. On top of them, what*)
(* becomes of the money: each payment is made once, the default follows the*)
(* cash, the user is made whole whether the migration completes or is      *)
(* rolled back, and the treasury pays for no more than the tolerance and   *)
(* the roundings.                                                          *)
(***************************************************************************)
EXTENDS CashWalletMigrationProofs, FiniteSetTheorems

\* A leaf goes to Zenon; the leaves that need arithmetic, records or updated
\* functions name SMT.
USE Zenon

-----------------------------------------------------------------------------
\* The recorded ids.

\* A transaction id, once recorded, stays: a move is recorded only from
\* invoice_created and a fee only from fee_reimbursement_invoice_created, where
\* there is none yet and to which no retry returns; the rollback records only
\* what its copy lacks, and under the lock its copy is up to date.
THEOREM RecordsStay == ASSUME StaleMeansDead PROVE Spec => RecordedIdsStay
<1> DEFINE Stay == \A kind \in Purposes : transactionOf(mig, kind) # NoInvoice =>
                       transactionOf(mig', kind) = transactionOf(mig, kind)
<1>1. IInv /\ [Next]_vars => [Stay]_vars
  <2> SUFFICES ASSUME IInv, [Next]_vars PROVE Stay
    OBVIOUS
  <2>1. CASE Bookless
    BY <2>1 DEF Bookless, SameRecords
  <2>2. ASSUME NEW w \in Workers, Local(w), BookStep(w) PROVE Stay
    <3>1. ASSUME NEW kind \in Purposes, Records(w, kind) PROVE transactionOf(mig, kind) = NoInvoice
      <4>1. proc[w].pc \in Executing /\ mig.status = proc[w].doc.status
        BY <2>2, <3>1 DEF Local, Records
      <4>2. CASE kind = "move"
        BY <4>1, <4>2, <3>1 DEF Records, RecordPc, IInv, Trail, ProcOK, DocOK, BeforeMove,
                                transactionOf
      <4>3. CASE kind = "fee"
        BY <4>1, <4>3, <3>1 DEF Records, RecordPc, IInv, Trail, ProcOK, DocOK, BeforeFee,
                                transactionOf
      <4>4. CASE kind \in {"reverse", "shortfall"}
        BY SMT, <4>1, <4>4, <3>1 DEF Records, RecordPc, IInv, UpToDate, SameContents, ReversePcs,
                                TopUpPcs, transactionOf
      <4> QED BY <4>2, <4>3, <4>4 DEF Purposes
    <3>2. CASE \E kind \in Purposes : Records(w, kind)
      BY <3>1, <3>2 DEF Records
    <3>3. CASE (\E kind \in Purposes : Pays(w, kind)) \/ Restores(w) \/ Bookless
      BY <3>3 DEF Pays, Restores, Bookless, SameRecords
    <3> QED BY <2>2, <3>2, <3>3 DEF BookStep
  <2> QED BY <2>1, <2>2, InnerEffect, OuterBookless DEF IInv, Next, WorkerStep
<1> QED BY <1>1, IInvInvariant, PTL DEF Spec, RecordedIdsStay

-----------------------------------------------------------------------------
\* Refinement.

\* A step without payments leaves the kinds paid as they are.
LEMMA QuietKinds ==
    ASSUME Growth(invoices, invoices'), Quiet(invoices, invoices')
    PROVE  paidKinds' = paidKinds
<1>1. \A kind \in Purposes : (paidFor(kind))' = paidFor(kind)
  BY DEF Growth, Quiet, paidFor, Purposes
<1> QED BY <1>1 DEF paidKinds

\* The migration implements MigrationLedger, as long as only the lock of a dead
\* process goes stale: whatever crashes, expires, fails, is retried or rolled
\* back, its payments and their records happen in the ledger's order, and from
\* the moment the pointer is restored none of them goes forward.
THEOREM MigrationImplementsLedger == ASSUME StaleMeansDead PROVE Spec => ImplementsLedger
<1>1. Init => Ledger!LedgerInit
  BY SMT DEF Init, Ledger!LedgerInit, UpsertedDocument, paidKinds, recordedKinds, paidFor,
         transactionOf, Purposes
<1>2. IInv /\ [Next]_vars => [Ledger!LedgerNext]_(Ledger!ledgerVars)
  <2> SUFFICES ASSUME IInv, [Next]_vars
               PROVE  Ledger!LedgerNext \/ UNCHANGED Ledger!ledgerVars
    OBVIOUS
  <2>z. NoInvoice \notin InvoiceIds
    BY InvoiceIdsAssumption DEF NoInvoice
  <2>1. CASE Bookless
    <3>1. paidKinds' = paidKinds
      BY <2>1, QuietKinds DEF Bookless
    <3>2. recordedKinds' = recordedKinds
      BY <2>1 DEF Bookless, SameRecords, recordedKinds
    <3> QED BY <2>1, <3>1, <3>2 DEF Bookless, SameRecords, Ledger!ledgerVars
  <2>2. ASSUME NEW w \in Workers, Local(w), NEW kind \in Purposes, Pays(w, kind)
        PROVE  Ledger!Pay(kind)
    <3>1. proc[w].pc \in Executing /\ mig' = mig /\ proc[w].pc = PayPc[kind]
      BY <2>2 DEF Local, Pays
    <3>2. Ledger!InSeason(kind)
      BY SMT, <3>1, Season DEF Ledger!InSeason, Ledger!Backward, PayPc, Purposes,
                          ForwardPcs, UndoPcs, ReversePcs, TopUpPcs
    <3>3. kind # "move" => "move" \in recordedKinds
      <4>1. kind # "move" => proc[w].doc.balanceMoveTransactionId # NoInvoice
        <5>1. ProcOK(proc[w], invoices)
          BY DEF IInv, Trail
        <5>2. CASE kind = "fee"
          <6>1. proc[w].doc.status = "fee_reimbursement_invoice_created"
            BY <3>1, <5>1, <5>2 DEF ProcOK, PayPc
          <6> QED BY <5>1, <6>1 DEF ProcOK, DocOK, AfterMove, BeforeFee
        <5>3. CASE kind \in {"reverse", "shortfall"}
          BY SMT, <3>1, <5>1, <5>3 DEF ProcOK, PayPc, ReversePcs, TopUpPcs
        <5> QED BY <5>2, <5>3 DEF Purposes
      <4> QED BY <4>1 DEF IInv, Trail, recordedKinds, transactionOf, Purposes
    <3>4. paidKinds' = paidKinds \cup {kind}
      <4>1. PICK i \in Issued(invoices, kind) : Paid(i)
        BY <2>2 DEF Pays
      <4>2. i \in InvoiceIds /\ invoices[i].purpose = kind
        BY DEF Issued
      <4>3. /\ \A j \in InvoiceIds : invoices'[j].purpose = invoices[j].purpose
            /\ \A j \in InvoiceIds \ {i} : invoices'[j] = invoices[j]
            /\ i \in PaidOf(invoices', kind)
        BY <4>1, <4>2, PaidGrows DEF IInv
      <4>4. (paidFor(kind))' # {}
        BY <4>3 DEF PaidOf, paidFor
      <4>5. \A k \in Purposes \ {kind} : (paidFor(k))' = paidFor(k)
        BY <4>2, <4>3 DEF paidFor
      <4> QED BY <4>4, <4>5 DEF paidKinds
    <3>5. recordedKinds' = recordedKinds
      BY <3>1 DEF recordedKinds
    <3> QED BY <3>1, <3>2, <3>3, <3>4, <3>5 DEF Ledger!Pay
  <2>3. ASSUME NEW w \in Workers, Local(w), NEW kind \in Purposes, Records(w, kind)
        PROVE  Ledger!Record(kind)
    <3>1. /\ proc[w].pc \in Executing /\ invoices' = invoices /\ proc[w].pc = RecordPc[kind]
          /\ mig'.rollbackPointerRestored = mig.rollbackPointerRestored
      BY <2>3 DEF Local, Records
    <3>2. Ledger!InSeason(kind)
      BY SMT, <3>1, Season DEF Ledger!InSeason, Ledger!Backward, RecordPc, Purposes,
                          ForwardPcs, UndoPcs, ReversePcs, TopUpPcs
    <3>3. kind \in paidKinds
      BY <2>3 DEF Records, PaidOf, paidFor, paidKinds
    <3>4. transactionOf(mig', kind) # NoInvoice
      BY <2>3, <2>z DEF Records, PaidOf
    <3>5. recordedKinds' = recordedKinds \cup {kind}
      BY <2>3, <3>4 DEF Records, recordedKinds
    <3>6. paidKinds' = paidKinds
      BY <3>1, SameGrows, QuietKinds
    <3> QED BY <3>1, <3>2, <3>3, <3>5, <3>6 DEF Ledger!Record
  <2>4. ASSUME NEW w \in Workers, Restores(w) PROVE Ledger!BeginUndoing
    <3>1. paidKinds' = paidKinds
      BY <2>4, SameGrows, QuietKinds DEF Restores
    <3>2. recordedKinds' = recordedKinds
      BY <2>4 DEF Restores, recordedKinds
    <3> QED BY <2>4, <3>1, <3>2 DEF Restores, Ledger!BeginUndoing
  <2>5. ASSUME NEW w \in Workers, ForwardStep(w) \/ RollbackStep(w) \/ StepFails(w)
        PROVE  Ledger!LedgerNext \/ UNCHANGED Ledger!ledgerVars
    <3>1. Local(w) /\ BookStep(w)
      BY <2>5, InnerEffect DEF IInv
    <3> QED BY <3>1, <2>1, <2>2, <2>3, <2>4
            DEF BookStep, Ledger!LedgerNext, Ledger!Forward, Ledger!Backward, Purposes
  <2> QED BY <2>1, <2>5, OuterBookless DEF IInv, Next, WorkerStep
<1> QED BY <1>1, <1>2, IInvInvariant, PTL DEF Spec, ImplementsLedger, Ledger!LedgerSpec

-----------------------------------------------------------------------------
\* The guard.

\* While a process is between deciding on a payment and recording it, its copy is
\* in a status the guard blocks, and the document is in that status or the
\* operator has pulled it into a rollback, which the guard blocks as well.
THEOREM PayingIsBlocked == Spec => []BlockedWhilePaying
<1>1. IInv => BlockedWhilePaying
  <2> SUFFICES ASSUME IInv, StaleMeansDead, NEW w \in Workers,
                      proc[w].pc \in {"pay_move", "record_move", "pay_fee", "record_fee",
                                     "pay_reverse", "record_reverse",
                                     "pay_shortfall", "record_shortfall"}
               PROVE  Guard("in_progress", mig.status) = "blocked"
    BY DEF BlockedWhilePaying
  <2>1. proc[w].doc.status \in {"invoice_created", "fee_reimbursement_invoice_created",
                               "rollback_started"}
    BY DEF IInv, Trail, ProcOK, UndoPcs, ReversePcs, TopUpPcs
  <2>2. mig.status \in {"invoice_created", "fee_reimbursement_invoice_created",
                       "rollback_started"}
    BY <2>1 DEF IInv, UpToDate, Executing, Pcs
  <2>3. mig.status \in ACTIVE_STATUSES
    BY <2>2 DEF ACTIVE_STATUSES, PreMoneyStatuses, MoneyStatuses
  <2> QED BY <2>2, <2>3 DEF Guard
<1> QED BY <1>1, IInvInvariant, PTL

-----------------------------------------------------------------------------
\* How often each payment is made.

\* At most one element.
LEMMA AtMostOne ==
    ASSUME NEW S, \A i, j \in S : i = j
    PROVE  Cardinality(S) \in Nat /\ Cardinality(S) <= 1
<1>1. CASE S = {}
  BY SMT, <1>1, FS_EmptySet
<1>2. CASE S # {}
  <2>1. PICK i \in S : TRUE
    BY <1>2
  <2>2. S = {i}
    BY <2>1
  <2>3. Cardinality({i}) = 1
    BY FS_Singleton
  <2>4. Cardinality(S) = 1
    BY <2>2, <2>3, Zenon
  <2> QED BY SMT, <2>4
<1> QED BY <1>1, <1>2

\* AmountsInv and MoveInv hold always.
LEMMA MoveInvariant == Spec => [](AmountsInv /\ MoveInv)
<1>1. Init => AmountsInv /\ MoveInv
  BY SMT DEF Init, AmountsInv, AmountsOK, MoveInv, UpsertedDocument, IdleProcess, paidFor,
         BeforeReading, BeforeFeeRead, FeeStatuses
<1> QED BY <1>1, NextAmounts, NextMove, IInvInvariant, PTL DEF Spec

\* The balance moves once: until a rollback sends money back, the legacy wallet
\* holds at most the recorded balance and nothing once it is paid, so a repeated
\* payment, with the same invoice or one that replaces it, has nothing to pay
\* with; and the rollback begins only when no forward process can act any more.
\* It takes the lock, and that nobody pays into the legacy wallet meanwhile.
THEOREM MovedOnce ==
    ASSUME StaleMeansDead, "legacy" \notin DepositWallets
    PROVE  Spec => []MoveOnce
<1>1. MoveInv => MoveOnce
  BY AtMostOne DEF MoveInv, MoveOnce
<1> QED BY <1>1, MoveInvariant, PTL

\* The treasury reimburses the fee once, also when processes overtake each
\* other: the invoice for the fee is created in one transition guarded by the
\* status, which the migration never returns to, and IBEX settles it once.  It
\* takes that no invoice expires: a stale one is replaced.
THEOREM ReimbursedOnce ==
    ASSUME Bounds["expire"] = 0
    PROVE  Spec => []FeeOnce
<1>1. Init => FeeInv
  BY SMT DEF Init, FeeInv, UpsertedDocument, IdleProcess, paidFor
<1>2. Spec => []FeeInv
  BY <1>1, NextFee, IInvInvariant, PTL DEF Spec
<1>3. FeeInv => FeeOnce
  BY AtMostOne DEF FeeInv, FeeOnce
<1> QED BY <1>2, <1>3, PTL

\* FeeInv and UndoInv hold always.
LEMMA UndoInvariant == Spec => [](FeeInv /\ UndoInv)
<1>1. Init => FeeInv /\ UndoInv
  BY SMT DEF Init, FeeInv, UndoInv, UpsertedDocument, IdleProcess, paidFor
<1> QED BY <1>1, NextFee, NextUndo, IInvInvariant, PTL DEF Spec

\* A rollback is topped up once, and sends the balance back once, over lost
\* answers, reviews and repeated requests: under the lock the copy names the
\* invoice the document names, and a new one is created only where there is
\* none.  It takes that no invoice expires between a lost answer and the next
\* attempt.
THEOREM ToppedUpOnce ==
    ASSUME StaleMeansDead, Bounds["expire"] = 0
    PROVE  Spec => [](ShortfallOnce /\ Cardinality(paidFor("reverse")) <= 1)
<1>1. UndoInv => ShortfallOnce /\ Cardinality(paidFor("reverse")) <= 1
  <2> SUFFICES ASSUME UndoInv PROVE ShortfallOnce /\ Cardinality(paidFor("reverse")) <= 1
    OBVIOUS
  <2>1. /\ \A i, j \in paidFor("reverse") : i = j
        /\ \A i, j \in paidFor("shortfall") : i = j
    BY DEF UndoInv
  <2> QED BY <2>1, AtMostOne DEF ShortfallOnce
<1> QED BY <1>1, UndoInvariant, PTL

-----------------------------------------------------------------------------
\* The default wallet.

\* PointerInv is inductive.
LEMMA NextPointer == IInv /\ PointerInv /\ [Next]_vars => PointerInv'
<1> SUFFICES ASSUME IInv, PointerInv, [Next]_vars, StaleMeansDead PROVE PointerInv'
  BY DEF PointerInv
<1> DEFINE Flipped == {"pointer_flipped", "legacy_zero_verified", "complete"}
<1>t. TypeOK /\ Trail /\ OneWay /\ UpToDate /\ LockInv
  BY DEF IInv
<1>p. /\ forwardMovedFunds(mig) /\ mig.status \in Flipped => default = "usdt"
      /\ \A v \in Workers : proc[v].pc = "record_flip" => default = "usdt"
  BY DEF PointerInv
<1>1. ASSUME NEW w \in Workers, ForwardStep(w) \/ RollbackStep(w) \/ StepFails(w)
      PROVE  PointerInv'
  <2>1. Local(w) /\ BookStep(w) /\ Deed(w)
    BY <1>1, <1>t, InnerEffect, InnerDeed
  <2>2. proc'[w].pc = "record_flip" => default' = "usdt"
    BY <1>1, <1>t, InnerDefault
  <2>3. ASSUME NEW v \in Workers \ {w} PROVE proc'[v].pc # "record_flip"
    BY <2>1, <1>t DEF Local, LockInv, Executing, Pcs
  <2>4. ASSUME forwardMovedFunds(mig'), mig'.status \in Flipped PROVE default' = "usdt"
    <3>1. default' = default \/ default' = "usdt"
      <4>1. ASSUME proc[w].job = "rollback", proc[w].doc.status = "rollback_started", mig' = mig
            PROVE  FALSE
        <5>1. mig.status \in UndoStatuses
          BY <4>1, <2>1, <1>t DEF Local, OneWay, Begun
        <5> QED BY <5>1, <4>1, <2>4 DEF UndoStatuses
      <4> QED BY <4>1, <1>1, <1>t, InnerDefault
    <3>2. \/ proc[w].pc = "record_flip"
          \/ mig.status \in Flipped
      BY <2>1, <2>4 DEF Deed, Rests, Advances, ReadsBalance, ReadsFee, MovesBalance, Reimburses,
                        SendsBack, TopsUp
    <3>3. mig.status \in Flipped => forwardMovedFunds(mig)
      BY <2>1, <2>4, <1>t, MoveRecorded DEF forwardMovedFunds
    <3> QED BY <3>1, <3>2, <3>3, <1>p
  <2>5. \A v \in Workers : proc'[v].pc = "record_flip" => default' = "usdt"
    BY <2>2, <2>3
  <2> QED BY <2>4, <2>5 DEF PointerInv, forwardMovedFunds
<1>2. CASE \/ \E w \in Workers : RunnerStep(w) \/ Crash(w)
           \/ Environment \/ UNCHANGED vars
  <2>1. /\ SameContents(mig', mig)
        /\ \/ mig'.status = mig.status
           \/ mig'.status \in {"rollback_started", "failed", "requires_operator_review"}
           \/ mig.balanceMoveTransactionId = NoInvoice
    BY <1>2, <1>t, OuterContents
  <2>2. default' = default
    BY <1>2 DEF RunnerStep, ListMigration, AcquireMigrationLock, ReleaseMigrationLock,
            MarkMigrationFailed, Crash, Environment, LockGoesStale, RequestRollback,
            RetryFailed, RoutePayment, MakePayment, ReceivePayment, InvoiceExpires, vars
  <2>3. \A v \in Workers : proc'[v].pc = "record_flip" => proc[v].pc = "record_flip"
    BY SMT, <1>2, <1>t, OuterProcesses DEF IdleProcess, Executing, Pcs
  <2> QED BY <2>1, <2>2, <2>3, <1>p DEF PointerInv, SameContents, forwardMovedFunds
<1> QED BY <1>1, <1>2 DEF Next, WorkerStep

\* A migration that completes with its move recorded has set the account's default
\* to the USDT wallet: such a document reaches pointer_flipped after the flip only
\* (a retry, which may resume there without one, is refused to it), nobody else
\* writes the account meanwhile, and from the moment a rollback restores the pointer
\* the migration cannot complete any more.
THEOREM CompletedPointsToUsdt ==
    ASSUME StaleMeansDead
    PROVE  Spec => []CompletePointsToUsdt
<1>1. Init => PointerInv
  BY SMT DEF Init, PointerInv, UpsertedDocument, IdleProcess, forwardMovedFunds
<1>2. PointerInv => CompletePointsToUsdt
  BY DEF PointerInv, CompletePointsToUsdt
<1> QED BY <1>1, <1>2, NextPointer, IInvInvariant, PTL DEF Spec

-----------------------------------------------------------------------------
\* What the migration costs the user.

\* The fee is read, and it is below the minimum or reimbursed.
FeeSettled(d) ==
    \/ d.status = "fee_reimbursed"
    \/ forwardMovedFunds(d) /\ d.status \in {"pointer_flipped", "legacy_zero_verified", "complete"}

MoneyTypes ==
    /\ SubPerMicro \in Nat /\ SubPerMicro > 1 /\ Tolerance \in Nat
    /\ mig.sourceBalance \in Int /\ mig.destinationStartingBalance \in Int /\ mig.feeAmount \in Int
    /\ mig.destinationStartingBalance * SubPerMicro \in Int
    /\ mig.feeAmount * SubPerMicro \in Int /\ (Tolerance + 1) * SubPerMicro \in Int
    /\ bal["legacy"] \in Nat /\ bal["usdt"] \in Nat /\ owed \in Int

\* The amounts are integers, as the arithmetic below needs to know.
LEMMA MoneyTyped == (TypeOK => MoneyTypes) /\ (TypeOK' => MoneyTypes')
BY SMT, SubPerMicroAssumption, AmountsAssumption
   DEF TypeOK, MoneyTypes, Documents, Amounts, Undefined, Wallets

\* A step that moves no money but the user's own keeps WholeInv.
LEMMA WholeKept ==
    ASSUME WholeInv, StaleMeansDead, DepositWallets = {}, MoneyTypes, MoneyTypes',
           SameAmounts(mig', mig),
           (paidFor("move"))' = paidFor("move"), (paidFor("fee"))' = paidFor("fee"),
           mig.rollbackPointerRestored => mig'.rollbackPointerRestored,
           Gap' = Gap, bal'["usdt"] <= bal["usdt"], owed' <= owed,
           owed' - bal'["legacy"] <= owed - bal["legacy"],
           FeeSettled(mig') => FeeSettled(mig) \/ paidFor("fee") # {},
           mig'.status = "rolled_back" /\ forwardMovedFunds(mig') =>
              \/ mig.status = "rolled_back" /\ forwardMovedFunds(mig)
              \/ StartBounds(owed - bal["legacy"] - (Tolerance + 1) * SubPerMicro)
    PROVE  WholeInv'
<1> DEFINE start == mig.destinationStartingBalance * SubPerMicro
           fee == mig.feeAmount * SubPerMicro
           tol == (Tolerance + 1) * SubPerMicro
<1>t. /\ start \in Int /\ fee \in Int /\ tol \in Int /\ SubPerMicro \in Nat
      /\ mig.sourceBalance \in Int /\ bal["usdt"] \in Nat /\ bal'["usdt"] \in Nat
      /\ bal["legacy"] \in Nat /\ bal'["legacy"] \in Nat /\ owed \in Int /\ owed' \in Int
      /\ Gap \in Int
  BY SMT DEF MoneyTypes, Gap, holdings
<1>s. /\ mig'.sourceBalance = mig.sourceBalance /\ mig'.feeAmount = mig.feeAmount
      /\ mig'.destinationStartingBalance = mig.destinationStartingBalance
  BY DEF SameAmounts
<1>1. (mig.sourceBalance # Undefined =>
          IF paidFor("move") = {} THEN StartBounds(bal["usdt"])
                                  ELSE StartBounds(owed - mig.sourceBalance))'
  <2>1. mig.sourceBalance # Undefined =>
            IF paidFor("move") = {} THEN 2 * bal["usdt"] <= 2 * start + SubPerMicro
                                    ELSE 2 * (owed - mig.sourceBalance) <= 2 * start + SubPerMicro
    BY DEF WholeInv, StartBounds
  <2>2. mig.sourceBalance # Undefined =>
            IF paidFor("move") = {} THEN 2 * bal'["usdt"] <= 2 * start + SubPerMicro
                                    ELSE 2 * (owed' - mig.sourceBalance) <= 2 * start + SubPerMicro
    <3> HIDE DEF start
    <3> QED BY SMT, <2>1, <1>t
  <2> QED BY <2>2, <1>s DEF StartBounds
<1>2. (/\ paidFor("move") # {} => mig.sourceBalance # Undefined
       /\ paidFor("fee") # {} => mig.feeAmount # Undefined)'
  BY <1>s DEF WholeInv
<1>3. (~mig.rollbackPointerRestored =>
          /\ paidFor("move") = {} => Gap = 0
          /\ paidFor("move") # {} => Gap <= mig.sourceBalance
          /\ mig.feeAmount # Undefined =>
                 2 * Gap <= 2 * (mig.feeAmount * SubPerMicro) + 3 * SubPerMicro
          /\ paidFor("fee") # {} /\ mig.feeAmount >= MinFixedInvoice => 2 * Gap <= 3 * SubPerMicro)'
  BY <1>s DEF WholeInv
<1>4. (~mig.rollbackPointerRestored /\ FeeSettled(mig) =>
          /\ mig.feeAmount # Undefined
          /\ mig.feeAmount < MinPayable \/ paidFor("fee") # {})'
  BY <1>s DEF WholeInv, FeeSettled, forwardMovedFunds
<1>5. (mig.status = "rolled_back" /\ forwardMovedFunds(mig) =>
          StartBounds(owed - bal["legacy"] - (Tolerance + 1) * SubPerMicro))'
  <2>1. mig'.status = "rolled_back" /\ forwardMovedFunds(mig') =>
            2 * (owed - bal["legacy"] - tol) <= 2 * start + SubPerMicro
    BY DEF WholeInv, StartBounds
  <2>2. mig'.status = "rolled_back" /\ forwardMovedFunds(mig') =>
            2 * (owed' - bal'["legacy"] - tol) <= 2 * start + SubPerMicro
    <3> HIDE DEF start, tol
    <3> QED BY SMT, <2>1, <1>t
  <2> QED BY <2>2, <1>s DEF StartBounds, forwardMovedFunds
<1> HIDE DEF start, fee, tol
<1> QED BY <1>1, <1>2, <1>3, <1>4, <1>5 DEF WholeInv, FeeSettled

\* What the cases below have in hand: a step of the executing process w.
WholeStep(w) ==
    /\ StaleMeansDead /\ DepositWallets = {}
    /\ IInv /\ AmountsInv /\ MoveInv /\ WholeInv /\ MoneyTypes /\ MoneyTypes'
    /\ proc[w].pc \in Executing /\ SameContents(proc[w].doc, mig)
    /\ AmountsOK(mig) /\ AmountsOK(proc[w].doc)
    /\ owed' = owed
    /\ mig.rollbackPointerRestored => mig'.rollbackPointerRestored
    /\ \/ mig'.balanceMoveTransactionId = mig.balanceMoveTransactionId
       \/ mig.status = "invoice_created"

\* A recorded move is paid.
LEMMA MovedIsPaid ==
    ASSUME Trail
    PROVE  /\ forwardMovedFunds(mig) => paidFor("move") # {}
           /\ mig.feeTransactionId # NoInvoice => paidFor("fee") # {}
BY DEF Trail, DocOK, forwardMovedFunds, PaidOf, paidFor

\* A step that writes the status, an invoice or a record.
LEMMA RestsWhole ==
    ASSUME NEW w \in Workers, WholeStep(w), Rests(w)
    PROVE  WholeInv'
<1>1. (paidFor("move"))' = paidFor("move") /\ (paidFor("fee"))' = paidFor("fee")
  BY QuietFor DEF Rests, Purposes
<1>2. Gap' = Gap
  BY DEF Rests, WholeStep, Gap, holdings
<1>t. Trail
  BY DEF WholeStep, IInv
<1>3. FeeSettled(mig') => FeeSettled(mig) \/ paidFor("fee") # {}
  <2>1. proc[w].doc.feeTransactionId # NoInvoice => paidFor("fee") # {}
    BY <1>t, MovedIsPaid DEF WholeStep, SameContents
  <2>2. mig.status = "balance_read" => ~forwardMovedFunds(mig) /\ ~forwardMovedFunds(mig')
    BY <1>t DEF WholeStep, Trail, DocOK, BeforeMove, PreMoneyStatuses, forwardMovedFunds
  <2>3. mig.status # "invoice_created" /\ forwardMovedFunds(mig') => forwardMovedFunds(mig)
    BY DEF WholeStep, forwardMovedFunds
  <2> QED BY <2>1, <2>2, <2>3 DEF Rests, Advances, FeeSettled
<1>4. mig'.status = "rolled_back" /\ forwardMovedFunds(mig') =>
         \/ mig.status = "rolled_back" /\ forwardMovedFunds(mig)
         \/ StartBounds(owed - bal["legacy"] - (Tolerance + 1) * SubPerMicro)
  <2> SUFFICES ASSUME mig'.status = "rolled_back", forwardMovedFunds(mig'), Advances(w),
                      mig.status = "rollback_started"
               PROVE  StartBounds(owed - bal["legacy"] - (Tolerance + 1) * SubPerMicro)
    BY DEF Rests, Advances, WholeStep, forwardMovedFunds
  <2>1. forwardMovedFunds(mig) /\ forwardMovedFunds(proc[w].doc)
    BY DEF WholeStep, forwardMovedFunds, SameContents
  <2>2. /\ mig.sourceBalance # Undefined /\ mig.sourceBalance \in Nat
        /\ legacyShortfallUsdtMicros(mig.sourceBalance, bal["legacy"]) <= Tolerance
    <3>1. /\ proc[w].doc.sourceBalance # Undefined
          /\ legacyShortfallUsdtMicros(proc[w].doc.sourceBalance, bal["legacy"]) <= Tolerance
      BY <2>1 DEF Advances
    <3> QED BY <3>1 DEF WholeStep, SameContents, IInv, TypeOK, Documents, Amounts
  <2>3. mig.sourceBalance <= bal["legacy"] + (Tolerance + 1) * SubPerMicro
    BY <2>2, WholeLegacy DEF WholeStep, MoneyTypes
  <2>4. StartBounds(owed - mig.sourceBalance)
    BY <1>t, <2>1, <2>2, MovedIsPaid DEF WholeStep, WholeInv
  <2> DEFINE tol == (Tolerance + 1) * SubPerMicro
             start == mig.destinationStartingBalance * SubPerMicro
  <2>5. /\ tol \in Int /\ start \in Int /\ owed \in Int /\ bal["legacy"] \in Nat
        /\ mig.sourceBalance \in Int /\ SubPerMicro \in Nat
        /\ 2 * (owed - mig.sourceBalance) <= 2 * start + SubPerMicro
        /\ mig.sourceBalance <= bal["legacy"] + tol
    BY <2>3, <2>4 DEF WholeStep, MoneyTypes, StartBounds
  <2>6. 2 * (owed - bal["legacy"] - tol) <= 2 * start + SubPerMicro
    <3> HIDE DEF tol, start
    <3> QED BY SMT, <2>5
  <2> QED BY <2>6 DEF StartBounds
<1>5. /\ bal'["usdt"] <= bal["usdt"] /\ owed' <= owed
      /\ owed' - bal'["legacy"] <= owed - bal["legacy"]
  BY SMT DEF Rests, WholeStep, MoneyTypes
<1> QED BY <1>1, <1>2, <1>3, <1>4, <1>5, WholeKept DEF WholeStep, Rests

\* readLegacyBalance: what the USDT wallet holds is noted, rounded.
LEMMA ReadsBalanceWhole ==
    ASSUME NEW w \in Workers, WholeStep(w), ReadsBalance(w)
    PROVE  WholeInv'
<1>1. (paidFor("move"))' = paidFor("move") /\ (paidFor("fee"))' = paidFor("fee")
  BY QuietFor, SameGrows DEF ReadsBalance, Purposes
<1>2. mig.sourceBalance = Undefined /\ paidFor("move") = {}
  BY DEF ReadsBalance, WholeStep, WholeInv, AmountsOK, BeforeReading
<1>3. Gap' = Gap /\ bal' = bal /\ mig'.feeAmount = mig.feeAmount /\ mig'.status = "balance_read"
  BY DEF ReadsBalance, WholeStep, Gap, holdings
<1>4. (StartBounds(bal["usdt"]))'
  BY HalfMicro DEF ReadsBalance, StartBounds, WholeStep, MoneyTypes
<1>5. mig'.sourceBalance # Undefined
  BY SMT DEF ReadsBalance, WholeStep, MoneyTypes, Undefined
<1> QED BY <1>1, <1>2, <1>3, <1>4, <1>5 DEF WholeStep, WholeInv

\* What is known when the fee is read.
LEMMA FeeIsRead ==
    ASSUME NEW w \in Workers, WholeStep(w), ReadsFee(w)
    PROVE  /\ \A kind \in Purposes : (paidFor(kind))' = paidFor(kind)
           /\ paidFor("move") # {} /\ paidFor("fee") = {}
           /\ bal' = bal /\ Gap' = Gap
           /\ mig.sourceBalance \in Nat /\ mig.sourceBalance # Undefined
           /\ mig.destinationStartingBalance \in Nat
           /\ mig'.feeAmount = destinationShortfallUsdtMicros(toMicrosRounded(mig.sourceBalance),
                                   mig.destinationStartingBalance, toMicrosRounded(bal["usdt"]))
           /\ mig'.feeAmount # Undefined
<1>t. Trail
  BY DEF WholeStep, IInv
<1>1. \A kind \in Purposes : (paidFor(kind))' = paidFor(kind)
  BY QuietFor DEF ReadsFee
<1>2. forwardMovedFunds(mig) /\ paidFor("move") # {}
  BY <1>t, MovedIsPaid
     DEF ReadsFee, Trail, DocOK, AfterMove, BeforeFee, forwardMovedFunds
<1>3. paidFor("fee") = {}
  BY DEF ReadsFee, WholeStep, WholeInv, AmountsOK, BeforeFeeRead
<1>4. Gap' = Gap /\ bal' = bal
  BY DEF ReadsFee, WholeStep, Gap, holdings
<1>5. /\ mig.sourceBalance \in Nat /\ mig.destinationStartingBalance \in Nat
      /\ mig.sourceBalance # Undefined /\ mig.destinationAmount = toMicrosRounded(mig.sourceBalance)
  BY <1>2 DEF WholeStep, AmountsOK, forwardMovedFunds, IInv, TypeOK, Documents, Amounts
<1>6. mig'.feeAmount = destinationShortfallUsdtMicros(toMicrosRounded(mig.sourceBalance),
                           mig.destinationStartingBalance, toMicrosRounded(bal["usdt"]))
  BY <1>5 DEF ReadsFee, WholeStep, SameContents
<1>7. mig'.feeAmount # Undefined
  <2>1. bal["usdt"] \in Nat
    BY DEF WholeStep, MoneyTypes
  <2>2. /\ toMicrosRounded(mig.sourceBalance) \in Amounts
        /\ mig.destinationStartingBalance \in Amounts /\ toMicrosRounded(bal["usdt"]) \in Nat
    BY <1>5, <2>1, RoundedIsNat DEF Amounts
  <2>3. mig'.feeAmount \in Nat
    BY <1>6, <2>2, ShortfallIsNat
  <2> QED BY SMT, <2>3 DEF Undefined
<1> QED BY <1>1, <1>2, <1>3, <1>4, <1>5, <1>6, <1>7

\* readFeeAmountUsdtMicros: what the user misses is covered, up to roundings.
LEMMA ReadsFeeWhole ==
    ASSUME NEW w \in Workers, WholeStep(w), ReadsFee(w)
    PROVE  WholeInv'
<1>1. /\ (paidFor("move"))' = paidFor("move") /\ (paidFor("fee"))' = paidFor("fee")
      /\ paidFor("move") # {} /\ paidFor("fee") = {} /\ bal' = bal /\ Gap' = Gap
      /\ mig.sourceBalance \in Nat /\ mig.sourceBalance # Undefined
      /\ mig.destinationStartingBalance \in Nat
      /\ mig'.feeAmount = destinationShortfallUsdtMicros(toMicrosRounded(mig.sourceBalance),
                              mig.destinationStartingBalance, toMicrosRounded(bal["usdt"]))
      /\ mig'.feeAmount # Undefined
  BY FeeIsRead DEF Purposes
<1>2. ASSUME ~mig.rollbackPointerRestored
      PROVE  2 * Gap <= 2 * (mig'.feeAmount * SubPerMicro) + 3 * SubPerMicro
  <2> DEFINE due == owed - bal["legacy"]
  <2>1. due \in Int /\ bal["usdt"] \in Nat /\ Gap = due - bal["usdt"]
    BY SMT DEF WholeStep, MoneyTypes, Gap, holdings
  <2>2. due - bal["usdt"] <= mig.sourceBalance
    BY <1>1, <1>2, <2>1 DEF WholeStep, WholeInv
  <2> DEFINE start == mig.destinationStartingBalance * SubPerMicro
  <2>3. 2 * (owed - mig.sourceBalance) <= 2 * start + SubPerMicro
    BY <1>1 DEF WholeStep, WholeInv, StartBounds
  <2>4. 2 * (due - mig.sourceBalance) <= 2 * start + SubPerMicro
    <3>1. start \in Int /\ SubPerMicro \in Nat /\ owed \in Int /\ bal["legacy"] \in Nat
          /\ mig.sourceBalance \in Nat
      BY <1>1 DEF WholeStep, MoneyTypes
    <3> HIDE DEF start
    <3> QED BY SMT, <2>3, <3>1
  <2> HIDE DEF due
  <2> QED BY <2>1, <2>2, <2>4, <1>1, FeeCovers
<1>3. /\ mig'.sourceBalance = mig.sourceBalance
      /\ mig'.destinationStartingBalance = mig.destinationStartingBalance
      /\ owed' = owed
      /\ mig.rollbackPointerRestored => mig'.rollbackPointerRestored
      /\ \/ mig'.status = "fee_reimbursed" /\ mig'.feeAmount < MinPayable
         \/ mig'.status = "fee_reimbursement_invoice_created"
  BY DEF ReadsFee, WholeStep
<1>4. (IF paidFor("move") = {} THEN StartBounds(bal["usdt"])
                               ELSE StartBounds(owed - mig.sourceBalance))'
  BY <1>1, <1>3 DEF WholeStep, WholeInv, StartBounds
<1>5. ~mig.rollbackPointerRestored => Gap <= mig.sourceBalance
  BY <1>1 DEF WholeStep, WholeInv
<1> QED BY <1>1, <1>2, <1>3, <1>4, <1>5 DEF WholeInv

\* What the move does: the user loses the routing fee.
LEMMA MoveMade ==
    ASSUME NEW w \in Workers, WholeStep(w), MovesBalance(w)
    PROVE  /\ mig.sourceBalance \in Nat \ {0} /\ mig.sourceBalance # Undefined
           /\ ~mig.rollbackPointerRestored /\ mig' = mig
           /\ mig.status \in {"invoice_created", "rollback_started"}
           /\ mig.destinationAmount # 0 /\ mig.feeAmount = Undefined
           /\ paidFor("move") = {} /\ paidFor("fee") = {} /\ (paidFor("move"))' # {}
           /\ \A kind \in Purposes \ {"move"} : (paidFor(kind))' = paidFor(kind)
           /\ bal'["legacy"] = 0
           /\ owed' = owed /\ owed - mig.sourceBalance = bal["usdt"]
           /\ Gap' \in Nat /\ Gap' <= mig.sourceBalance
<1>t. Trail /\ UpToDate /\ bal \in [Wallets -> Nat]
  BY DEF WholeStep, IInv, TypeOK
<1>1. /\ mig.sourceBalance \in Nat \ {0} /\ bal["legacy"] = mig.sourceBalance
      /\ ~mig.rollbackPointerRestored /\ mig' = mig
      /\ paidFor("move") = {} /\ (paidFor("move"))' # {}
      /\ \A kind \in Purposes \ {"move"} : (paidFor(kind))' = paidFor(kind)
  BY FirstMove DEF WholeStep
<1>2. proc[w].doc.status = "invoice_created"
  BY <1>t DEF MovesBalance, Trail, ProcOK
<1>3. mig.status \in {"invoice_created", "rollback_started"}
  BY <1>t, <1>2 DEF WholeStep, UpToDate
<1>4. mig.feeAmount = Undefined /\ paidFor("fee") = {} /\ mig.destinationAmount # 0
  <2>1. proc[w].doc.feeAmount = Undefined /\ proc[w].doc.destinationAmount # 0
    BY <1>2 DEF WholeStep, AmountsOK, BeforeFeeRead, BeforeMove
  <2> QED BY <2>1 DEF WholeStep, SameContents, WholeInv
<1>5. mig.sourceBalance # Undefined
  BY SMT, <1>1 DEF Undefined
<1>6. PICK fee \in LnFees :
         /\ fee <= mig.sourceBalance
         /\ bal' = [bal EXCEPT !["legacy"] = @ - mig.sourceBalance,
                               !["usdt"] = @ + mig.sourceBalance - fee]
  BY DEF MovesBalance, WholeStep, SameContents
<1>7. fee \in Nat
  BY AmountsAssumption
<1>8. bal'["legacy"] = bal["legacy"] - mig.sourceBalance
      /\ bal'["usdt"] = bal["usdt"] + mig.sourceBalance - fee
  BY <1>6, <1>t DEF Wallets
<1>9. owed' = owed /\ owed - mig.sourceBalance = bal["usdt"] /\ bal'["legacy"] = 0
  BY SMT, <1>1, <1>8 DEF WholeStep, WholeInv, Gap, holdings, MoneyTypes
<1>10. Gap' = fee
  BY SMT, <1>1, <1>7, <1>8, <1>9 DEF WholeStep, Gap, holdings, MoneyTypes
<1> QED BY <1>1, <1>3, <1>4, <1>5, <1>6, <1>7, <1>9, <1>10

\* The move: what the user loses is the routing fee, at most the balance moved.
LEMMA MovesWhole ==
    ASSUME NEW w \in Workers, WholeStep(w), MovesBalance(w)
    PROVE  WholeInv'
<1>1. /\ mig.sourceBalance # Undefined /\ mig' = mig /\ ~mig.rollbackPointerRestored
      /\ mig.status \in {"invoice_created", "rollback_started"} /\ mig.feeAmount = Undefined
      /\ paidFor("move") = {} /\ (paidFor("move"))' # {} /\ (paidFor("fee"))' = {}
      /\ owed' = owed /\ owed - mig.sourceBalance = bal["usdt"] /\ Gap' <= mig.sourceBalance
  BY MoveMade DEF Purposes
<1>2. (StartBounds(owed - mig.sourceBalance))'
  <2>1. StartBounds(bal["usdt"])
    BY <1>1 DEF WholeStep, WholeInv
  <2> QED BY <2>1, <1>1 DEF StartBounds
<1> QED BY <1>1, <1>2 DEF WholeInv

\* What the reimbursement does: a fee of at least MinFixedInvoice arrives whole, a
\* smaller one less the routing fee.
LEMMA FeePaid ==
    ASSUME NEW w \in Workers, WholeStep(w), Reimburses(w)
    PROVE  /\ mig' = mig /\ owed' = owed /\ bal'["legacy"] = bal["legacy"]
           /\ ~mig.rollbackPointerRestored
           /\ mig.status \in {"fee_reimbursement_invoice_created", "rollback_started"}
           /\ mig.feeAmount # Undefined /\ paidFor("move") # {} /\ (paidFor("fee"))' # {}
           /\ \A kind \in Purposes \ {"fee"} : (paidFor(kind))' = paidFor(kind)
           /\ Gap \in Int
           /\ \E fee \in Nat :
                /\ fee <= mig.feeAmount * SubPerMicro
                /\ mig.feeAmount >= MinFixedInvoice => fee = 0
                /\ Gap' = Gap - mig.feeAmount * SubPerMicro + fee
<1>t. TypeOK /\ Trail /\ UpToDate /\ bal \in [Wallets -> Nat] /\ "fee" \in Purposes
  BY DEF WholeStep, IInv, TypeOK, Purposes
<1>1. /\ proc[w].pc = "pay_fee" /\ mig' = mig
      /\ proc[w].doc.status = "fee_reimbursement_invoice_created"
      /\ Paid(proc[w].doc.feeInvoice) /\ proc[w].doc.feeInvoice \in Issued(invoices, "fee")
  BY <1>t, PayingIssued DEF Reimburses, Trail, ProcOK
<1>2. /\ (paidFor("fee"))' # {}
      /\ \A kind \in Purposes \ {"fee"} : (paidFor(kind))' = paidFor(kind)
  BY <1>1, <1>t, PaidAdds
<1>3. mig.status \in {"fee_reimbursement_invoice_created", "rollback_started"}
  BY <1>1, <1>t DEF WholeStep, UpToDate
<1>4. mig.feeAmount # Undefined /\ mig.feeAmount \in Nat
  BY <1>1, <1>t DEF WholeStep, AmountsOK, FeeStatuses, SameContents, TypeOK, Documents, Amounts
<1>5. paidFor("move") # {}
  <2>1. forwardMovedFunds(mig)
    BY <1>1, <1>t DEF WholeStep, SameContents, Trail, ProcOK, DocOK, AfterMove, BeforeFee,
                      forwardMovedFunds
  <2> QED BY <2>1, <1>t, MovedIsPaid
<1>r. ~mig.rollbackPointerRestored
  BY <1>1, Season DEF WholeStep, ForwardPcs
<1> DEFINE amount == mig.feeAmount * SubPerMicro
<1>6. PICK fee \in LnFees \cup {0} :
         /\ fee <= amount
         /\ mig.feeAmount >= MinFixedInvoice => fee = 0
         /\ bal' = [bal EXCEPT !["usdt"] = @ + amount - fee]
  <2>1. PICK fee \in LnFees \cup {0} :
           /\ fee <= proc[w].doc.feeAmount * SubPerMicro
           /\ ~usesNoAmountFeeReimbursementInvoice(proc[w].doc.feeAmount) => fee = 0
           /\ bal' = [bal EXCEPT !["usdt"] = @ + proc[w].doc.feeAmount * SubPerMicro - fee]
    BY DEF Reimburses
  <2>2. proc[w].doc.feeAmount = mig.feeAmount
    BY DEF WholeStep, SameContents
  <2>3. mig.feeAmount >= MinFixedInvoice => ~usesNoAmountFeeReimbursementInvoice(mig.feeAmount)
    BY SMT, <1>4, AmountsAssumption DEF usesNoAmountFeeReimbursementInvoice
  <2> QED BY <2>1, <2>2, <2>3
<1>7. fee \in Nat /\ amount \in Int
  BY SMT, AmountsAssumption DEF WholeStep, MoneyTypes
<1>8. /\ bal'["legacy"] = bal["legacy"] /\ bal'["usdt"] = bal["usdt"] + amount - fee
      /\ owed' = owed
  BY <1>6, <1>t DEF WholeStep, Wallets
<1>9. Gap \in Int /\ Gap' = Gap - amount + fee
  <2> HIDE DEF amount
  <2> QED BY SMT, <1>7, <1>8 DEF WholeStep, Gap, holdings, MoneyTypes
<1> QED BY <1>1, <1>2, <1>3, <1>4, <1>5, <1>6, <1>7, <1>8, <1>9, <1>r

\* The reimbursement takes from the gap what arrives.
LEMMA ReimbursesWhole ==
    ASSUME NEW w \in Workers, WholeStep(w), Reimburses(w)
    PROVE  WholeInv'
<1>1. /\ mig' = mig /\ owed' = owed /\ ~mig.rollbackPointerRestored
      /\ mig.status \in {"fee_reimbursement_invoice_created", "rollback_started"}
      /\ mig.feeAmount # Undefined /\ paidFor("move") # {} /\ (paidFor("fee"))' # {}
      /\ (paidFor("move"))' = paidFor("move")
  BY FeePaid DEF Purposes
<1> DEFINE amount == mig.feeAmount * SubPerMicro
<1>2. PICK fee \in Nat : /\ fee <= amount
                         /\ mig.feeAmount >= MinFixedInvoice => fee = 0
                         /\ Gap' = Gap - amount + fee
  BY FeePaid
<1>3. /\ Gap' <= mig.sourceBalance
      /\ 2 * Gap' <= 2 * amount + 3 * SubPerMicro
      /\ mig.feeAmount >= MinFixedInvoice => 2 * Gap' <= 3 * SubPerMicro
  <2>1. Gap <= mig.sourceBalance /\ 2 * Gap <= 2 * amount + 3 * SubPerMicro
    BY <1>1 DEF WholeStep, WholeInv
  <2>2. mig.sourceBalance \in Int /\ SubPerMicro \in Nat /\ amount \in Int /\ Gap \in Int
    BY FeePaid DEF WholeStep, MoneyTypes
  <2> HIDE DEF amount
  <2> QED BY SMT, <1>2, <2>1, <2>2
<1>4. (mig.sourceBalance # Undefined => StartBounds(owed - mig.sourceBalance))'
  BY <1>1 DEF WholeStep, WholeInv, StartBounds
<1>5. mig.sourceBalance # Undefined
  BY <1>1 DEF WholeStep, WholeInv
<1> QED BY <1>1, <1>3, <1>4, <1>5 DEF WholeInv

\* The payments of the rollback: nothing is claimed of them until it is verified.
LEMMA UndoWhole ==
    ASSUME NEW w \in Workers, WholeStep(w), SendsBack(w) \/ TopsUp(w)
    PROVE  WholeInv'
<1>t. TypeOK /\ Trail /\ UpToDate
  BY DEF WholeStep, IInv
<1>1. mig' = mig /\ mig.rollbackPointerRestored
  BY Season DEF WholeStep, SendsBack, TopsUp, UndoPcs, ReversePcs, TopUpPcs
<1>2. (paidFor("move"))' = paidFor("move") /\ (paidFor("fee"))' = paidFor("fee")
  BY <1>t, PayingIssued, PaidAdds DEF SendsBack, TopsUp, Purposes
<1>3. mig.status = "rollback_started" /\ forwardMovedFunds(mig)
  BY <1>t DEF WholeStep, SendsBack, TopsUp, Trail, ProcOK, UpToDate, UndoPcs, ReversePcs,
              TopUpPcs, SameContents, forwardMovedFunds
<1>4. paidFor("move") # {}
  BY <1>3, <1>t, MovedIsPaid
<1>5. (mig.sourceBalance # Undefined => StartBounds(owed - mig.sourceBalance))'
  BY <1>1, <1>4 DEF WholeStep, WholeInv, StartBounds
<1> QED BY <1>1, <1>2, <1>3, <1>4, <1>5 DEF WholeStep, WholeInv

\* WholeInv is inductive.
LEMMA NextWhole == IInv /\ AmountsInv /\ MoveInv /\ WholeInv /\ [Next]_vars => WholeInv'
<1> SUFFICES ASSUME IInv, AmountsInv, MoveInv, WholeInv, [Next]_vars,
                    StaleMeansDead, DepositWallets = {}
             PROVE  WholeInv'
  BY DEF WholeInv
<1>t. TypeOK /\ TypeOK' /\ Trail /\ OneWay /\ UpToDate /\ MoneyTypes /\ MoneyTypes'
  BY NextType, MoneyTyped DEF IInv
<1>1. ASSUME NEW w \in Workers, ForwardStep(w) \/ RollbackStep(w) \/ StepFails(w)
      PROVE  WholeInv'
  <2>1. Local(w) /\ BookStep(w) /\ Deed(w)
    BY <1>1, <1>t, InnerEffect, InnerDeed
  <2>2. WholeStep(w)
    <3>1. proc[w].pc \in Executing /\ SameContents(proc[w].doc, mig)
      BY <2>1, <1>t DEF Local, UpToDate
    <3>2. AmountsOK(mig) /\ AmountsOK(proc[w].doc)
      BY DEF AmountsInv
    <3>3. /\ owed' = owed
          /\ mig.rollbackPointerRestored => mig'.rollbackPointerRestored
          /\ \/ mig'.balanceMoveTransactionId = mig.balanceMoveTransactionId
             \/ mig.status = "invoice_created"
      BY <2>1, <1>t, RestoredStays, MoveRecorded DEF Deed
    <3> QED BY <3>1, <3>2, <3>3, <1>t DEF WholeStep
  <2> QED BY <2>1, <2>2, RestsWhole, ReadsBalanceWhole, ReadsFeeWhole, MovesWhole,
             ReimbursesWhole, UndoWhole DEF Deed
<1>2. CASE \/ \E w \in Workers : RunnerStep(w) \/ Crash(w)
           \/ Environment \/ UNCHANGED vars
  <2>1. /\ Bookless /\ SameContents(mig', mig)
        /\ \/ mig'.status = mig.status
           \/ mig'.status \in {"rollback_started", "failed", "requires_operator_review"}
           \/ mig'.status = "pointer_flipped" /\ mig.balanceMoveTransactionId = NoInvoice
    BY <1>2, <1>t, OuterBookless, OuterContents
  <2>2. (paidFor("move"))' = paidFor("move") /\ (paidFor("fee"))' = paidFor("fee")
    BY <2>1, QuietFor DEF Bookless, Purposes
  <2>3. /\ SameAmounts(mig', mig)
        /\ mig'.rollbackPointerRestored = mig.rollbackPointerRestored
    BY <2>1 DEF SameContents, SameAmounts
  <2>4. /\ FeeSettled(mig') => FeeSettled(mig)
        /\ mig'.status = "rolled_back" /\ forwardMovedFunds(mig') =>
              mig.status = "rolled_back" /\ forwardMovedFunds(mig)
    BY <2>1 DEF FeeSettled, SameContents, forwardMovedFunds
  <2>b. bal \in [Wallets -> Nat] /\ owed \in Int
    BY <1>t DEF TypeOK
  <2>5. /\ Gap' = Gap /\ bal'["usdt"] <= bal["usdt"] /\ owed' <= owed
        /\ owed' - bal'["legacy"] <= owed - bal["legacy"]
    <3>1. CASE bal' = bal /\ owed' = owed
      BY SMT, <3>1, <2>b DEF Gap, holdings, Wallets
    <3>2. ASSUME NEW x \in Wallets, NEW a \in Nat, bal' = [bal EXCEPT ![x] = @ - a],
                 owed' = owed - a
          PROVE  /\ Gap' = Gap /\ bal'["usdt"] <= bal["usdt"] /\ owed' <= owed
                 /\ owed' - bal'["legacy"] <= owed - bal["legacy"]
      BY SMT, <3>2, <2>b DEF Gap, holdings, Wallets
    <3> QED BY <1>2, <1>t, <3>1, <3>2, OuterMoney
  <2> QED BY <2>2, <2>3, <2>4, <2>5, <1>t, WholeKept
<1> QED BY <1>1, <1>2 DEF Next, WorkerStep

\* WholeInv holds always.
LEMMA WholeInvariant == Spec => []WholeInv
<1>1. Init => WholeInv
  <2> SUFFICES ASSUME Init PROVE WholeInv
    OBVIOUS
  <2>1. /\ mig.status = "not_started" /\ mig.sourceBalance = Undefined
        /\ mig.feeAmount = Undefined /\ paidFor("move") = {} /\ paidFor("fee") = {}
    BY DEF Init, UpsertedDocument, paidFor
  <2>2. Gap = 0
    BY SMT, InitType DEF Init, Gap, holdings, TypeOK, Wallets
  <2> QED BY <2>1, <2>2 DEF WholeInv
<1> QED BY <1>1, NextWhole, MoveInvariant, IInvInvariant, PTL DEF Spec

\* A completed migration has cost the user less than a micro more than the
\* smallest fee that is reimbursed exactly (handlers.ts reads the fee after the
\* verified move): a fee of at least MinFixedInvoice was paid back in full, but
\* for the roundings of the three balances it was computed from, and a smaller
\* one is all that can be missing.  It takes the lock, and that nobody pays in.
THEOREM CompletedIsWhole ==
    ASSUME StaleMeansDead, DepositWallets = {}
    PROVE  Spec => []CompleteIsWhole
<1>1. IInv /\ WholeInv => CompleteIsWhole
  <2> SUFFICES ASSUME IInv, WholeInv, mig.status = "complete", forwardMovedFunds(mig)
               PROVE  holdings + (MinFixedInvoice + 1) * SubPerMicro > owed
    BY DEF CompleteIsWhole
  <2>t. MoneyTypes /\ MinPayable \in Nat \ {0} /\ MinFixedInvoice \in Nat
        /\ MinPayable <= MinFixedInvoice
    BY MoneyTyped, AmountsAssumption, FeeLimitsAssumption DEF IInv
  <2>1. ~mig.rollbackPointerRestored
    BY DEF IInv, OneWay, Begun, UndoStatuses
  <2> DEFINE amount == mig.feeAmount * SubPerMicro
             limit == MinFixedInvoice * SubPerMicro
  <2>2. /\ mig.feeAmount < MinFixedInvoice \/ 2 * Gap <= 3 * SubPerMicro
        /\ 2 * Gap <= 2 * amount + 3 * SubPerMicro
    BY SMT, <2>1, <2>t DEF WholeInv, MoneyTypes
  <2>3. amount \in Int /\ limit \in Nat /\ Gap \in Int /\ SubPerMicro \in Nat /\ SubPerMicro > 1
    BY SMT, <2>t DEF MoneyTypes, Gap, holdings
  <2>4. mig.feeAmount < MinFixedInvoice => amount + SubPerMicro <= limit
    <3>1. ASSUME mig.feeAmount < MinFixedInvoice PROVE (mig.feeAmount + 1) * SubPerMicro <= limit
      BY SMT, <2>t, <3>1, MultiplesOrdered DEF MoneyTypes
    <3>2. (mig.feeAmount + 1) * SubPerMicro = amount + SubPerMicro
      BY SMT, <2>t DEF MoneyTypes
    <3> QED BY <3>1, <3>2
  <2>5. SubPerMicro <= limit
    <3>1. 1 * SubPerMicro <= limit
      BY SMT, <2>t, MultiplesOrdered
    <3> QED BY SMT, <3>1, <2>3
  <2>6. (MinFixedInvoice + 1) * SubPerMicro = limit + SubPerMicro
    BY SMT, <2>t DEF MoneyTypes
  <2>7. Gap < limit + SubPerMicro
    <3> HIDE DEF amount, limit
    <3> QED BY SMT, <2>2, <2>3, <2>4, <2>5
  <2>8. Gap < (MinFixedInvoice + 1) * SubPerMicro
    BY <2>6, <2>7
  <2> DEFINE bound == (MinFixedInvoice + 1) * SubPerMicro
  <2>9. bound \in Int /\ Gap < bound
    BY SMT, <2>3, <2>6, <2>8
  <2> HIDE DEF bound, amount, limit
  <2>10. holdings + bound > owed
    BY SMT, <2>9, <2>t DEF Gap, holdings, MoneyTypes
  <2> QED BY <2>10 DEF bound
<1> QED BY <1>1, IInvInvariant, WholeInvariant, PTL

\* A rolled back migration has put back into the legacy wallet what the user is
\* owed beyond what the USDT wallet started with, up to the tolerance and the
\* roundings: VerifyRollback compares the legacy wallet with the balance the
\* account migrated with, over every payment, fee and top-up in between.
THEOREM RolledBackIsWholeAgain ==
    ASSUME StaleMeansDead, DepositWallets = {}
    PROVE  Spec => []RolledBackIsWhole
<1>1. IInv /\ WholeInv => RolledBackIsWhole
  <2> SUFFICES ASSUME IInv, WholeInv, mig.status = "rolled_back", forwardMovedFunds(mig)
               PROVE  bal["legacy"] + (Tolerance + mig.destinationStartingBalance + 2) * SubPerMicro
                          > owed
    BY DEF RolledBackIsWhole
  <2>t. MoneyTypes
    BY MoneyTyped DEF IInv
  <2> DEFINE tol == (Tolerance + 1) * SubPerMicro
             start == mig.destinationStartingBalance * SubPerMicro
             bound == (Tolerance + mig.destinationStartingBalance + 2) * SubPerMicro
  <2>1. 2 * (owed - bal["legacy"] - tol) <= 2 * start + SubPerMicro
    BY DEF WholeInv, StartBounds
  <2>2. bound = tol + start + SubPerMicro
    BY SMT, <2>t DEF MoneyTypes
  <2>3. /\ tol \in Int /\ start \in Int /\ SubPerMicro \in Nat /\ SubPerMicro > 1
        /\ owed \in Int /\ bal["legacy"] \in Nat
    BY <2>t DEF MoneyTypes
  <2> HIDE DEF tol, start, bound
  <2>4. bal["legacy"] + bound > owed
    BY SMT, <2>1, <2>2, <2>3
  <2> QED BY <2>4 DEF bound
<1> QED BY <1>1, IInvInvariant, WholeInvariant, PTL

-----------------------------------------------------------------------------
\* What the migration gives the user.

\* What the cases below have in hand.
GainStep(w) ==
    WholeStep(w) /\ Undisturbed /\ FeeInv /\ UndoInv /\ GainBounds /\ PurseOK(proc[w])

\* The amounts above, and two more.
LEMMA GainTypes ==
    ASSUME NEW w, GainStep(w)
    PROVE  /\ SubPerMicro \in Nat /\ SubPerMicro > 1 /\ Tolerance * SubPerMicro \in Nat
           /\ mig.sourceBalance \in Int /\ owed \in Int /\ Gap \in Int
           /\ mig.feeAmount * SubPerMicro \in Int /\ mig.destinationStartingBalance * SubPerMicro \in Int
           /\ bal["legacy"] \in Nat /\ bal["usdt"] \in Nat
           /\ Gap = owed - bal["legacy"] - bal["usdt"]
<1>1. MoneyTypes
  BY DEF GainStep, WholeStep
<1> QED BY SMT, <1>1 DEF MoneyTypes, Gap, holdings

\* A step that moves no money keeps the bounds.
LEMMA GainKept ==
    ASSUME GainBounds, SameAmounts(mig', mig), bal' = bal, owed' = owed,
           \A kind \in Purposes : (paidFor(kind))' = paidFor(kind),
           mig.rollbackPointerRestored => mig'.rollbackPointerRestored
    PROVE  GainBounds'
<1>1. /\ (paidFor("move"))' = paidFor("move") /\ (paidFor("fee"))' = paidFor("fee")
      /\ (paidFor("reverse"))' = paidFor("reverse")
      /\ (paidFor("shortfall"))' = paidFor("shortfall")
  BY DEF Purposes
<1>2. Gap' = Gap
  BY DEF Gap, holdings
<1>3. /\ mig'.sourceBalance = mig.sourceBalance /\ mig'.feeAmount = mig.feeAmount
      /\ mig'.destinationAmount = mig.destinationAmount
      /\ mig'.destinationStartingBalance = mig.destinationStartingBalance
  BY DEF SameAmounts
<1>4. /\ (StartsFrom(bal["usdt"]))' <=> StartsFrom(bal["usdt"])
      /\ (StartsFrom(owed - mig.sourceBalance))' <=> StartsFrom(owed - mig.sourceBalance)
  BY <1>3 DEF StartsFrom
<1> QED BY <1>1, <1>2, <1>3, <1>4 DEF GainBounds

\* readLegacyBalance.
LEMMA ReadsBalanceGain ==
    ASSUME NEW w \in Workers, GainStep(w), ReadsBalance(w)
    PROVE  GainBounds'
<1>1. \A kind \in Purposes : (paidFor(kind))' = paidFor(kind)
  BY QuietFor, SameGrows DEF ReadsBalance
<1>2. mig.sourceBalance = Undefined /\ mig.feeAmount = Undefined
  BY DEF ReadsBalance, GainStep, WholeStep, AmountsOK, BeforeReading, BeforeFeeRead, BeforeMove,
         PreMoneyStatuses
<1>3. /\ paidFor("move") = {} /\ paidFor("fee") = {}
      /\ paidFor("reverse") = {} /\ paidFor("shortfall") = {}
  BY <1>2 DEF GainStep, WholeStep, WholeInv, GainBounds
<1>4. /\ (paidFor("move"))' = {} /\ (paidFor("fee"))' = {}
      /\ (paidFor("reverse"))' = {} /\ (paidFor("shortfall"))' = {}
  BY <1>1, <1>3 DEF Purposes
<1>5. Gap' = Gap /\ bal' = bal /\ mig'.feeAmount = Undefined
  BY <1>2 DEF ReadsBalance, GainStep, WholeStep, Gap, holdings
<1>6. (StartsFrom(bal["usdt"]))'
  BY HalfMicro DEF ReadsBalance, StartsFrom, GainStep, WholeStep, MoneyTypes
<1>7. 0 <= 2 * Gap + 3 * SubPerMicro /\ 0 <= Gap /\ 0 <= Gap + Tolerance * SubPerMicro + 3 * SubPerMicro
  BY <1>3 DEF GainStep, GainBounds
<1> QED BY <1>4, <1>5, <1>6, <1>7 DEF GainBounds

\* readFeeAmountUsdtMicros: the fee is no more than what is missing, up to the
\* roundings.
LEMMA ReadsFeeGain ==
    ASSUME NEW w \in Workers, GainStep(w), ReadsFee(w)
    PROVE  GainBounds'
<1>1. /\ \A kind \in Purposes : (paidFor(kind))' = paidFor(kind)
      /\ paidFor("move") # {} /\ paidFor("fee") = {} /\ bal' = bal /\ Gap' = Gap
      /\ mig.sourceBalance \in Nat /\ mig.sourceBalance # Undefined
      /\ mig.destinationStartingBalance \in Nat
      /\ mig'.feeAmount = destinationShortfallUsdtMicros(toMicrosRounded(mig.sourceBalance),
                              mig.destinationStartingBalance, toMicrosRounded(bal["usdt"]))
  BY FeeIsRead DEF GainStep
<1>2. paidFor("reverse") = {} /\ paidFor("shortfall") = {}
  <2>1. ~mig.rollbackPointerRestored
    BY DEF GainStep, WholeStep, ReadsFee, IInv, OneWay, Begun, UndoStatuses
  <2> QED BY <2>1 DEF GainStep, GainBounds
<1>3. /\ (paidFor("move"))' # {} /\ (paidFor("fee"))' = {}
      /\ (paidFor("reverse"))' = {} /\ (paidFor("shortfall"))' = {}
  BY <1>1, <1>2 DEF Purposes
<1>4. /\ bal["legacy"] = 0 /\ 0 <= Gap /\ StartsFrom(owed - mig.sourceBalance)
      /\ mig.destinationAmount # 0
      /\ 0 <= 2 * Gap + 3 * SubPerMicro /\ 0 <= Gap + Tolerance * SubPerMicro + 3 * SubPerMicro
  BY <1>1, <1>2 DEF GainStep, GainBounds
<1>5. Gap = owed - bal["usdt"] /\ owed \in Int /\ bal["usdt"] \in Nat
  BY SMT, <1>4, GainTypes
<1>6. 2 * (mig'.feeAmount * SubPerMicro) <= 2 * Gap + 3 * SubPerMicro
  BY <1>1, <1>4, <1>5, FeeWithin DEF StartsFrom
<1>7. /\ mig'.sourceBalance = mig.sourceBalance /\ mig'.destinationAmount = mig.destinationAmount
      /\ mig'.destinationStartingBalance = mig.destinationStartingBalance /\ owed' = owed
  BY DEF ReadsFee, GainStep, WholeStep
<1>8. (StartsFrom(owed - mig.sourceBalance))'
  BY <1>4, <1>7 DEF StartsFrom
<1> QED BY <1>1, <1>3, <1>4, <1>6, <1>7, <1>8 DEF GainBounds

\* The move.
LEMMA MovesGain ==
    ASSUME NEW w \in Workers, GainStep(w), MovesBalance(w)
    PROVE  GainBounds'
<1>1. /\ mig' = mig /\ ~mig.rollbackPointerRestored /\ mig.sourceBalance # Undefined
      /\ mig.destinationAmount # 0 /\ mig.feeAmount = Undefined
      /\ paidFor("move") = {} /\ paidFor("fee") = {} /\ (paidFor("move"))' # {}
      /\ \A kind \in Purposes \ {"move"} : (paidFor(kind))' = paidFor(kind)
      /\ bal'["legacy"] = 0
      /\ owed' = owed /\ owed - mig.sourceBalance = bal["usdt"]
      /\ Gap' \in Nat
  BY MoveMade DEF GainStep
<1>2. (paidFor("reverse"))' = {} /\ (paidFor("shortfall"))' = {}
  <2>1. paidFor("reverse") = {} /\ paidFor("shortfall") = {}
    BY <1>1 DEF GainStep, GainBounds
  <2> QED BY <1>1, <2>1 DEF Purposes
<1>3. (StartsFrom(owed - mig.sourceBalance))'
  <2>1. StartsFrom(bal["usdt"])
    BY <1>1 DEF GainStep, GainBounds
  <2> QED BY <2>1, <1>1 DEF StartsFrom
<1>4. /\ 0 <= 2 * Gap' + 3 * SubPerMicro /\ 0 <= Gap'
      /\ 0 <= Gap' + Tolerance * SubPerMicro + 3 * SubPerMicro
  <2> DEFINE tol == Tolerance * SubPerMicro
             new == Gap'
  <2>1. tol \in Nat /\ SubPerMicro \in Nat /\ new \in Nat
    BY <1>1, GainTypes
  <2> HIDE DEF tol, new
  <2>2. 0 <= 2 * new + 3 * SubPerMicro /\ 0 <= new /\ 0 <= new + tol + 3 * SubPerMicro
    BY SMT, <2>1
  <2> QED BY <2>2 DEF tol, new
<1> QED BY <1>1, <1>2, <1>3, <1>4 DEF GainBounds

\* An invoice IBEX accepts is unpaid, and so is everything of its kind while only
\* that invoice can be paid.
LEMMA NothingPaidYet ==
    ASSUME NEW kind, NEW i, paidFor(kind) \subseteq {i}, Payable(i)
    PROVE  paidFor(kind) = {}
BY DEF paidFor, Payable

\* The reimbursement, made once.
LEMMA ReimbursesGain ==
    ASSUME NEW w \in Workers, GainStep(w), Reimburses(w)
    PROVE  GainBounds'
<1>1. /\ mig' = mig /\ owed' = owed /\ bal'["legacy"] = bal["legacy"]
      /\ ~mig.rollbackPointerRestored /\ mig.feeAmount # Undefined
      /\ paidFor("move") # {} /\ (paidFor("fee"))' # {}
      /\ \A kind \in Purposes \ {"fee"} : (paidFor(kind))' = paidFor(kind)
  BY FeePaid DEF GainStep
<1>2. paidFor("fee") = {}
  <2>1. paidFor("fee") \subseteq {proc[w].doc.feeInvoice}
    BY DEF GainStep, WholeStep, Undisturbed, FeeInv, SameContents
  <2> QED BY <2>1, NothingPaidYet DEF Reimburses
<1>3. paidFor("reverse") = {} /\ paidFor("shortfall") = {}
  BY <1>1 DEF GainStep, GainBounds
<1>4. /\ (paidFor("move"))' = paidFor("move")
      /\ (paidFor("reverse"))' = {} /\ (paidFor("shortfall"))' = {}
  BY <1>1, <1>3 DEF Purposes
<1> DEFINE amount == mig.feeAmount * SubPerMicro
           tol == Tolerance * SubPerMicro
<1>5. PICK fee \in Nat : Gap' = Gap - amount + fee
  BY FeePaid DEF GainStep
<1>6. 2 * amount <= 2 * Gap + 3 * SubPerMicro
  BY <1>1, <1>2, <1>3 DEF GainStep, GainBounds
<1>7. 0 <= 2 * Gap' + 3 * SubPerMicro /\ 0 <= Gap' + tol + 3 * SubPerMicro
  <2>1. amount \in Int /\ tol \in Nat /\ SubPerMicro \in Nat /\ Gap \in Int
    BY GainTypes
  <2> HIDE DEF amount, tol
  <2> QED BY SMT, <2>1, <1>5, <1>6
<1>8. /\ (mig.sourceBalance # Undefined => StartsFrom(owed - mig.sourceBalance))'
      /\ mig.destinationAmount # 0 /\ bal["legacy"] = 0
  BY <1>1, <1>3 DEF GainStep, GainBounds, StartsFrom
<1> HIDE DEF amount
<1> QED BY <1>1, <1>4, <1>7, <1>8 DEF GainBounds, tol

\* The payment back: what it leaves in the USDT wallet is what the account held
\* there, but for the tolerance.
LEMMA SendsBackGain ==
    ASSUME NEW w \in Workers, GainStep(w), SendsBack(w)
    PROVE  GainBounds'
<1>t. TypeOK /\ Trail /\ bal \in [Wallets -> Nat] /\ "reverse" \in Purposes
  BY DEF GainStep, WholeStep, IInv, TypeOK, Purposes
<1>1. /\ proc[w].pc = "pay_reverse" /\ mig' = mig /\ owed' = owed
      /\ Paid(proc[w].doc.rollbackInvoice)
      /\ proc[w].doc.rollbackInvoice \in Issued(invoices, "reverse")
  BY <1>t, PayingIssued DEF GainStep, WholeStep, SendsBack
<1>2. paidFor("reverse") = {} /\ paidFor("shortfall") = {}
  <2>1. paidFor("reverse") \subseteq {proc[w].doc.rollbackInvoice}
    BY DEF GainStep, WholeStep, Undisturbed, UndoInv, SameContents
  <2>2. paidFor("reverse") = {}
    BY <2>1, NothingPaidYet DEF SendsBack
  <2> QED BY <2>2 DEF GainStep, GainBounds
<1>3. /\ (paidFor("reverse"))' # {}
      /\ \A kind \in Purposes \ {"reverse"} : (paidFor(kind))' = paidFor(kind)
  BY <1>1, <1>t, PaidAdds
<1>4. mig.rollbackPointerRestored /\ forwardMovedFunds(mig) /\ paidFor("move") # {}
  <2>1. mig.rollbackPointerRestored
    BY <1>1, Season DEF GainStep, WholeStep, UndoPcs, ReversePcs
  <2>2. forwardMovedFunds(mig)
    BY <1>1, <1>t DEF GainStep, WholeStep, Trail, ProcOK, ReversePcs, SameContents,
                      forwardMovedFunds
  <2> QED BY <2>1, <2>2, <1>t, MovedIsPaid
<1>5. /\ (paidFor("move"))' = paidFor("move") /\ (paidFor("fee"))' = paidFor("fee")
      /\ (paidFor("shortfall"))' = {}
  BY <1>2, <1>3 DEF Purposes
<1>6. /\ bal["legacy"] = 0 /\ mig.destinationAmount # 0
      /\ 0 <= 2 * Gap + 3 * SubPerMicro
      /\ paidFor("fee") = {} =>
             /\ 0 <= Gap
             /\ mig.feeAmount # Undefined =>
                    2 * (mig.feeAmount * SubPerMicro) <= 2 * Gap + 3 * SubPerMicro
  BY <1>2, <1>4 DEF GainStep, GainBounds
<1> DEFINE source == mig.sourceBalance
           target == mig.destinationAmount
           amount == proc[w].amount * SubPerMicro
           fees == mig.feeAmount * SubPerMicro
           tol == Tolerance * SubPerMicro
<1>7. source \in Nat /\ source # Undefined /\ target = toMicrosRounded(source) /\ target \in Nat
  <2>1. source # Undefined /\ target = toMicrosRounded(source)
    BY <1>4 DEF GainStep, WholeStep, AmountsOK, forwardMovedFunds
  <2>2. source \in Nat
    BY <2>1, <1>t DEF TypeOK, Documents, Amounts
  <2> QED BY <2>1, <2>2, RoundedIsNat
<1>8. proc[w].amount \in Nat /\ target - Tolerance <= proc[w].amount
  BY <1>1 DEF GainStep, PurseOK
<1>9. PICK fee \in Nat : /\ bal'["usdt"] = bal["usdt"] - amount
                         /\ bal'["legacy"] = bal["legacy"] + amount - fee
  <2>1. PICK fee \in LnFees : bal' = [bal EXCEPT !["usdt"] = @ - amount,
                                                 !["legacy"] = @ + amount - fee]
    BY DEF SendsBack
  <2>2. fee \in Nat
    BY AmountsAssumption
  <2> HIDE DEF amount
  <2> QED BY <2>1, <2>2, <1>t DEF Wallets
<1>a. /\ target * SubPerMicro - tol <= amount /\ amount \in Nat
      /\ 2 * source <= 2 * (target * SubPerMicro) + SubPerMicro
  <2>1. SubPerMicro \in Nat /\ Tolerance \in Nat
    BY SubPerMicroAssumption, AmountsAssumption
  <2>2. (target - Tolerance) * SubPerMicro <= amount /\ amount \in Nat
    BY SMT, <1>7, <1>8, <2>1, MultiplesOrdered
  <2>3. (target - Tolerance) * SubPerMicro = target * SubPerMicro - tol
    BY SMT, <1>7, <2>1
  <2>4. 2 * source <= 2 * (toMicrosRounded(source) * SubPerMicro) + SubPerMicro
    BY <1>7, HalfMicro
  <2> QED BY <2>2, <2>3, <2>4, <1>7
<1>b. /\ SubPerMicro \in Nat /\ tol \in Nat /\ fees \in Int /\ owed \in Int /\ Gap \in Int
      /\ bal["usdt"] \in Nat /\ Gap = owed - bal["legacy"] - bal["usdt"]
      /\ target * SubPerMicro \in Nat
  <2>1. target * SubPerMicro \in Nat
    BY SMT, <1>7, SubPerMicroAssumption
  <2> QED BY <2>1, GainTypes
<1>c. Gap' = Gap + fee
  <2> HIDE DEF amount
  <2> QED BY SMT, <1>1, <1>6, <1>9, <1>a, <1>b DEF Gap, holdings
<1> DEFINE tS == target * SubPerMicro
<1>d. bal'["usdt"] <= owed - source + tol + 2 * SubPerMicro
  <2>1. tS - tol <= amount /\ amount \in Nat /\ tS \in Nat /\ 2 * source <= 2 * tS + SubPerMicro
    BY <1>a, <1>b
  <2> HIDE DEF amount, tol, tS, source
  <2> QED BY SMT, <1>6, <1>7, <1>9, <1>b, <2>1
<1>e. /\ 0 <= 2 * Gap' + 3 * SubPerMicro
      /\ 0 <= Gap' + tol + 3 * SubPerMicro
      /\ 0 <= Gap => 0 <= Gap'
      /\ 2 * fees <= 2 * Gap + 3 * SubPerMicro => 2 * fees <= 2 * Gap' + 3 * SubPerMicro
  <2> HIDE DEF tol, fees
  <2> QED BY SMT, <1>6, <1>b, <1>c
<1>f. (StartsFrom(owed - mig.sourceBalance))'
  BY <1>1, <1>4, <1>7 DEF GainStep, GainBounds, StartsFrom
<1> HIDE DEF amount, tS
<1> QED BY <1>1, <1>3, <1>4, <1>5, <1>6, <1>d, <1>e, <1>f DEF GainBounds, tol, fees, source

\* The top-up, made once.
LEMMA TopsUpGain ==
    ASSUME NEW w \in Workers, GainStep(w), TopsUp(w)
    PROVE  GainBounds'
<1>t. TypeOK /\ Trail /\ bal \in [Wallets -> Nat] /\ "shortfall" \in Purposes
  BY DEF GainStep, WholeStep, IInv, TypeOK, Purposes
<1>1. /\ proc[w].pc = "pay_shortfall" /\ mig' = mig /\ owed' = owed
      /\ Paid(proc[w].doc.shortfallInvoice)
      /\ proc[w].doc.shortfallInvoice \in Issued(invoices, "shortfall")
  BY <1>t, PayingIssued DEF GainStep, WholeStep, TopsUp
<1>2. /\ (paidFor("shortfall"))' # {}
      /\ (paidFor("move"))' = paidFor("move") /\ (paidFor("fee"))' = paidFor("fee")
      /\ (paidFor("reverse"))' = paidFor("reverse")
  <2>1. /\ (paidFor("shortfall"))' # {}
        /\ \A kind \in Purposes \ {"shortfall"} : (paidFor(kind))' = paidFor(kind)
    BY <1>1, <1>t, PaidAdds
  <2> QED BY <2>1 DEF Purposes
<1> DEFINE source == mig.sourceBalance
           amount == proc[w].amount * SubPerMicro
           tol == Tolerance * SubPerMicro
<1>3. paidFor("reverse") # {} /\ proc[w].amount = legacyShortfallUsdtMicros(source, bal["legacy"])
  <2>1. /\ mig.rollbackTransactionId # NoInvoice
        /\ proc[w].amount = legacyShortfallUsdtMicros(source, bal["legacy"])
    BY <1>1 DEF GainStep, PurseOK
  <2> QED BY <2>1, <1>t DEF Trail, DocOK, PaidOf, paidFor
<1>4. /\ paidFor("move") # {} /\ mig.rollbackPointerRestored /\ mig.destinationAmount # 0
      /\ bal["usdt"] <= owed - source + tol + 2 * SubPerMicro
      /\ 0 <= Gap + tol + 3 * SubPerMicro
  BY <1>3 DEF GainStep, GainBounds
<1>5. source \in Nat /\ source # Undefined
  <2>1. source # Undefined
    BY <1>4 DEF GainStep, WholeStep, WholeInv
  <2> QED BY <2>1, <1>t DEF TypeOK, Documents, Amounts
<1>b. /\ SubPerMicro \in Nat /\ tol \in Nat /\ owed \in Int /\ bal["legacy"] \in Nat
      /\ bal["usdt"] \in Nat /\ Gap = owed - bal["legacy"] - bal["usdt"]
  BY GainTypes
<1>6. amount \in Nat /\ (amount = 0 \/ bal["legacy"] + amount <= source + SubPerMicro)
  BY <1>3, <1>5, <1>b, TopUpWithin
<1>7. PICK fee \in Nat : /\ fee <= amount /\ bal'["usdt"] = bal["usdt"]
                         /\ bal'["legacy"] = bal["legacy"] + amount - fee
  <2>1. PICK fee \in LnFees : fee <= amount /\ bal' = [bal EXCEPT !["legacy"] = @ + amount - fee]
    BY DEF TopsUp
  <2>2. fee \in Nat
    BY AmountsAssumption
  <2> HIDE DEF amount
  <2> QED BY <2>1, <2>2, <1>t DEF Wallets
<1>8. 0 <= Gap' + tol + 3 * SubPerMicro
  <2> HIDE DEF amount, tol, source
  <2>1. Gap' = Gap - amount + fee
    BY SMT, <1>1, <1>6, <1>7, <1>b DEF Gap, holdings
  <2> QED BY SMT, <2>1, <1>4, <1>5, <1>6, <1>7, <1>b
<1>9. (StartsFrom(owed - mig.sourceBalance))'
  BY <1>1, <1>4, <1>5 DEF GainStep, GainBounds, StartsFrom
<1> HIDE DEF amount
<1> QED BY <1>1, <1>2, <1>3, <1>4, <1>7, <1>8, <1>9 DEF GainBounds, tol, source

\* What the executing process is about to pay after its step.
LEMMA PurseKept ==
    ASSUME NEW w \in Workers, GainStep(w), PurseStep(w)
    PROVE  PurseOK(proc[w])'
<1>1. /\ proc[w].doc.destinationAmount = mig.destinationAmount
      /\ proc[w].doc.sourceBalance = mig.sourceBalance
      /\ proc[w].doc.rollbackTransactionId = mig.rollbackTransactionId
      /\ forwardMovedFunds(proc[w].doc) <=> forwardMovedFunds(mig)
  BY DEF GainStep, WholeStep, SameContents, forwardMovedFunds
<1>2. forwardMovedFunds(mig) => mig.destinationAmount # 0
  BY MovedIsPaid DEF GainStep, WholeStep, IInv, GainBounds
<1>3. (proc[w].pc = "verify" /\ forwardMovedFunds(mig) => mig.rollbackTransactionId # NoInvoice)'
  BY <1>1, <1>2 DEF PurseStep, forwardMovedFunds
<1>4. (proc[w].pc \in {"reverse_invoice", "pay_reverse"} =>
           proc[w].amount \in Nat /\ mig.destinationAmount - Tolerance <= proc[w].amount)'
  BY <1>1 DEF PurseStep, GainStep, PurseOK
<1>5. (proc[w].pc \in {"shortfall_invoice", "pay_shortfall"} =>
           /\ mig.rollbackTransactionId # NoInvoice
           /\ proc[w].amount = legacyShortfallUsdtMicros(mig.sourceBalance, bal["legacy"]))'
  BY <1>1 DEF PurseStep, GainStep, PurseOK, legacyShortfallUsdtMicros
<1> QED BY <1>3, <1>4, <1>5 DEF PurseOK

\* GainInv is inductive, given the lock, the amounts and what is paid at most once.
LEMMA NextGain ==
    /\ IInv /\ AmountsInv /\ MoveInv /\ WholeInv /\ FeeInv /\ UndoInv /\ GainInv
    /\ [Next]_vars
    => GainInv'
<1> SUFFICES ASSUME IInv, AmountsInv, MoveInv, WholeInv, FeeInv, UndoInv, GainInv, [Next]_vars,
                    Undisturbed
             PROVE  GainInv'
  BY DEF GainInv, Undisturbed
<1>t. TypeOK /\ TypeOK' /\ Trail /\ OneWay /\ UpToDate /\ LockInv /\ MoneyTypes /\ MoneyTypes'
  BY NextType, MoneyTyped DEF IInv
<1>u. StaleMeansDead /\ DepositWallets = {}
  BY DEF Undisturbed
<1>i. /\ left["spend"] = 0 /\ user = "none" /\ GainBounds
      /\ \A v \in Workers : PurseOK(proc[v])
  BY DEF GainInv
<1>j. left'["spend"] = 0 /\ user' = "none"
  BY <1>i, <1>t, NothingHappens, NobodySpends DEF Events
<1>l. \A v \in Workers : proc'[v].pc \in Executing => mig'.lockedBy = v
  BY <1>t, <1>u, NextLock DEF LockInv
<1>n. ASSUME NEW v \in Workers, proc'[v].pc \notin Executing PROVE PurseOK(proc[v])'
  <2>1. TypeOK'
    BY <1>t
  <2>2. proc'[v].pc \in {"idle", "listed"}
    BY <1>n, <2>1 DEF TypeOK, Processes, Executing
  <2> QED BY <2>2 DEF PurseOK
<1>1. ASSUME NEW w \in Workers, ForwardStep(w) \/ RollbackStep(w) \/ StepFails(w)
      PROVE  GainBounds' /\ \A v \in Workers : PurseOK(proc[v])'
  <2>1. Local(w) /\ BookStep(w) /\ Deed(w) /\ PurseStep(w)
    BY <1>1, <1>t, InnerEffect, InnerDeed, InnerPurse
  <2>2. GainStep(w)
    <3>1. proc[w].pc \in Executing /\ SameContents(proc[w].doc, mig)
      BY <2>1, <1>t, <1>u DEF Local, UpToDate
    <3>2. AmountsOK(mig) /\ AmountsOK(proc[w].doc)
      BY <1>u DEF AmountsInv
    <3>3. /\ owed' = owed
          /\ mig.rollbackPointerRestored => mig'.rollbackPointerRestored
          /\ \/ mig'.balanceMoveTransactionId = mig.balanceMoveTransactionId
             \/ mig.status = "invoice_created"
      BY <2>1, <1>t, <1>u, RestoredStays, MoveRecorded DEF Deed
    <3>4. WholeStep(w)
      BY <3>1, <3>2, <3>3, <1>t, <1>u DEF WholeStep
    <3> QED BY <3>4, <1>i DEF GainStep
  <2>3. ASSUME Rests(w) PROVE GainBounds'
    <3>1. \A kind \in Purposes : (paidFor(kind))' = paidFor(kind)
      BY <2>3, QuietFor DEF Rests
    <3>2. SameAmounts(mig', mig) /\ bal' = bal /\ owed' = owed
          /\ (mig.rollbackPointerRestored => mig'.rollbackPointerRestored)
      BY <2>2, <2>3 DEF Rests, GainStep, WholeStep
    <3>3. GainBounds'
      BY <3>1, <3>2, <1>i, GainKept
    <3> QED BY <3>3
  <2>4. GainBounds'
    BY <2>1, <2>2, <2>3, ReadsBalanceGain, ReadsFeeGain, MovesGain, ReimbursesGain,
       SendsBackGain, TopsUpGain DEF Deed
  <2>5. PurseOK(proc[w])'
    BY <2>1, <2>2, PurseKept
  <2>6. \A v \in Workers \ {w} : proc'[v].pc \notin Executing
    BY <2>1, <1>l DEF Local
  <2> QED BY <2>4, <2>5, <2>6, <1>n
<1>2. ASSUME \/ \E w \in Workers : RunnerStep(w) \/ Crash(w)
             \/ Environment \/ UNCHANGED vars
      PROVE  GainBounds' /\ \A v \in Workers : PurseOK(proc[v])'
  <2>1. Bookless /\ SameContents(mig', mig) /\ bal' = bal /\ owed' = owed
    BY <1>2, <1>t, <1>u, <1>i, OuterBookless, OuterContents, OuterStill
  <2>2. \A kind \in Purposes : (paidFor(kind))' = paidFor(kind)
    BY <2>1, QuietFor DEF Bookless
  <2>3. /\ SameAmounts(mig', mig)
        /\ mig'.rollbackPointerRestored = mig.rollbackPointerRestored
        /\ mig'.rollbackTransactionId = mig.rollbackTransactionId
        /\ forwardMovedFunds(mig') <=> forwardMovedFunds(mig)
    BY <2>1 DEF SameContents, SameAmounts, forwardMovedFunds
  <2>4. GainBounds'
    BY <2>1, <2>2, <2>3, <1>i, GainKept
  <2>5. ASSUME NEW v \in Workers PROVE PurseOK(proc[v])'
    <3>1. \/ proc'[v].pc = "execute"
          \/ proc'[v].amount = proc[v].amount /\ proc'[v].pc = proc[v].pc
          \/ proc'[v].pc \notin Executing
      <4>1. IdleProcess.pc \notin Executing
        BY DEF IdleProcess, Executing
      <4> QED BY <1>2, <1>t, <4>1, OuterProcesses
    <3>2. CASE proc'[v].pc = "execute"
      BY <3>2 DEF PurseOK
    <3>3. CASE proc'[v].amount = proc[v].amount /\ proc'[v].pc = proc[v].pc
      <4>1. PurseOK(proc[v]) /\ mig'.destinationAmount = mig.destinationAmount
            /\ mig'.sourceBalance = mig.sourceBalance
        BY <1>i, <2>3 DEF SameAmounts
      <4> QED BY <4>1, <2>1, <2>3, <3>3 DEF PurseOK, legacyShortfallUsdtMicros
    <3> QED BY <3>1, <3>2, <3>3, <1>n
  <2> QED BY <2>4, <2>5
<1>3. GainBounds' /\ \A v \in Workers : PurseOK(proc[v])'
  BY <1>1, <1>2 DEF Next, WorkerStep
<1> QED BY <1>3, <1>j DEF GainInv

\* A migration gives the user no more than they are owed but for the tolerance of
\* the rollback and three micros of rounding, over the move, its fee, the payment
\* back and the top-up, and every failure, crash, lost answer, retry and request
\* between them.  It takes the lock, a user who neither pays nor is paid
\* meanwhile, and that no invoice expires: a fee is then repaid at most once.
THEOREM ExposureIsBounded ==
    ASSUME Undisturbed
    PROVE  Spec => []TreasuryExposure
<1>1. Init => GainInv
  <2> SUFFICES ASSUME Init PROVE GainInv
    OBVIOUS
  <2>1. /\ mig.sourceBalance = Undefined /\ mig.feeAmount = Undefined
        /\ paidFor("move") = {} /\ paidFor("fee") = {}
        /\ paidFor("reverse") = {} /\ paidFor("shortfall") = {}
    BY DEF Init, UpsertedDocument, paidFor
  <2>2. Gap = 0
    BY SMT, InitType DEF Init, Gap, holdings, TypeOK, Wallets
  <2>3. SubPerMicro \in Nat /\ Tolerance * SubPerMicro \in Nat
    BY SMT, SubPerMicroAssumption, AmountsAssumption
  <2>4. /\ 0 <= 2 * Gap + 3 * SubPerMicro /\ 0 <= Gap
        /\ 0 <= Gap + Tolerance * SubPerMicro + 3 * SubPerMicro
    BY SMT, <2>2, <2>3
  <2>5. GainBounds
    BY <2>1, <2>4 DEF GainBounds
  <2>6. left["spend"] = 0 /\ user = "none" /\ \A w \in Workers : proc[w].pc = "idle"
    BY DEF Init, Undisturbed, IdleProcess
  <2>7. \A w \in Workers : PurseOK(proc[w])
    BY <2>6 DEF PurseOK
  <2> QED BY <2>5, <2>6, <2>7 DEF GainInv
<1>2. IInv /\ FeeInv /\ GainInv => TreasuryExposure
  <2> SUFFICES ASSUME IInv, FeeInv, GainInv PROVE TreasuryExposure
    OBVIOUS
  <2>1. repaidFees = 0
    <3>1. paidFor("fee") \subseteq {mig.feeInvoice}
      BY DEF FeeInv, Undisturbed
    <3>2. Cardinality(paidFor("fee")) \in Nat /\ Cardinality(paidFor("fee")) <= 1
      BY <3>1, AtMostOne
    <3> QED BY SMT, <3>2 DEF repaidFees
  <2> DEFINE tol == Tolerance * SubPerMicro
             bound == (Tolerance + 3) * SubPerMicro
  <2>2. bound = tol + 3 * SubPerMicro /\ tol \in Nat /\ SubPerMicro \in Nat
    BY SMT, SubPerMicroAssumption, AmountsAssumption
  <2>3. owed \in Int /\ bal["legacy"] \in Nat /\ bal["usdt"] \in Nat
    BY MoneyTyped DEF IInv, MoneyTypes
  <2>4. 0 <= Gap + tol + 3 * SubPerMicro
    BY DEF GainInv, GainBounds
  <2> HIDE DEF tol, bound
  <2>5. holdings <= owed + bound + repaidFees
    BY SMT, <2>1, <2>2, <2>3, <2>4 DEF Gap, holdings
  <2> QED BY <2>5 DEF TreasuryExposure, bound
<1> QED BY <1>1, <1>2, NextGain, UndoInvariant, IInvInvariant, MoveInvariant,
           WholeInvariant, PTL DEF Spec

=============================================================================
