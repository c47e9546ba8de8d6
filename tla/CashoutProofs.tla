---------------------------- MODULE CashoutProofs ----------------------------
(***************************************************************************)
(* Proofs about Cashout, for any offers, executions and faults: the        *)
(* inductive invariant CashoutInv, and what follows from it.               *)
(***************************************************************************)
EXTENDS Cashout, TLAPS

-----------------------------------------------------------------------------
\* IBEX's answers.

\* paymentSendStatusOrPending says success or failure only of a payment that has
\* succeeded or failed, whatever the fields of the answer.
LEMMA AnswersAreTrue ==
    ASSUME NEW a \in InvoiceAnswers
    PROVE  /\ a[1] \in {"success", "failure", "pending"} /\ a[2] \in Fates
           /\ a[1] = "success" => a[2] = "succeeded"
           /\ a[1] = "failure" => a[2] = "failed"
<1>1. PICK resp \in PayInvoiceResponses :
        Describes(resp, a[2]) /\ paymentSendStatusOrPending(resp) = a[1]
  BY DEF InvoiceAnswers
<1>2. a[2] \in Fates
  BY DEF InvoiceAnswers
<1> DEFINE level == PaymentLevel(resp)
           status == paymentSendStatusFromIbex(resp)
           failed == reportsFailureCode(resp.failureReason) \/ reportsFailureCode(resp.failureId)
<1>3. /\ level \in {"pending", "success", "failure", "undefined"}
      /\ level = "success" => a[2] = "succeeded"
      /\ level = "failure" => a[2] = "failed"
  BY <1>1, <1>2 DEF PaymentLevel, statusFromField, IbexPaymentStatusId, RECOGNISED_IDS,
                    Describes, FateId, Fates, PayInvoiceResponses
<1>4. failed => a[2] = "failed"
  BY <1>1 DEF Describes
<1>5. \/ level # "undefined" /\ status = level
      \/ level = "undefined" /\ status \in {"pending", "unconfirmed"}
      \/ level = "undefined" /\ status = "failure" /\ failed
  <2>1. statusFromField(resp.status) \in {"pending", "success", "failure", "undefined"}
    BY DEF statusFromField
  <2> QED
    BY <1>3, <2>1 DEF paymentSendStatusFromIbex
<1>6. a[1] = IF status \in PaymentSendStatus THEN status ELSE "pending"
  BY <1>1 DEF paymentSendStatusOrPending, OrPending
<1> HIDE DEF level, status, failed
<1> QED
  BY <1>2, <1>3, <1>4, <1>5, <1>6 DEF PaymentSendStatus

\* So with an error, also one in place of an answer that was lost.
LEMMA PaymentAnswers ==
    ASSUME NEW a \in Answers \cup LostAnswers
    PROVE  /\ a[1] \in {"success", "failure", "pending", "error"} /\ a[2] \in Fates
           /\ a[1] = "success" => a[2] = "succeeded"
           /\ a[1] = "failure" => a[2] = "failed"
BY AnswersAreTrue DEF Answers, LostAnswers, Fates

-----------------------------------------------------------------------------
\* The steps.

\* What leaves the calls alone: the offer's creation and end, and the cutover.
Aside ==
    \/ \E o \in Offers : createOffer(o) \/ persistOffer(o) \/ InvoiceExpires(o) \/ OfferRunsOut(o)
    \/ CashMoves

\* Such a step keeps the invariant.
LEMMA AsideKeeps == ASSUME CashoutInv, Aside PROVE CashoutInv'
<1>1. UNCHANGED <<funds, pc, of, cashout, answer, fate, events, faults>>
  BY DEF Aside, createOffer, persistOffer, InvoiceExpires, OfferRunsOut, CashMoves
<1>2. TypeOK'
  BY <1>1 DEF CashoutInv, TypeOK, Aside, createOffer, persistOffer, InvoiceExpires,
              OfferRunsOut, CashMoves, Wallets
<1>3. AnswerInv' /\ CallInv' /\ EventInv' /\ InvoiceInv'
  BY <1>1 DEF CashoutInv, AnswerInv, CallInv, EventInv, InvoiceInv, TakesFunds
<1> QED BY <1>2, <1>3 DEF CashoutInv

\* executeCashout up to the event that announces it.
LEMMA BeginKeeps ==
    ASSUME CashoutInv, NEW x \in Executions, NEW o \in Offers, executeCashout(x, o)
    PROVE  CashoutInv'
<1> USE DEF CashoutInv, TypeOK, executeCashout, GoTo, Raise, offerVars
<1>1. TypeOK'
  BY DEF Running
<1>2. AnswerInv' /\ CallInv'
  BY DEF AnswerInv, CallInv
<1>3. EventInv'
  BY DEF EventInv, Running, TerminalEvents, FailedSteps
<1>4. InvoiceInv'
  <2>1. ~TakesFunds(fate[x])
    BY DEF CallInv, TakesFunds
  <2> QED BY <2>1 DEF InvoiceInv, TakesFunds
<1> QED BY <1>1, <1>2, <1>3, <1>4

\* The validation, and the draft in ERPNext.
LEMMA PrepareKeeps ==
    ASSUME CashoutInv, NEW x \in Executions, ValidOffer(x) \/ draftCashout(x)
    PROVE  CashoutInv'
<1> USE DEF CashoutInv, TypeOK, ValidOffer, draftCashout, GoTo, Raise, Fail, Fault, offerVars
<1>1. TypeOK'
  BY BoundsAssumption DEF Running, TerminalEvents, FailedSteps
<1>2. AnswerInv' /\ InvoiceInv'
  BY DEF AnswerInv, InvoiceInv, TakesFunds
<1>3. CallInv'
  BY DEF CallInv
<1>4. EventInv'
  BY DEF EventInv, CallInv, Running, TerminalEvents, FailedSteps
<1> QED BY <1>1, <1>2, <1>3, <1>4

\* The payment: what the call is told is true, and IBEX pays an invoice once.
LEMMA PayKeeps ==
    ASSUME CashoutInv, NEW x \in Executions, payInvoice(x)
    PROVE  CashoutInv'
<1> USE DEF CashoutInv, TypeOK
<1>1. PICK a \in Answers \cup LostAnswers :
        /\ TakesFunds(a[2]) => Payable(of[x])
        /\ IF a \in LostAnswers THEN Fault ELSE UNCHANGED faults
        /\ answer' = [answer EXCEPT ![x] = a[1]]
        /\ fate' = [fate EXCEPT ![x] = a[2]]
        /\ funds' = IF TakesFunds(a[2]) THEN funds - 1 ELSE funds
        /\ IF a[1] \in {"error", "failure"}
           THEN Fail(x, "payInvoice")
           ELSE GoTo(x, "submit") /\ UNCHANGED events
  BY DEF payInvoice
<1>2. pc[x] = "pay" /\ UNCHANGED <<offer, expired, cash, of, cashout>>
  BY DEF payInvoice, offerVars
<1>3. /\ a[1] \in {"success", "failure", "pending", "error"} /\ a[2] \in Fates
      /\ a[1] = "success" => a[2] = "succeeded"
      /\ a[1] = "failure" => a[2] = "failed"
  BY PaymentAnswers
<1>4. funds' \in Nat
  BY <1>1, <1>2 DEF Payable
<1>5. TypeOK'
  BY <1>1, <1>2, <1>3, <1>4, BoundsAssumption
     DEF Fault, Fail, GoTo, Raise, Running, TerminalEvents, FailedSteps, PaymentSendStatus
<1>6. AnswerInv'
  BY <1>1, <1>3 DEF AnswerInv
<1>7. CallInv'
  BY <1>1, <1>2, <1>3 DEF CallInv, Fail, GoTo
<1>8. EventInv'
  BY <1>1, <1>2, <1>3 DEF EventInv, CallInv, Fail, GoTo, Raise, Running, TerminalEvents, FailedSteps
<1>9. InvoiceInv'
  <2>1. CASE TakesFunds(a[2])
    <3>1. \A y \in Executions : of[y] = of[x] => ~TakesFunds(fate[y])
      BY <2>1, <1>1 DEF Payable, TakesFunds
    <3> QED BY <3>1, <1>1, <1>2 DEF InvoiceInv
  <2>2. CASE ~TakesFunds(a[2])
    BY <2>2, <1>1, <1>2 DEF InvoiceInv
  <2> QED BY <2>1, <2>2
<1> QED BY <1>5, <1>6, <1>7, <1>8, <1>9

\* The submission of the draft, and the terminal event.
LEMMA SubmitKeeps ==
    ASSUME CashoutInv, NEW x \in Executions, submitCashout(x)
    PROVE  CashoutInv'
<1> USE DEF CashoutInv, TypeOK, submitCashout, ErpSubmits, GoTo, Raise, Fail, Fault, offerVars
<1>1. TypeOK'
  BY BoundsAssumption DEF Running, TerminalEvents, FailedSteps
<1>2. AnswerInv' /\ InvoiceInv'
  BY DEF AnswerInv, InvoiceInv, TakesFunds
<1>3. CallInv'
  BY DEF CallInv
<1>4. EventInv'
  BY DEF EventInv, CallInv, Running, TerminalEvents, FailedSteps
<1> QED BY <1>1, <1>2, <1>3, <1>4

\* A payment under way settles or fails; a call that was told it had gone well is
\* not concerned. A crash leaves everything else as it is.
LEMMA OutsideKeeps ==
    ASSUME CashoutInv, NEW x \in Executions, PaymentSettles(x) \/ Crash(x)
    PROVE  CashoutInv'
<1> USE DEF CashoutInv, TypeOK, PaymentSettles, Crash, GoTo, Fault, offerVars
<1>1. TypeOK'
  BY BoundsAssumption DEF Running, Fates
<1>2. AnswerInv'
  BY DEF AnswerInv
<1>3. CallInv'
  BY DEF CallInv
<1>4. EventInv'
  BY DEF EventInv, Running
<1>5. InvoiceInv'
  BY DEF InvoiceInv, TakesFunds
<1> QED BY <1>1, <1>2, <1>3, <1>4, <1>5

-----------------------------------------------------------------------------

\* What each call of executeCashout knows agrees with what has happened, however
\* the calls, the payments and the cutover interleave.
THEOREM CashoutInvHolds == Spec => []CashoutInv
<1>1. Init => CashoutInv
  BY BoundsAssumption DEF Init, CashoutInv, TypeOK, AnswerInv, CallInv, EventInv, InvoiceInv,
     TakesFunds, Wallets, Running
<1>2. CashoutInv /\ [Next]_vars => CashoutInv'
  <2> SUFFICES ASSUME CashoutInv, [Next]_vars PROVE CashoutInv'
    OBVIOUS
  <2>1. CASE UNCHANGED vars
    BY <2>1 DEF vars, CashoutInv, TypeOK, AnswerInv, CallInv, EventInv, InvoiceInv, TakesFunds
  <2>2. CASE Next
    BY <2>2, AsideKeeps, BeginKeeps, PrepareKeeps, PayKeeps, SubmitKeeps, OutsideKeeps
       DEF Next, Aside, Execute
  <2> QED BY <2>1, <2>2
<1> QED BY <1>1, <1>2, PTL DEF Spec

\* No cashout is submitted on a payment that IBEX reported as failed, or that was
\* never made, unless its answer left that open.
THEOREM PayoutsAreBacked == Spec => []PayoutIsBacked
<1>1. CashoutInv => PayoutIsBacked
  BY DEF CashoutInv, AnswerInv, CallInv, PayoutIsBacked, TakesFunds
<1> QED BY <1>1, CashoutInvHolds, PTL

\* However often an offer is executed, it is paid out once, unless an answer of
\* IBEX's left a payment open.
THEOREM OfferIsPaidOutOnce == Spec => []PaidOutOnce
<1>1. CashoutInv => PaidOutOnce
  BY DEF CashoutInv, AnswerInv, CallInv, InvoiceInv, PaidOutOnce, TakesFunds
<1> QED BY <1>1, CashoutInvHolds, PTL

\* Each announced cashout that is not cut off ends with one terminal event, and a
\* true one.
THEOREM TerminalEventsAreTrue == Spec => []OneTrueTerminalEvent
<1>1. CashoutInv => OneTrueTerminalEvent
  <2> SUFFICES ASSUME CashoutInv, NEW x \in Executions
               PROVE  /\ pc[x] = "done" /\ "initiated" \in events[x]
                           => \E e \in TerminalEvents : events[x] \cap TerminalEvents = {e}
                      /\ "succeeded" \in events[x] => cashout[x] = "submitted"
                      /\ "payInvoice" \in events[x] => fate[x] = "failed" \/ answer[x] = "error"
                      /\ "submitCashout" \in events[x] => TakesFunds(fate[x]) \/ answer[x] = "pending"
    BY DEF OneTrueTerminalEvent
  <2>1. ASSUME pc[x] = "done", "initiated" \in events[x]
        PROVE  \E e \in TerminalEvents : events[x] \cap TerminalEvents = {e}
    <3>1. PICK e \in TerminalEvents : events[x] = {"initiated", e}
      BY <2>1 DEF CashoutInv, EventInv
    <3>2. "initiated" \notin TerminalEvents
      BY DEF TerminalEvents, FailedSteps
    <3> QED BY <3>1, <3>2
  <2>2. /\ "succeeded" \in events[x] => cashout[x] = "submitted"
        /\ "payInvoice" \in events[x] => fate[x] = "failed" \/ answer[x] = "error"
        /\ "submitCashout" \in events[x] => TakesFunds(fate[x]) \/ answer[x] = "pending"
    BY DEF CashoutInv, EventInv, AnswerInv, TakesFunds
  <2> QED BY <2>1, <2>2
<1> QED BY <1>1, CashoutInvHolds, PTL

=============================================================================
