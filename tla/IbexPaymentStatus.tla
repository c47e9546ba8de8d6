-------------------------- MODULE IbexPaymentStatus --------------------------
(***************************************************************************)
(* How the answers of IBEX's two pay calls, payInvoiceV2 and payToLnurl,   *)
(* are read (services/ibex/payment-status.ts). An answer reports the state *)
(* of the payment in up to three fields, of which any may be unset.        *)
(***************************************************************************)
EXTENDS Naturals

\* 0 is both "unknown" and an unset field.
IbexPaymentStatusId == [Unknown |-> 0, InFlight |-> 1, Succeeded |-> 2, Failed |-> 3]

RECOGNISED_IDS == {1, 2, 3}

PaymentSendStatus == {"success", "failure", "pending", "already_paid"}

\* A failure code is unset, an explicit zero or malformed, or it names a
\* failure; a settle date is unset or one of the zero dates, or it is a date.
FailureCodes == {"no_failure", "failure"}

SettleDates == {"not_settled", "settled"}

PayInvoiceResponses ==
    [status : 0 .. 3, failureReason : FailureCodes,
     paymentStatus : 0 .. 3, statusId : 0 .. 3, failureId : FailureCodes]

LnurlResponses ==
    [paymentStatus : 0 .. 3, statusId : 0 .. 3, settleDateUtc : SettleDates]

statusFromField(id) ==
    CASE id = IbexPaymentStatusId.InFlight  -> "pending"
      [] id = IbexPaymentStatusId.Succeeded -> "success"
      [] id = IbexPaymentStatusId.Failed    -> "failure"
      [] OTHER                              -> "undefined"

reportsFailureCode(code) == code = "failure"

hasSettleDate(date) == date = "settled"

\* The first of the two payment-level fields that says anything.
PaymentLevel(resp) ==
    statusFromField(IF resp.paymentStatus \in RECOGNISED_IDS
                    THEN resp.paymentStatus ELSE resp.statusId)

-----------------------------------------------------------------------------

\* Mutant: a success reported by the top-level field alone is believed.
TrustTopLevel(resp) ==
    IF PaymentLevel(resp) # "undefined" THEN PaymentLevel(resp)
    ELSE statusFromField(resp.status)

\* "unconfirmed" stands for the error UnconfirmedIbexPayment.
paymentSendStatusFromIbex(resp) ==
    LET topLevel == statusFromField(resp.status)
        corroboratedFailure == \/ reportsFailureCode(resp.failureReason)
                               \/ reportsFailureCode(resp.failureId)
    IN  IF PaymentLevel(resp) # "undefined" THEN PaymentLevel(resp)
        ELSE IF topLevel = "pending" \/ (topLevel = "failure" /\ corroboratedFailure)
        THEN topLevel
        ELSE "unconfirmed"

paymentSendStatusFromIbexLnurlPay(resp) ==
    IF PaymentLevel(resp) # "undefined" THEN PaymentLevel(resp)
    ELSE IF hasSettleDate(resp.settleDateUtc) THEN "success" ELSE "unconfirmed"

OrPending(status) == IF status \in PaymentSendStatus THEN status ELSE "pending"

paymentSendStatusOrPending(resp) == OrPending(paymentSendStatusFromIbex(resp))

lnurlPaymentSendStatusOrPending(resp) == OrPending(paymentSendStatusFromIbexLnurlPay(resp))

-----------------------------------------------------------------------------

\* What IBEX has done with a send when it answers.
Fates == {"in_flight", "succeeded", "failed"}

FateId == [in_flight |-> 1, succeeded |-> 2, failed |-> 3]

\* External: the payment-level fields, when they say anything, and a failure
\* that comes with a code are true; the top-level field alone may be wrong.
Describes(resp, fate) ==
    /\ resp.paymentStatus \in RECOGNISED_IDS => resp.paymentStatus = FateId[fate]
    /\ resp.statusId \in RECOGNISED_IDS => resp.statusId = FateId[fate]
    /\ \/ reportsFailureCode(resp.failureReason)
       \/ reportsFailureCode(resp.failureId)
       => fate = "failed"

\* External: the same for payToLnurl, whose payment-level settle date is set
\* only on a settled payment.
DescribesLnurl(resp, fate) ==
    /\ resp.paymentStatus \in RECOGNISED_IDS => resp.paymentStatus = FateId[fate]
    /\ resp.statusId \in RECOGNISED_IDS => resp.statusId = FateId[fate]
    /\ hasSettleDate(resp.settleDateUtc) => fate = "succeeded"

\* The statuses a caller can be given, with what has happened at IBEX.
InvoiceAnswers ==
    {a \in PaymentSendStatus \X Fates :
        \E resp \in PayInvoiceResponses :
            Describes(resp, a[2]) /\ paymentSendStatusOrPending(resp) = a[1]}

LnurlAnswers ==
    {a \in PaymentSendStatus \X Fates :
        \E resp \in LnurlResponses :
            DescribesLnurl(resp, a[2]) /\ lnurlPaymentSendStatusOrPending(resp) = a[1]}

=============================================================================
