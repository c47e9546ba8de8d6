------------------------------- MODULE Cashout -------------------------------
(***************************************************************************)
(* A cashout: the user pays a lightning invoice of Flash's out of a wallet *)
(* of theirs and is paid out to a bank account. createOffer chooses the    *)
(* wallet, takes out the invoice and keeps the offer in redis;             *)
(* executeCashout validates it again, drafts a Cashout in ERPNext, pays    *)
(* the invoice at IBEX and submits the draft, upon which the payout is     *)
(* made. An offer is not used up: until it runs out it may be executed any *)
(* number of times, concurrently.                                          *)
(*                                                                         *)
(* All offers are of one account and of the same amount. Which of its      *)
(* wallets the cutover's guard selects is the subject of CutoverLifecycle; *)
(* here it may give any answer, and the cash may move between the wallets  *)
(* at any time.                                                            *)
(***************************************************************************)
EXTENDS IbexPaymentStatus

CONSTANTS
    Offers,       \* the offers that are created
    Executions,   \* the calls of executeCashout
    NoOffer,      \* the offer of a call that has not been made
    Funds,        \* the cash of the account, in amounts of an offer
    MaxFaults     \* bound on crashes and lost answers

ASSUME NoOfferAssumption == NoOffer \notin Offers
ASSUME BoundsAssumption == Funds \in Nat /\ MaxFaults \in Nat

VARIABLES
    offer,     \* each offer: where it is, and the wallet it debits
    expired,   \* the offers whose invoice has expired
    cash,      \* the wallet the account's cash is in
    funds,     \* how much there is
    pc,        \* where each call of executeCashout is
    of,        \* the offer it executes
    cashout,   \* the Cashout document it has drafted in ERPNext
    answer,    \* what it was told of its payment
    fate,      \* what has become of that payment at IBEX
    events,    \* the ops events it has raised, a failed one as the step that failed
    faults     \* the crashes and lost answers so far

vars == <<offer, expired, cash, funds, pc, of, cashout, answer, fate, events, faults>>

offerVars == <<offer, expired>>

-----------------------------------------------------------------------------

Wallets == {"legacy", "usdt"}

FailedSteps == {"validation", "draftCashout", "payInvoice", "submitCashout"}

TerminalEvents == {"succeeded"} \cup FailedSteps

Running == {"validate", "draft", "pay", "submit", "resubmit"}

TypeOK ==
    /\ offer \in [Offers -> [at : {"new", "invoiced", "stored", "gone"}, wallet : Wallets]]
    /\ expired \subseteq Offers
    /\ cash \in Wallets
    /\ funds \in Nat
    /\ pc \in [Executions -> Running \cup {"new", "done", "dead"}]
    /\ of \in [Executions -> Offers \cup {NoOffer}]
    /\ cashout \in [Executions -> {"none", "draft", "submitted"}]
    /\ answer \in [Executions -> PaymentSendStatus \cup {"none", "error"}]
    /\ fate \in [Executions -> Fates \cup {"none"}]
    /\ events \in [Executions -> SUBSET (TerminalEvents \cup {"initiated"})]
    /\ faults \in 0 .. MaxFaults

Init ==
    /\ offer = [o \in Offers |-> [at |-> "new", wallet |-> "legacy"]]
    /\ expired = {}
    /\ cash \in Wallets
    /\ funds = Funds
    /\ pc = [x \in Executions |-> "new"]
    /\ of = [x \in Executions |-> NoOffer]
    /\ cashout = [x \in Executions |-> "none"]
    /\ answer = [x \in Executions |-> "none"]
    /\ fate = [x \in Executions |-> "none"]
    /\ events = [x \in Executions |-> {}]
    /\ faults = 0

Fault == faults < MaxFaults /\ faults' = faults + 1

-----------------------------------------------------------------------------
\* The offer.

\* The guard selects a wallet, or refuses, and IBEX gives an invoice for it.
createOffer(o) ==
    /\ offer[o].at = "new"
    /\ \/ \E w \in Wallets : offer' = [offer EXCEPT ![o] = [at |-> "invoiced", wallet |-> w]]
       \/ offer' = [offer EXCEPT ![o].at = "gone"]
    /\ UNCHANGED <<expired, cash, funds, pc, of, cashout, answer, fate, events, faults>>

\* hasSufficientBalance and isBeforeExpiry; the validations of amounts, account
\* and bank account may refuse at any time.
Valid(o) == cash = offer[o].wallet /\ funds > 0 /\ o \notin expired

\* Bank account, rate and fee are settled, the offer is validated and stored.
persistOffer(o) ==
    /\ offer[o].at = "invoiced"
    /\ \/ Valid(o) /\ offer' = [offer EXCEPT ![o].at = "stored"]
       \/ offer' = [offer EXCEPT ![o].at = "gone"]
    /\ UNCHANGED <<expired, cash, funds, pc, of, cashout, answer, fate, events, faults>>

\* External: the invoice expires, and later redis drops the offer.
InvoiceExpires(o) ==
    /\ offer[o].at \in {"invoiced", "stored"} /\ o \notin expired
    /\ expired' = expired \cup {o}
    /\ UNCHANGED <<offer, cash, funds, pc, of, cashout, answer, fate, events, faults>>

OfferRunsOut(o) ==
    /\ offer[o].at = "stored" /\ o \in expired
    /\ offer' = [offer EXCEPT ![o].at = "gone"]
    /\ UNCHANGED <<expired, cash, funds, pc, of, cashout, answer, fate, events, faults>>

\* The cutover, or its rollback, moves the cash to the other wallet.
CashMoves ==
    /\ cash' \in Wallets \ {cash}
    /\ UNCHANGED <<offer, expired, funds, pc, of, cashout, answer, fate, events, faults>>

-----------------------------------------------------------------------------
\* The execution.

GoTo(x, where) == pc' = [pc EXCEPT ![x] = where]

Raise(x, event) == events' = [events EXCEPT ![x] = @ \cup {event}]

\* notifyStepFailed, and an error to the user.
Fail(x, failedStep) == GoTo(x, "done") /\ Raise(x, failedStep)

\* The offer is looked up; a missing offer, or a wallet that is not the
\* caller's, ends the call before anything is announced.
executeCashout(x, o) ==
    /\ pc[x] = "new"
    /\ of' = [of EXCEPT ![x] = o]
    /\ \/ offer[o].at = "stored" /\ GoTo(x, "validate") /\ Raise(x, "initiated")
       \/ GoTo(x, "done") /\ UNCHANGED events
    /\ UNCHANGED <<offerVars, cash, funds, cashout, answer, fate, faults>>

ValidOffer(x) ==
    /\ pc[x] = "validate"
    /\ \/ Valid(of[x]) /\ GoTo(x, "draft") /\ UNCHANGED events
       \/ Fail(x, "validation")
    /\ UNCHANGED <<offerVars, cash, funds, of, cashout, answer, fate, faults>>

\* The draft may have been made although the call failed.
draftCashout(x) ==
    /\ pc[x] = "draft"
    /\ \/ /\ cashout' = [cashout EXCEPT ![x] = "draft"]
          /\ GoTo(x, "pay")
          /\ UNCHANGED <<events, faults>>
       \/ Fail(x, "draftCashout") /\ UNCHANGED <<cashout, faults>>
       \/ /\ cashout' = [cashout EXCEPT ![x] = "draft"]
          /\ Fail(x, "draftCashout")
          /\ Fault
    /\ UNCHANGED <<offerVars, cash, funds, of, answer, fate>>

\* External: IBEX pays an invoice once, out of a wallet that has the funds. A
\* payment under way holds the funds, and the invoice, until it fails.
Payable(o) ==
    /\ o \notin expired
    /\ cash = offer[o].wallet /\ funds > 0
    /\ \A x \in Executions : of[x] = o => fate[x] \in {"none", "failed"}

TakesFunds(f) == f \in {"succeeded", "in_flight"}

\* What payInvoice may return, with what has happened: a 200 whose fields
\* describe it, or an IbexError for a payment that was not made ...
Answers == InvoiceAnswers \cup {<<"error", "failed">>}

\* ... or for one that was.
LostAnswers == {"error"} \X {"succeeded", "in_flight"}

\* Mutant: a 200 is a payment, whatever its fields say.
PayUnread(x) ==
    /\ pc[x] = "pay"
    /\ \E a \in Answers \cup LostAnswers :
         /\ TakesFunds(a[2]) => Payable(of[x])
         /\ IF a \in LostAnswers THEN Fault ELSE UNCHANGED faults
         /\ answer' = [answer EXCEPT ![x] = a[1]]
         /\ fate' = [fate EXCEPT ![x] = a[2]]
         /\ funds' = IF TakesFunds(a[2]) THEN funds - 1 ELSE funds
         /\ IF a[1] = "error"
            THEN Fail(x, "payInvoice")
            ELSE GoTo(x, "submit") /\ UNCHANGED events
    /\ UNCHANGED <<offerVars, cash, of, cashout>>

\* Only an error and a payment reported as failed are not submitted.
payInvoice(x) ==
    /\ pc[x] = "pay"
    /\ \E a \in Answers \cup LostAnswers :
         /\ TakesFunds(a[2]) => Payable(of[x])
         /\ IF a \in LostAnswers THEN Fault ELSE UNCHANGED faults
         /\ answer' = [answer EXCEPT ![x] = a[1]]
         /\ fate' = [fate EXCEPT ![x] = a[2]]
         /\ funds' = IF TakesFunds(a[2]) THEN funds - 1 ELSE funds
         /\ IF a[1] \in {"error", "failure"}
            THEN Fail(x, "payInvoice")
            ELSE GoTo(x, "submit") /\ UNCHANGED events
    /\ UNCHANGED <<offerVars, cash, of, cashout>>

\* External: a payment under way settles or fails.
PaymentSettles(x) ==
    /\ fate[x] = "in_flight"
    /\ \/ fate' = [fate EXCEPT ![x] = "succeeded"] /\ UNCHANGED funds
       \/ fate' = [fate EXCEPT ![x] = "failed"] /\ funds' = funds + 1
    /\ UNCHANGED <<offerVars, cash, pc, of, cashout, answer, events, faults>>

\* External: ERPNext submits the draft and says so, does not, or does and the
\* answer is lost.
ErpSubmits(x, answered) ==
    \/ answered /\ cashout' = [cashout EXCEPT ![x] = "submitted"] /\ UNCHANGED faults
    \/ ~answered /\ UNCHANGED <<cashout, faults>>
    \/ ~answered /\ cashout' = [cashout EXCEPT ![x] = "submitted"] /\ Fault

\* Mutant: the success is announced whether the draft was submitted or not.
AnnounceAnyway(x) ==
    /\ pc[x] \in {"submit", "resubmit"}
    /\ \/ ErpSubmits(x, TRUE) /\ GoTo(x, "done") /\ Raise(x, "succeeded")
       \/ /\ ErpSubmits(x, FALSE)
          /\ IF pc[x] = "submit"
             THEN GoTo(x, "resubmit") /\ UNCHANGED events
             ELSE /\ GoTo(x, "done")
                  /\ events' = [events EXCEPT ![x] = @ \cup {"submitCashout", "succeeded"}]
    /\ UNCHANGED <<offerVars, cash, funds, of, answer, fate>>

\* Mutant: a submission that failed twice is only logged.
GiveUpQuietly(x) ==
    /\ pc[x] \in {"submit", "resubmit"}
    /\ \/ ErpSubmits(x, TRUE) /\ GoTo(x, "done") /\ Raise(x, "succeeded")
       \/ /\ ErpSubmits(x, FALSE)
          /\ GoTo(x, IF pc[x] = "submit" THEN "resubmit" ELSE "done")
          /\ UNCHANGED events
    /\ UNCHANGED <<offerVars, cash, funds, of, answer, fate>>

\* Twice at most; then executeCashout announces the success, or execute has
\* announced the failure.
submitCashout(x) ==
    /\ pc[x] \in {"submit", "resubmit"}
    /\ \/ ErpSubmits(x, TRUE) /\ GoTo(x, "done") /\ Raise(x, "succeeded")
       \/ /\ ErpSubmits(x, FALSE)
          /\ IF pc[x] = "submit"
             THEN GoTo(x, "resubmit") /\ UNCHANGED events
             ELSE Fail(x, "submitCashout")
    /\ UNCHANGED <<offerVars, cash, funds, of, answer, fate>>

Crash(x) ==
    /\ pc[x] \in Running
    /\ GoTo(x, "dead")
    /\ Fault
    /\ UNCHANGED <<offerVars, cash, funds, of, cashout, answer, fate, events>>

-----------------------------------------------------------------------------

Execute(x) == ValidOffer(x) \/ draftCashout(x) \/ payInvoice(x) \/ submitCashout(x)

Next ==
    \/ \E o \in Offers : createOffer(o) \/ persistOffer(o) \/ InvoiceExpires(o) \/ OfferRunsOut(o)
    \/ \E x \in Executions :
          \/ \E o \in Offers : executeCashout(x, o)
          \/ Execute(x) \/ PaymentSettles(x) \/ Crash(x)
    \/ CashMoves

Spec == Init /\ [][Next]_vars

\* A call that is not cut off by a crash goes on.
FairSpec == Spec /\ \A x \in Executions : WF_vars(Execute(x))

-----------------------------------------------------------------------------
\* Properties.

\* A payout has a payment behind it: a cashout is submitted, by execute, only if
\* its payment has settled or is under way, or if IBEX's answer left that open
\* (a pending or unreadable answer is submitted deliberately). Concurrent
\* executions of the offer, its expiry and the cutover do not change this.
PayoutIsBacked ==
    \A x \in Executions :
        cashout[x] = "submitted" => TakesFunds(fate[x]) \/ answer[x] = "pending"

\* An offer is paid out once: nothing in executeCashout marks an offer as used,
\* so it is the invoice, and the reading of IBEX's answer, that keep a second
\* execution from being submitted. One of two submitted executions had an answer
\* that left its payment open.
PaidOutOnce ==
    \A x, y \in Executions :
        /\ x # y /\ of[x] = of[y]
        /\ cashout[x] = "submitted" /\ cashout[y] = "submitted"
        => "pending" \in {answer[x], answer[y]}

\* Every cashout that was announced and not cut off by a crash has exactly one
\* terminal event, and it is true: a success was submitted; a failed payment has
\* failed, unless IBEX's answer was an error; where the submission failed the
\* money has moved, or IBEX's answer left it open (the ops events of
\* executeCashout and execute).
OneTrueTerminalEvent ==
    \A x \in Executions :
        /\ pc[x] = "done" /\ "initiated" \in events[x]
             => \E e \in TerminalEvents : events[x] \cap TerminalEvents = {e}
        /\ "succeeded" \in events[x] => cashout[x] = "submitted"
        /\ "payInvoice" \in events[x] => fate[x] = "failed" \/ answer[x] = "error"
        /\ "submitCashout" \in events[x] => TakesFunds(fate[x]) \/ answer[x] = "pending"

\* What a call was told is true as far as it tells anything.
AnswerInv ==
    \A x \in Executions :
        /\ answer[x] = "success" => fate[x] = "succeeded"
        /\ answer[x] = "failure" => fate[x] = "failed"

\* A call that has not paid was told nothing; one that submits, or has, was told
\* that its payment went well or is open.
CallInv ==
    \A x \in Executions :
        /\ pc[x] \in {"new", "validate", "draft", "pay"} =>
             fate[x] = "none" /\ answer[x] = "none" /\ cashout[x] # "submitted"
        /\ pc[x] \in {"submit", "resubmit"} \/ cashout[x] = "submitted" =>
             answer[x] \in {"success", "pending"}

\* The events a call has raised tell where it is and what it was told.
EventInv ==
    \A x \in Executions :
        /\ pc[x] = "new" => events[x] = {}
        /\ pc[x] \in Running \cup {"dead"} => events[x] = {"initiated"}
        /\ pc[x] = "done" =>
             events[x] = {} \/ \E e \in TerminalEvents : events[x] = {"initiated", e}
        /\ "succeeded" \in events[x] => cashout[x] = "submitted"
        /\ "payInvoice" \in events[x] => answer[x] \in {"error", "failure"}
        /\ "submitCashout" \in events[x] => answer[x] \in {"success", "pending"}

\* At most one payment of an offer's invoice has settled or is under way.
InvoiceInv ==
    \A x, y \in Executions :
        x # y /\ of[x] = of[y] /\ TakesFunds(fate[x]) => ~TakesFunds(fate[y])

\* The inductive invariant of executeCashout and execute: what each call knows
\* at each step, against what has happened at IBEX and in ERPNext.
CashoutInv == TypeOK /\ AnswerInv /\ CallInv /\ EventInv /\ InvoiceInv

\* Money taken from the user is followed up: the cashout is submitted or ops is
\* told which step failed, unless the process has crashed.
PaymentIsFollowedUp ==
    \A x \in Executions :
        fate[x] = "succeeded"
            ~> cashout[x] = "submitted" \/ events[x] \cap FailedSteps # {} \/ pc[x] = "dead"

=============================================================================
