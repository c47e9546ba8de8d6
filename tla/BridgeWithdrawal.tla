--------------------------- MODULE BridgeWithdrawal ---------------------------
(***************************************************************************)
(* Withdrawals of an account's USDT to a bank account, through Bridge: the *)
(* mutations that request, initiate and cancel one (services/bridge), the  *)
(* webhook that settles it, and the reconciliation job. They share the     *)
(* record in mongo, where each change is a compare-and-set, the transfer   *)
(* at Bridge, the send at IBEX and the audit row in ERPNext. Every await   *)
(* that reads or writes one of these is a step of its own.                 *)
(*                                                                         *)
(* The withdrawals are those of one amount to one bank account, the case   *)
(* in which requests meet; the balance counts how many of them it covers.  *)
(* Fees, receipts and the pushes to the customer are left out, and with    *)
(* the pushes the timelock that keeps a webhook from repeating its own.    *)
(***************************************************************************)
EXTENDS Naturals

CONSTANTS
    Withdrawals,  \* records that may be created
    Calls,        \* mutations that may be in progress at once
    Hooks,        \* webhook deliveries that may be in progress at once
    Balance,      \* how many withdrawals the account's USDT covers
    NoOne,        \* no record, no event
    MaxFaults     \* bound: lost answers, failed writes, crashes

ASSUME BoundsAssumption == Balance \in Nat /\ MaxFaults \in Nat

VARIABLES
    status,      \* status of each record
    transferId,  \* records with a bridgeTransferId
    payoutId,    \* records with an ibexPayoutId
    at,          \* where each mutation is
    on,          \* the record it is about
    balance,     \* what is left of the USDT at IBEX
    sends,       \* number of sends IBEX made for each record
    lost,        \* records whose send was made and reported as failed
    transfer,    \* state at Bridge of the transfer made for each record
    paid,        \* records whose transfer Bridge paid out
    events,      \* webhook events Bridge has no 200 for
    hook,        \* where each delivery is
    hookOn,      \* the event it is about
    audit,       \* status of the audit row of each record
    scan,        \* the rows the reconciliation has read and not dealt with
    alerted,     \* records the reconciliation raised an orphan for
    ignored,     \* records whose failure was ignored although they were under way
    faults

recordVars == <<status, transferId, payoutId>>
callVars == <<at, on>>
ibexVars == <<balance, sends, lost>>
bridgeVars == <<transfer, paid, events>>
hookVars == <<hook, hookOn, ignored>>
jobVars == <<scan, alerted>>
vars == <<recordVars, callVars, ibexVars, bridgeVars, hookVars, jobVars, audit, faults>>

Outcomes == {"completed", "failed"}

Events == Withdrawals \X Outcomes

ASSUME NoOneAssumption == NoOne \notin Withdrawals \cup Events

Fault == faults < MaxFaults /\ faults' = faults + 1

NoFault == UNCHANGED faults

Init ==
    /\ status = [w \in Withdrawals |-> "none"]
    /\ transferId = {} /\ payoutId = {}
    /\ at = [c \in Calls |-> "idle"]
    /\ on = [c \in Calls |-> NoOne]
    /\ balance = Balance
    /\ sends = [w \in Withdrawals |-> 0]
    /\ lost = {}
    /\ transfer = [w \in Withdrawals |-> "none"]
    /\ paid = {}
    /\ events = {}
    /\ hook = [h \in Hooks |-> "idle"]
    /\ hookOn = [h \in Hooks |-> NoOne]
    /\ ignored = {}
    /\ audit = [w \in Withdrawals |-> "none"]
    /\ scan = [w \in Withdrawals |-> "none"]
    /\ alerted = {}
    /\ faults = 0

-----------------------------------------------------------------------------
(* requestWithdrawal                                                       *)

Go(c, to) == at' = [at EXCEPT ![c] = to]

Return(c) == Go(c, "idle") /\ on' = [on EXCEPT ![c] = NoOne]

Unsubmitted(w) == status[w] = "pending" /\ w \notin transferId

\* The checks of the account, the balance and the bank account.
requestWithdrawal(c) ==
    /\ at[c] = "idle"
    /\ balance > 0
    /\ Go(c, "find")
    /\ UNCHANGED <<recordVars, on, ibexVars, bridgeVars, hookVars, jobVars, audit, faults>>

\* A request that is pending already is answered with its record.
findPendingWithdrawalWithoutTransfer(c) ==
    /\ at[c] = "find"
    /\ Go(c, IF \E w \in Withdrawals : Unsubmitted(w) THEN "idle" ELSE "create")
    /\ UNCHANGED <<recordVars, on, ibexVars, bridgeVars, hookVars, jobVars, audit, faults>>

\* The unique index on pending records turns a second one into the first.
createWithdrawal(c) ==
    /\ at[c] = "create"
    /\ Return(c)
    /\ \/ /\ \A w \in Withdrawals : status[w] # "pending"
          /\ \E w \in Withdrawals :
                status[w] = "none" /\ status' = [status EXCEPT ![w] = "pending"]
       \/ (\E w \in Withdrawals : status[w] = "pending") /\ UNCHANGED status
       \/ (\A w \in Withdrawals : status[w] # "none") /\ UNCHANGED status
    /\ UNCHANGED <<transferId, payoutId, ibexVars, bridgeVars, hookVars, jobVars, audit, faults>>

-----------------------------------------------------------------------------
(* initiateWithdrawal                                                      *)

initiateWithdrawal(c, w) ==
    /\ at[c] = "idle"
    /\ Unsubmitted(w)
    /\ w \notin payoutId
    /\ Go(c, "balance")
    /\ on' = [on EXCEPT ![c] = w]
    /\ UNCHANGED <<recordVars, ibexVars, bridgeVars, hookVars, jobVars, audit, faults>>

\* The bank account and the balance are looked at again.
RecheckBalance(c) ==
    /\ at[c] = "balance"
    /\ \/ balance > 0 /\ Go(c, "transfer") /\ UNCHANGED on
       \/ Return(c)
    /\ UNCHANGED <<recordVars, ibexVars, bridgeVars, hookVars, jobVars, audit, faults>>

\* The idempotency key is derived from the record: Bridge answers a repetition with
\* the transfer it made.
createTransfer(c) ==
    LET w == on[c]
    IN  /\ at[c] = "transfer"
        /\ \/ Return(c) /\ NoFault /\ UNCHANGED transfer
           \/ /\ transfer' = [transfer EXCEPT ![w] = IF @ = "none" THEN "awaiting_funds" ELSE @]
              /\ \/ Go(c, "submit") /\ NoFault /\ UNCHANGED on
                 \/ Return(c) /\ Fault
        /\ UNCHANGED <<recordVars, ibexVars, paid, events, hookVars, jobVars, audit>>

\* Mutant: the record is submitted whatever became of it.
SubmitAnyway(c) ==
    LET w == on[c]
    IN  /\ at[c] = "submit"
        /\ status' = [status EXCEPT ![w] = "submitted"]
        /\ transferId' = transferId \cup {w}
        /\ Go(c, "send")
        /\ UNCHANGED <<on, payoutId, ibexVars, bridgeVars, hookVars, jobVars, audit, faults>>

\* The compare-and-set that lets one caller through to the send.
updateWithdrawalTransferId(c) ==
    LET w == on[c]
    IN  /\ at[c] = "submit"
        /\ \/ /\ Unsubmitted(w)
              /\ status' = [status EXCEPT ![w] = "submitted"]
              /\ transferId' = transferId \cup {w}
              /\ Go(c, "send")
              /\ NoFault
              /\ UNCHANGED on
           \/ ~Unsubmitted(w) /\ Return(c) /\ NoFault /\ UNCHANGED <<status, transferId>>
           \/ Return(c) /\ Fault /\ UNCHANGED <<status, transferId>>
        /\ UNCHANGED <<payoutId, ibexVars, bridgeVars, hookVars, jobVars, audit>>

\* Requirements, send information and the send. Any of them may be refused; the
\* answer to a send that was made may be lost.
sendCrypto(c) ==
    LET w == on[c]
        made == /\ balance > 0
                /\ balance' = balance - 1
                /\ sends' = [sends EXCEPT ![w] = @ + 1]
    IN  /\ at[c] = "send"
        /\ \/ made /\ Go(c, "sent") /\ NoFault /\ UNCHANGED lost
           \/ Go(c, "send_failed") /\ NoFault /\ UNCHANGED ibexVars
           \/ made /\ lost' = lost \cup {w} /\ Go(c, "send_failed") /\ Fault
        /\ UNCHANGED <<recordVars, on, bridgeVars, hookVars, jobVars, audit>>

\* A record that is still submitted and has no payout.
Awaiting(w) == status[w] = "submitted" /\ w \notin payoutId

markWithdrawalSendFailed(c) ==
    LET w == on[c]
    IN  /\ at[c] = "send_failed"
        /\ \/ /\ status' = [status EXCEPT ![w] = IF Awaiting(w) THEN "send_failed" ELSE @]
              /\ NoFault
           \/ UNCHANGED status /\ Fault
        /\ Return(c)
        /\ UNCHANGED <<transferId, payoutId, ibexVars, bridgeVars, hookVars, jobVars, audit>>

\* The payout is recorded; IBEX may answer without an id for it.
updateWithdrawalOnchainSend(c) ==
    LET w == on[c]
    IN  /\ at[c] = "sent"
        /\ \/ /\ Awaiting(w)
              /\ status' = [status EXCEPT ![w] = "usdt_sent"]
              /\ payoutId' \in {payoutId, payoutId \cup {w}}
              /\ Go(c, "audit")
              /\ NoFault
              /\ UNCHANGED on
           \/ ~Awaiting(w) /\ Return(c) /\ NoFault /\ UNCHANGED <<status, payoutId>>
           \/ Return(c) /\ Fault /\ UNCHANGED <<status, payoutId>>
        /\ UNCHANGED <<transferId, ibexVars, bridgeVars, hookVars, jobVars, audit>>

\* The status of the row of a cashout is written over whatever was there.
writeBridgeCashoutPending(c) ==
    /\ at[c] = "audit"
    /\ \/ audit' = [audit EXCEPT ![on[c]] = "pending"] /\ NoFault
       \/ UNCHANGED audit /\ Fault
    /\ Return(c)
    /\ UNCHANGED <<recordVars, ibexVars, bridgeVars, hookVars, jobVars>>

-----------------------------------------------------------------------------
(* cancelWithdrawalRequest                                                 *)

cancelWithdrawalRequest(c, w) ==
    /\ at[c] = "idle"
    /\ status[w] # "none" /\ w \notin transferId
    /\ Go(c, "cancel")
    /\ on' = [on EXCEPT ![c] = w]
    /\ UNCHANGED <<recordVars, ibexVars, bridgeVars, hookVars, jobVars, audit, faults>>

\* Mutant: the record that was looked at is cancelled, whatever became of it.
CancelAnyway(c) ==
    /\ at[c] = "cancel"
    /\ status' = [status EXCEPT ![on[c]] = "cancelled"]
    /\ Return(c)
    /\ UNCHANGED <<transferId, payoutId, ibexVars, bridgeVars, hookVars, jobVars, audit, faults>>

cancelWithdrawal(c) ==
    LET w == on[c]
    IN  /\ at[c] = "cancel"
        /\ status' = [status EXCEPT ![w] = IF Unsubmitted(w) THEN "cancelled" ELSE @]
        /\ Return(c)
        /\ UNCHANGED <<transferId, payoutId, ibexVars, bridgeVars, hookVars, jobVars, audit,
                       faults>>

\* The server dies in the middle of a mutation.
Crash(c) ==
    /\ at[c] # "idle"
    /\ Return(c)
    /\ Fault
    /\ UNCHANGED <<recordVars, ibexVars, bridgeVars, hookVars, jobVars, audit>>

-----------------------------------------------------------------------------
(* Bridge                                                                  *)

\* A transfer that was funded is paid out. One that was not, or whose payment is
\* returned later, fails.
BridgeSettles(w) ==
    /\ \/ /\ transfer[w] = "awaiting_funds" /\ sends[w] > 0
          /\ transfer' = [transfer EXCEPT ![w] = "payment_processed"]
          /\ paid' = paid \cup {w}
          /\ events' = events \cup {<<w, "completed">>}
       \/ /\ transfer[w] \in {"awaiting_funds", "payment_processed"}
          /\ transfer' = [transfer EXCEPT ![w] = "failed"]
          /\ events' = events \cup {<<w, "failed">>}
          /\ UNCHANGED paid
    /\ UNCHANGED <<recordVars, callVars, ibexVars, hookVars, jobVars, audit, faults>>

-----------------------------------------------------------------------------
(* The webhook of a transfer                                               *)

Step(h, to) == hook' = [hook EXCEPT ![h] = to]

\* Answered; what was not answered with a 200 is delivered again.
Answer(h) == Step(h, "idle") /\ hookOn' = [hookOn EXCEPT ![h] = NoOne]

Settled(h) == events' = events \ {hookOn[h]}

transferHandler(h, e) ==
    /\ hook[h] = "idle"
    /\ e \in events
    /\ Step(h, "update")
    /\ hookOn' = [hookOn EXCEPT ![h] = e]
    /\ UNCHANGED <<recordVars, callVars, ibexVars, bridgeVars, ignored, jobVars, audit, faults>>

\* A record that Bridge's outcome is still to reach.
UnderWay(w) == w \in transferId /\ status[w] \in {"submitted", "usdt_sent"}

\* Mutant: a record whose send was recorded is past the webhook.
SubmittedOnly(h) ==
    LET w == hookOn[h][1]
    IN  /\ hook[h] = "update"
        /\ IF w \in transferId /\ status[w] = "submitted"
           THEN status' = [status EXCEPT ![w] = hookOn[h][2]] /\ Step(h, "audit")
           ELSE Step(h, "look") /\ UNCHANGED status
        /\ UNCHANGED <<transferId, payoutId, callVars, ibexVars, bridgeVars, hookOn, ignored,
                       jobVars, audit, faults>>

\* Mutant: the status is written whatever it was.
StatusAnyway(h) ==
    LET w == hookOn[h][1]
    IN  /\ hook[h] = "update"
        /\ IF w \in transferId
           THEN status' = [status EXCEPT ![w] = hookOn[h][2]] /\ Step(h, "audit")
           ELSE Step(h, "look") /\ UNCHANGED status
        /\ UNCHANGED <<transferId, payoutId, callVars, ibexVars, bridgeVars, hookOn, ignored,
                       jobVars, audit, faults>>

\* The compare-and-set on a record that is under way.
updateWithdrawalStatus(h) ==
    LET w == hookOn[h][1]
    IN  /\ hook[h] = "update"
        /\ IF UnderWay(w)
           THEN status' = [status EXCEPT ![w] = hookOn[h][2]] /\ Step(h, "audit")
           ELSE Step(h, "look") /\ UNCHANGED status
        /\ UNCHANGED <<transferId, payoutId, callVars, ibexVars, bridgeVars, hookOn, ignored,
                       jobVars, audit, faults>>

\* When it did not apply, the record is looked up: not found asks for a retry, the
\* same outcome goes on, any other ignores a failure and refuses a completion.
FindExisting(h) ==
    LET w == hookOn[h][1]
        outcome == hookOn[h][2]
    IN  /\ hook[h] = "look"
        /\ \/ w \notin transferId /\ Answer(h) /\ UNCHANGED <<events, ignored>>
           \/ w \in transferId /\ status[w] = outcome /\ Step(h, "audit")
              /\ UNCHANGED <<hookOn, events, ignored>>
           \/ /\ w \in transferId /\ status[w] # outcome
              /\ Answer(h)
              /\ IF outcome = "failed"
                 THEN Settled(h) /\ ignored' = ignored \cup {x \in {w} : UnderWay(x)}
                 ELSE UNCHANGED <<events, ignored>>
        /\ UNCHANGED <<recordVars, callVars, ibexVars, transfer, paid, jobVars, audit, faults>>

\* Mutant: an audit row that could not be written is let pass.
AuditBestEffort(h) ==
    /\ hook[h] = "audit"
    /\ Answer(h)
    /\ Settled(h)
    /\ \/ audit' = [audit EXCEPT ![hookOn[h][1]] = hookOn[h][2]] /\ NoFault
       \/ UNCHANGED audit /\ Fault
    /\ UNCHANGED <<recordVars, callVars, ibexVars, transfer, paid, ignored, jobVars>>

\* writeBridgeCashoutCompleted and writeBridgeCashoutFailed. A row that cannot be
\* written asks for a retry.
writeBridgeCashout(h) ==
    /\ hook[h] = "audit"
    /\ Answer(h)
    /\ \/ audit' = [audit EXCEPT ![hookOn[h][1]] = hookOn[h][2]] /\ Settled(h) /\ NoFault
       \/ UNCHANGED <<audit, events>> /\ Fault
    /\ UNCHANGED <<recordVars, callVars, ibexVars, transfer, paid, ignored, jobVars>>

\* The server dies in the middle of a delivery.
HookCrash(h) ==
    /\ hook[h] # "idle"
    /\ Answer(h)
    /\ Fault
    /\ UNCHANGED <<recordVars, callVars, ibexVars, bridgeVars, ignored, jobVars, audit>>

-----------------------------------------------------------------------------
(* reconcileBridgeAndIbexWithdrawals                                       *)

\* The rows of the last fifteen minutes, which may or may not hold a record.
reconcileBridgeAndIbexWithdrawals ==
    LET rows == {w \in transferId : status[w] \in {"usdt_sent", "send_failed"}}
    IN  /\ \A w \in Withdrawals : scan[w] = "none"
        /\ \E S \in SUBSET rows \ {{}} :
              scan' = [w \in Withdrawals |-> IF w \in S THEN status[w] ELSE "none"]
        /\ UNCHANGED <<recordVars, callVars, ibexVars, bridgeVars, hookVars, alerted, audit,
                       faults>>

Dealt(w) == scan' = [scan EXCEPT ![w] = "none"]

\* Mutant: the transfer of every row that was read is deleted.
DeleteAny(w) ==
    /\ scan[w] # "none"
    /\ Dealt(w)
    /\ transfer[w] = "awaiting_funds"
    /\ transfer' = [transfer EXCEPT ![w] = "deleted"]
    /\ UNCHANGED <<recordVars, callVars, ibexVars, paid, events, hookVars, alerted, audit,
                   faults>>

\* The transfer of a send that failed is deleted. Any error, among them Bridge's
\* refusal when it is past awaiting funds, raises an orphan.
deleteTransfer(w) ==
    /\ scan[w] = "send_failed"
    /\ Dealt(w)
    /\ \/ /\ transfer[w] = "awaiting_funds"
          /\ transfer' = [transfer EXCEPT ![w] = "deleted"]
          /\ UNCHANGED alerted
       \/ alerted' = alerted \cup {w} /\ UNCHANGED transfer
    /\ UNCHANGED <<recordVars, callVars, ibexVars, paid, events, hookVars, audit, faults>>

\* Mutant: every row that was sent is finalised.
TrustSent(w) ==
    /\ scan[w] = "usdt_sent"
    /\ scan' = [scan EXCEPT ![w] = "processed"]
    /\ UNCHANGED <<recordVars, callVars, ibexVars, bridgeVars, hookVars, alerted, audit, faults>>

\* A transfer that was paid out is to be finalised, a failed one raises an orphan.
getTransfer(w) ==
    /\ scan[w] = "usdt_sent"
    /\ scan' = [scan EXCEPT ![w] = IF transfer[w] = "payment_processed" THEN "processed"
                                   ELSE "none"]
    /\ alerted' = IF transfer[w] = "failed" THEN alerted \cup {w} ELSE alerted
    /\ UNCHANGED <<recordVars, callVars, ibexVars, bridgeVars, hookVars, audit, faults>>

FinaliseCompleted(w) ==
    /\ scan[w] = "processed"
    /\ Dealt(w)
    /\ status' = [status EXCEPT ![w] = IF UnderWay(w) THEN "completed" ELSE @]
    /\ UNCHANGED <<transferId, payoutId, callVars, ibexVars, bridgeVars, hookVars, alerted,
                   audit, faults>>

\* An error of Bridge or of the orphan store, or a crash, ends the pass.
PassFails ==
    /\ \E w \in Withdrawals : scan[w] # "none"
    /\ scan' = [w \in Withdrawals |-> "none"]
    /\ Fault
    /\ UNCHANGED <<recordVars, callVars, ibexVars, bridgeVars, hookVars, alerted, audit>>

-----------------------------------------------------------------------------
CallStep(c) ==
    \/ findPendingWithdrawalWithoutTransfer(c) \/ createWithdrawal(c)
    \/ RecheckBalance(c) \/ createTransfer(c) \/ updateWithdrawalTransferId(c)
    \/ sendCrypto(c) \/ markWithdrawalSendFailed(c) \/ updateWithdrawalOnchainSend(c)
    \/ writeBridgeCashoutPending(c)
    \/ cancelWithdrawal(c)

HookStep(h) == updateWithdrawalStatus(h) \/ FindExisting(h) \/ writeBridgeCashout(h)

JobStep ==
    \E w \in Withdrawals : deleteTransfer(w) \/ getTransfer(w) \/ FinaliseCompleted(w)

Next ==
    \/ \E c \in Calls :
          \/ requestWithdrawal(c) \/ CallStep(c) \/ Crash(c)
          \/ \E w \in Withdrawals : initiateWithdrawal(c, w) \/ cancelWithdrawalRequest(c, w)
    \/ \E w \in Withdrawals : BridgeSettles(w)
    \/ \E h \in Hooks :
          \/ \E e \in Events : transferHandler(h, e)
          \/ HookStep(h) \/ HookCrash(h)
    \/ reconcileBridgeAndIbexWithdrawals \/ JobStep \/ PassFails

Spec == Init /\ [][Next]_vars

\* Handlers and the job run on. Bridge settles what was funded, and delivers each
\* event again until it gets a 200, whatever other deliveries are under way.
Fairness ==
    /\ \A c \in Calls : WF_vars(CallStep(c))
    /\ \A h \in Hooks : WF_vars(HookStep(h))
    /\ WF_vars(JobStep)
    /\ \A w \in Withdrawals :
          WF_vars(transfer[w] = "awaiting_funds" /\ sends[w] > 0 /\ BridgeSettles(w))
    /\ \A e \in Events : SF_vars(\E h \in Hooks : transferHandler(h, e))

FairSpec == Spec /\ Fairness

-----------------------------------------------------------------------------
Statuses == {"none", "pending", "submitted", "usdt_sent", "send_failed", "completed",
             "failed", "cancelled"}

Stages == {"idle", "find", "create", "balance", "transfer", "submit", "send", "sent",
           "send_failed", "audit", "cancel"}

\* Every variable holds a value of its kind, and a mutation past its first step has
\* a record.
TypeOK ==
    /\ status \in [Withdrawals -> Statuses]
    /\ transferId \subseteq Withdrawals /\ payoutId \subseteq Withdrawals
    /\ at \in [Calls -> Stages]
    /\ on \in [Calls -> Withdrawals \cup {NoOne}]
    /\ \A c \in Calls : at[c] \in Stages \ {"idle", "find", "create"} => on[c] \in Withdrawals
    /\ balance \in Nat
    /\ sends \in [Withdrawals -> Nat]
    /\ lost \subseteq Withdrawals
    /\ transfer \in [Withdrawals -> {"none", "awaiting_funds", "payment_processed", "failed",
                                     "deleted"}]
    /\ paid \subseteq Withdrawals /\ events \subseteq Events
    /\ hook \in [Hooks -> {"idle", "update", "look", "audit"}]
    /\ hookOn \in [Hooks -> Events \cup {NoOne}]
    /\ \A h \in Hooks : hook[h] # "idle" => hookOn[h] \in Events
    /\ ignored \subseteq Withdrawals
    /\ audit \in [Withdrawals -> {"none", "pending"} \cup Outcomes]
    /\ scan \in [Withdrawals -> {"none", "usdt_sent", "send_failed", "processed"}]
    /\ alerted \subseteq Withdrawals
    /\ faults \in 0 .. MaxFaults

\* A withdrawal is sent at most once, however many initiateWithdrawal calls overlap,
\* crash or lose an answer: updateWithdrawalTransferId lets one of them through.
SentOnce == \A w \in Withdrawals : sends[w] <= 1

\* A withdrawal whose USDT left was submitted and points at its transfer: one that
\* cancelWithdrawalRequest answered as cancelled is never sent.
CancelledIsNotSent ==
    \A w \in Withdrawals :
        sends[w] > 0 => /\ w \in transferId
                        /\ status[w] \notin {"none", "pending", "cancelled"}

\* The reconciliation deletes a transfer only when no send that IBEX confirmed is on
\* its way to it.
DeletedIsUnfunded ==
    \A w \in Withdrawals : transfer[w] = "deleted" => sends[w] = 0 \/ w \in lost

\* A withdrawal reads completed only when Bridge paid it out of a send of the
\* account's USDT, whichever of the webhook (updateWithdrawalStatus) and the
\* reconciliation came first.
CompletedIsPaid ==
    \A w \in Withdrawals : status[w] = "completed" => w \in paid /\ sends[w] = 1

\* Stages from the compare-and-set that submits a record to the write that records
\* its send.
Sending == {"send", "sent", "send_failed"}

\* A record points at a transfer from the moment it is submitted.
SubmittedInv ==
    \A w \in Withdrawals :
        w \in transferId <=> status[w] \notin {"none", "pending", "cancelled"}

\* A mutation that submitted its record knows what became of the send.
CallInv ==
    \A c \in Calls :
        /\ at[c] \in Sending =>
              on[c] \in transferId /\ status[on[c]] \notin {"usdt_sent", "send_failed"}
        /\ at[c] = "send" => sends[on[c]] = 0
        /\ at[c] = "sent" => sends[on[c]] = 1
        /\ at[c] = "send_failed" => sends[on[c]] = 0 \/ on[c] \in lost

\* It is the only one.
OwnInv ==
    \A c, d \in Calls :
        at[c] \in Sending /\ at[d] \in Sending /\ on[c] = on[d] => c = d

\* A send that is recorded as failed was not made, or its answer was lost, and only
\* its transfer is deleted.
SendInv ==
    \A w \in Withdrawals :
        /\ sends[w] <= 1
        /\ sends[w] > 0 => w \in transferId
        /\ status[w] = "send_failed" => sends[w] = 0 \/ w \in lost
        /\ transfer[w] = "deleted" \/ scan[w] = "send_failed" => status[w] = "send_failed"

\* Every claim that Bridge paid, in an event, a delivery or a pass of the
\* reconciliation, is true.
ClaimInv ==
    /\ \A w \in Withdrawals :
          /\ transfer[w] = "payment_processed" \/ scan[w] = "processed" => w \in paid
          /\ status[w] = "completed" \/ <<w, "completed">> \in events => w \in paid
          /\ w \in paid => sends[w] = 1
    /\ \A h \in Hooks, w \in Withdrawals : hookOn[h] = <<w, "completed">> => w \in paid

\* Why the above hold: the record of a mutation past updateWithdrawalTransferId is
\* its own, what each step knows of the send is true, and so is every claim that
\* Bridge paid.
WithdrawalInv == TypeOK /\ SubmittedInv /\ CallInv /\ OwnInv /\ SendInv /\ ClaimInv

\* A withdrawal that is completed or failed stays so: neither a late webhook nor a
\* stale pass of the reconciliation turns one outcome into the other.
OutcomeStays ==
    [][\A w \in Withdrawals : status[w] \in Outcomes => status'[w] = status[w]]_vars

\* A withdrawal whose USDT was sent and recorded is completed or failed in the end,
\* unless transferHandler answered its failure as already terminal.
SentSettles ==
    \A w \in Withdrawals :
        status[w] = "usdt_sent" ~> status[w] \in Outcomes \/ w \in ignored

\* The webhook of a completed withdrawal is not done with before its audit row says
\* so, after failed writes, crashes and a reconciliation that completed the record
\* first. The row may be written over later, by a writeBridgeCashoutPending that
\* was overtaken.
AuditFollows ==
    \A w \in Withdrawals :
        status[w] = "completed" /\ <<w, "completed">> \in events ~> audit[w] = "completed"
=============================================================================
