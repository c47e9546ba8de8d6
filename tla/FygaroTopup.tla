----------------------------- MODULE FygaroTopup -----------------------------
(***************************************************************************)
(* Card top-ups of one account: authorizeFygaroTopup, which promises a     *)
(* part of the daily allowance to a signed checkout link, and the payment  *)
(* webhook, which records each captured payment in ERPNext and credits it. *)
(* They share the ERPNext rows, the reservations and intent records in     *)
(* redis, and the locks. Every await that reads or writes one of these is  *)
(* a step of its own, and any number of requests and deliveries overlap.   *)
(*                                                                         *)
(* A checkout stands for the authorisation request, the link it may issue  *)
(* and the intent of that link. Amounts are small numbers, fees are left   *)
(* out; reasons of a refusal other than the daily limit are one choice,    *)
(* because operators edit the settings between deliveries. The redemption  *)
(* claim of an intent is left out: nothing acts on it.                     *)
(***************************************************************************)
EXTENDS Integers, FiniteSets, FiniteSetsExt

CONSTANTS
    Checkouts,     \* authorisation requests and their links
    Opened,        \* the checkouts whose link was issued before
    Transactions,  \* payments Fygaro may capture
    Deliveries,    \* webhook requests that may be in progress at once
    Cents,         \* amount of each checkout
    Captures,      \* what each payment may be: [intent, cents, known]
    Limit,         \* daily limit of the account's level
    NoOne,         \* no transaction, no delivery, no intent
    MaxRounds,     \* bound: deliveries of each payment, retries not counted
    MaxCalls,      \* bound: requests and deliveries after which no more are made, but
                   \* for the first delivery of a payment
    MaxFaults      \* bound: failed reads and writes, lost answers, crashes

ASSUME NoOneAssumption ==
    /\ NoOne \notin Checkouts \cup Transactions \cup Deliveries
    /\ "stale" \notin Deliveries \cup {NoOne}

ASSUME AmountsAssumption ==
    /\ Limit \in Nat
    /\ Cents \in [Checkouts -> 1 .. Limit]
    /\ Opened \subseteq Checkouts
    /\ MapThenSumSet(LAMBDA c : Cents[c], Opened) <= Limit

CaptureOf == [intent : Checkouts \cup {NoOne}, cents : Nat, known : BOOLEAN]

ASSUME CapturesAssumption ==
    /\ Captures \in [Transactions -> SUBSET CaptureOf]
    /\ MaxRounds \in [Transactions -> Nat]
    /\ MaxCalls \in Nat
    /\ MaxFaults \in Nat

VARIABLES
    step,        \* where each authorisation is
    prior,       \* the history each authorisation read
    now,         \* the links that had expired when it began (its nowMs)
    same,        \* the open link of its amount it found, to be offered again
    offered,     \* links a customer was given
    overtaken,   \* authorisations that a counted payment or a failed re-read overtook
    holds,       \* reservations of the account: checkouts that hold allowance
    expired,     \* links that are no longer payable
    intent,      \* intent record of each checkout, with its outcome
    capture,     \* what each payment captured
    row,         \* ERPNext row of each payment
    at,          \* where each delivery is
    about,       \* the payment each delivery is about
    seen,        \* the intent record each delivery looked up
    found,       \* the status of the row each delivery is about to write
    rounds,      \* deliveries of each payment so far
    dedupe,      \* payments whose record-only timelock is taken
    payLock,     \* the credit lock of each payment: its holder
    sendLock,    \* the lock of its send's idempotency key
    remembered,  \* payments whose send is in the idempotency cache
    sends,       \* number of credits IBEX made for each payment
    unanswered,  \* credits whose caller never learnt of them
    unlanded,    \* payments whose send was pending and failed in the end
    reported,    \* payments ops was told of: an alert, or a line in the ops feed
    byHand,      \* payments ops did credit by hand
    stranded,    \* payments a lock kept from being handled: redis failed at it, or
                 \* the delivery that held it died
    undone,      \* payments whose completed row was written back
    faults

checkoutVars == <<step, prior, now, same, offered, overtaken>>
redisVars == <<holds, intent, dedupe, payLock, sendLock, remembered>>
ghosts == <<sends, unanswered, unlanded, reported, byHand, stranded, undone>>
vars == <<checkoutVars, redisVars, ghosts, expired, capture, row, at, about, seen,
          found, rounds, faults>>

-----------------------------------------------------------------------------
(* Intent records and ERPNext rows                                         *)

NoRecord == [state |-> "absent", tx |-> NoOne]

Opening == [state |-> "open", tx |-> NoOne]

OutcomeStates == {"received", "credited", "held", "failed"}

Records == {NoRecord, Opening} \cup [state : OutcomeStates, tx : Transactions]

NoCapture == [intent |-> NoOne, cents |-> 0, known |-> FALSE]

NoRow == [status |-> "none", owned |-> FALSE, refused |-> FALSE]

Rows == [status : {"none", "received", "completed"}, owned : BOOLEAN, refused : BOOLEAN]

\* A stamp that an outcome already recorded does not let through.
DropsStamp(old, state) ==
    \/ old.state = "absent"
    \/ old.state # "open" /\ state = "received"
    \/ old.state = "credited" /\ state # "credited"

\* Mutant: the first stamp is the last.
FirstStampWins(old, new) == IF old.state = "open" THEN new ELSE old

\* The record after an outcome is stamped on it: what was first seen gives way
\* to what was decided, and a credit gives way to nothing else.
mergeIntentOutcome(old, new) == IF DropsStamp(old, new.state) THEN old ELSE new

Furthest(a, b) == IF "completed" \in {a, b} THEN "completed" ELSE b

\* What an upsert that found the row in a status writes over it: the status does
\* not go behind the one that was found, an account and a failure reason are
\* never taken away. A row that was not there when it looked and is there when
\* it inserts is looked up again.
applyUpdateGuards(old, was, new) ==
    [status  |-> Furthest(IF was = "none" THEN old.status ELSE was, new.status),
     owned   |-> old.owned \/ new.owned,
     refused |-> old.refused \/ new.refused]

\* Mutant: only what was credited spends the allowance.
CompletedOnly(r) == r.owned /\ r.status = "completed"

\* Rows that spend the allowance: those that were credited, and those that are
\* still in flight. A row is owned when it names the account, and not on the
\* strength of the payer's e-mail alone.
Counted(r) ==
    /\ r.owned
    /\ \/ r.status = "completed"
       \/ r.status = "received" /\ ~r.refused

CentsOf(S) == MapThenSumSet(LAMBDA t : capture[t].cents, S)

\* Gross cents of the last day, without the payment that asks.
sumFygaroTopupGrossCentsSince(except) ==
    CentsOf({t \in Transactions \ except : Counted(row[t])})

\* Reservations as a request that began at `now` sees them.
readOutstandingReservations(c) ==
    MapThenSumSet(LAMBDA x : Cents[x], holds \ now[c])

Fault == faults < MaxFaults /\ faults' = faults + 1

NoFault == UNCHANGED faults

\* Requests and deliveries that were begun so far.
Calls ==
    Cardinality({c \in Checkouts \ Opened : step[c] # "start"})
        + MapThenSumSet(LAMBDA t : rounds[t], Transactions)

Init ==
    /\ step = [c \in Checkouts |-> IF c \in Opened THEN "issued" ELSE "start"]
    /\ prior = [c \in Checkouts |-> 0]
    /\ now = [c \in Checkouts |-> {}]
    /\ same = [c \in Checkouts |-> NoOne]
    /\ offered = Opened
    /\ overtaken = {}
    /\ holds = Opened
    /\ expired = {}
    /\ intent = [c \in Checkouts |-> IF c \in Opened THEN Opening ELSE NoRecord]
    /\ capture = [t \in Transactions |-> NoCapture]
    /\ row = [t \in Transactions |-> NoRow]
    /\ at = [d \in Deliveries |-> "idle"]
    /\ about = [d \in Deliveries |-> NoOne]
    /\ seen = [d \in Deliveries |-> NoRecord]
    /\ found = [d \in Deliveries |-> "none"]
    /\ rounds = [t \in Transactions |-> 0]
    /\ dedupe = {}
    /\ payLock = [t \in Transactions |-> NoOne]
    /\ sendLock = [t \in Transactions |-> NoOne]
    /\ remembered = {}
    /\ sends = [t \in Transactions |-> 0]
    /\ unanswered = [t \in Transactions |-> 0]
    /\ unlanded = {}
    /\ reported = {}
    /\ byHand = {}
    /\ stranded = {}
    /\ undone = {}
    /\ faults = 0

-----------------------------------------------------------------------------
(* Authorisation                                                           *)

deliveryVars == <<capture, row, at, about, seen, found, rounds, dedupe, payLock, sendLock,
                  remembered, ghosts>>

Move(c, to) == step' = [step EXCEPT ![c] = to]

\* The master gate, the settings and the gates that need no history.
Begin(c) ==
    /\ step[c] = "start"
    /\ Calls < MaxCalls
    /\ \E to \in {"history", "refused"} : Move(c, to)
    /\ now' = [now EXCEPT ![c] = expired]
    /\ UNCHANGED <<prior, same, offered, overtaken, holds, expired, intent, deliveryVars, faults>>

ReadHistory(c) ==
    /\ step[c] = "history"
    /\ \/ /\ prior' = [prior EXCEPT ![c] = sumFygaroTopupGrossCentsSince({})]
          /\ Move(c, "reservations")
          /\ NoFault
       \/ Move(c, "refused") /\ Fault /\ UNCHANGED prior
    /\ UNCHANGED <<now, same, offered, overtaken, holds, expired, intent, deliveryVars>>

\* The allowance covers the links that are open as well as what was charged.
\* One that is exceeded by open links alone may offer one of the same amount again.
ReadReservations(c) ==
    LET spent == prior[c] + readOutstandingReservations(c)
        sameAmount == {x \in holds \ now[c] : Cents[x] = Cents[c]}
        held == prior[c] + Cents[c] <= Limit /\ sameAmount # {}
    IN  /\ step[c] = "reservations"
        /\ \/ /\ holds' = holds \ now[c]
              /\ \/ spent + Cents[c] <= Limit /\ Move(c, "save") /\ UNCHANGED same
                 \/ /\ spent + Cents[c] > Limit /\ held
                    /\ Move(c, "already_open")
                    /\ \E x \in sameAmount : same' = [same EXCEPT ![c] = x]
                 \/ spent + Cents[c] > Limit /\ ~held /\ Move(c, "refused") /\ UNCHANGED same
              /\ NoFault
           \/ Move(c, "refused") /\ Fault /\ UNCHANGED <<holds, same>>
        /\ UNCHANGED <<prior, now, offered, overtaken, expired, intent, deliveryVars>>

\* The link that was found is offered again if nothing was paid on it yet, whatever
\* the request that wrote it is about to decide.
refuseOpenCheckout(c) ==
    /\ step[c] = "already_open"
    /\ \/ /\ intent[same[c]].state = "open"
          /\ Move(c, "reoffered")
          /\ offered' = offered \cup {same[c]}
          /\ NoFault
       \/ intent[same[c]].state # "open" /\ Move(c, "refused") /\ NoFault /\ UNCHANGED offered
       \/ Move(c, "refused") /\ Fault /\ UNCHANGED offered
    /\ same' = [same EXCEPT ![c] = NoOne]
    /\ UNCHANGED <<prior, now, overtaken, holds, expired, intent, deliveryVars>>

\* Mutant: a hold that cannot be written lets the request go on, as a record does.
HoldOptional(c) ==
    /\ step[c] = "save"
    /\ Move(c, "record")
    /\ \/ holds' = holds \cup {c} /\ NoFault
       \/ UNCHANGED holds /\ Fault
    /\ UNCHANGED <<prior, now, same, offered, overtaken, expired, intent, deliveryVars>>

\* saveIntent, its first write: the hold. Without one the request is refused.
saveIntent(c) ==
    /\ step[c] = "save"
    /\ \/ holds' = holds \cup {c} /\ Move(c, "record") /\ NoFault
       \/ Move(c, "refused") /\ Fault /\ UNCHANGED holds
    /\ UNCHANGED <<prior, now, same, offered, overtaken, expired, intent, deliveryVars>>

\* Its second write: the record. Without one the request goes on.
SaveRecord(c) ==
    /\ step[c] = "record"
    /\ Move(c, "reread")
    /\ \/ intent' = [intent EXCEPT ![c] = Opening] /\ NoFault
       \/ UNCHANGED intent /\ Fault
    /\ UNCHANGED <<prior, now, same, offered, overtaken, holds, expired, deliveryVars>>

\* The link is given to the customer who asked for it.
Issue(c) == Move(c, "issued") /\ offered' = offered \cup {c}

\* Mutant: the link is issued on the strength of the first reading alone.
NoReRead(c) ==
    /\ step[c] = "reread"
    /\ Issue(c)
    /\ UNCHANGED <<prior, now, same, overtaken, holds, expired, intent, deliveryVars, faults>>

\* The link is issued unless the reservations, now with this one and those of
\* requests that overlapped, exceed the limit. An unreadable index issues it.
ReReadReservations(c) ==
    LET spent == prior[c] + readOutstandingReservations(c)
    IN  /\ step[c] = "reread"
        /\ \/ /\ holds' = holds \ now[c]
              /\ \/ spent > Limit /\ Move(c, "rollback") /\ UNCHANGED offered
                 \/ spent <= Limit /\ Issue(c)
              /\ NoFault
              /\ UNCHANGED overtaken
           \/ /\ Issue(c)
              /\ overtaken' = overtaken \cup {c}
              /\ Fault
              /\ UNCHANGED holds
        /\ UNCHANGED <<prior, now, same, expired, intent, deliveryVars>>

\* The hold is given back, the record stays.
releaseIntentReservation(c) ==
    /\ step[c] = "rollback"
    /\ \/ holds' = holds \ {c} /\ Move(c, "rolled_back") /\ NoFault
       \/ UNCHANGED holds /\ Move(c, "refused") /\ Fault
    /\ UNCHANGED <<prior, now, same, offered, overtaken, expired, intent, deliveryVars>>

Authorising == {"history", "reservations", "already_open", "save", "record", "reread",
                "rollback"}

\* The request dies; a hold it wrote stays until it expires.
Abandon(c) ==
    /\ step[c] \in Authorising
    /\ Move(c, "refused")
    /\ same' = [same EXCEPT ![c] = NoOne]
    /\ Fault
    /\ UNCHANGED <<prior, now, offered, overtaken, holds, expired, intent, deliveryVars>>

Decided == {"issued", "refused", "rolled_back"}

\* The lifetime of a link is that of its hold.
Expire(c) ==
    /\ c \notin expired
    /\ step[c] \in Decided
    /\ c \in holds \cup offered
    /\ expired' = expired \cup {c}
    /\ UNCHANGED <<checkoutVars, holds, intent, deliveryVars, faults>>

\* Fygaro captures a payment, on a link some customer was given or without one. A
\* link may be paid twice, and a payment that was begun in the window of the link
\* may be captured after it.
Pay(t) ==
    /\ capture[t] = NoCapture
    /\ \E cap \in Captures[t] :
          /\ cap.intent \in offered \cup {NoOne}
          /\ capture' = [capture EXCEPT ![t] = cap]
    /\ UNCHANGED <<checkoutVars, redisVars, ghosts, expired, row, at, about, seen, found,
                   rounds, faults>>

-----------------------------------------------------------------------------
(* The payment webhook                                                     *)

Go(d, to) == at' = [at EXCEPT ![d] = to]

Next1(d, from, to) == at[d] = from /\ Go(d, to)

Link(d) == capture[about[d]].intent

\* The delivery is answered; a lock it holds is released.
Answer(d) ==
    /\ Go(d, "idle")
    /\ about' = [about EXCEPT ![d] = NoOne]
    /\ seen' = [seen EXCEPT ![d] = NoRecord]
    /\ payLock' = [t \in Transactions |-> IF payLock[t] = d THEN NoOne ELSE payLock[t]]

\* Answered with a 500, or not at all: Fygaro delivers it again.
AskAgain(d) == Go(d, "retry") /\ seen' = [seen EXCEPT ![d] = NoRecord]

inert == <<step, prior, now, same, offered, expired, capture, rounds, byHand>>
untouched == <<inert, unlanded, stranded>>
settled == <<untouched, found, undone>>

Deliver(d, t) ==
    /\ Next1(d, "idle", "audit")
    /\ capture[t] # NoCapture
    /\ rounds[t] < MaxRounds[t]
    /\ rounds[t] = 0 \/ Calls < MaxCalls
    /\ about' = [about EXCEPT ![d] = t]
    /\ rounds' = [rounds EXCEPT ![t] = @ + 1]
    /\ UNCHANGED <<checkoutVars, redisVars, ghosts, expired, capture, row, seen, found, faults>>

Redeliver(d) ==
    /\ Next1(d, "retry", "audit")
    /\ UNCHANGED <<checkoutVars, redisVars, ghosts, expired, capture, row, about, seen, found,
                   rounds, faults>>

\* Authorisations that have read the history miss what is counted from now on.
Overtake == overtaken \cup {c \in Checkouts : step[c] \in Authorising \ {"history"}}

\* The row of a payment is written, after its status was found.
Put(t, status, new) ==
    LET updated == applyUpdateGuards(row[t], status, new)
    IN  /\ row' = [row EXCEPT ![t] = updated]
        /\ overtaken' = IF Counted(updated) /\ ~Counted(row[t]) THEN Overtake ELSE overtaken
        /\ undone' = IF row[t].status = "completed" /\ updated.status # "completed"
                     THEN undone \cup {t} ELSE undone

Upsert(d, new) == Put(about[d], found[d], new)

Forget(d) == found' = [found EXCEPT ![d] = "none"]

\* The first half of an upsert.
findBridgeTransferRequest(d) ==
    /\ at[d] \in {"audit", "mark", "complete"}
    /\ Go(d, CASE at[d] = "audit" -> "audit_put" [] at[d] = "mark" -> "mark_put"
               [] OTHER -> "complete_put")
    /\ found' = [found EXCEPT ![d] = row[about[d]].status]
    /\ UNCHANGED <<untouched, overtaken, undone, row, redisVars, sends, unanswered, reported,
                   about, seen, faults>>

\* The account is looked up and the payment recorded. A failed lookup records it
\* without its account.
writeFygaroTopupRequest(d) ==
    LET t == about[d]
        received(owned) == [status |-> "received", owned |-> owned, refused |-> FALSE]
    IN  /\ at[d] = "audit_put"
        /\ \/ /\ Upsert(d, received(capture[t].known))
              /\ Go(d, "received")
              /\ NoFault
              /\ UNCHANGED seen
           \/ Upsert(d, received(FALSE)) /\ AskAgain(d) /\ Fault
           \/ AskAgain(d) /\ Fault /\ UNCHANGED <<row, overtaken, undone>>
        /\ Forget(d)
        /\ UNCHANGED <<untouched, redisVars, sends, unanswered, reported, about>>

\* The outcome of the payment, stamped on the record of its link; a failure, or
\* the third lost race of the compare-and-set, leaves the record.
recordOutcome(d, state) ==
    \/ Link(d) = NoOne /\ UNCHANGED intent /\ NoFault
    \/ /\ Link(d) # NoOne
       /\ \/ /\ intent' = [intent EXCEPT ![Link(d)] =
                              mergeIntentOutcome(@, [state |-> state, tx |-> about[d]])]
             /\ NoFault
          \/ UNCHANGED intent /\ Fault

StampReceived(d) ==
    /\ Next1(d, "received", "lookup")
    /\ recordOutcome(d, "received")
    /\ UNCHANGED <<settled, overtaken, row, holds, dedupe, payLock, sendLock, remembered,
                   sends, unanswered, reported, about, seen>>

lookupIntent(d) ==
    /\ Next1(d, "lookup", IF capture[about[d]].known THEN "gate" ELSE "unattributed")
    /\ \/ Link(d) = NoOne /\ UNCHANGED seen /\ NoFault
       \/ Link(d) # NoOne /\ seen' = [seen EXCEPT ![d] = intent[Link(d)]] /\ NoFault
       \/ Link(d) # NoOne /\ UNCHANGED seen /\ Fault
    /\ UNCHANGED <<settled, overtaken, row, redisVars, sends, unanswered, reported, about>>

\* Refusals answer a repetition from the timelock, and tell ops the first time (the
\* feed alone where crediting is switched off). A redis that cannot be asked answers
\* like a timelock that is taken: the payment counts as handled.
ClaimDedupe(d, from, first) ==
    LET t == about[d]
    IN  /\ at[d] = from
        /\ \/ /\ t \in dedupe
              /\ Go(d, "held")
              /\ NoFault
              /\ UNCHANGED <<dedupe, reported, stranded>>
           \/ /\ t \notin dedupe
              /\ Go(d, first)
              /\ dedupe' = dedupe \cup {t}
              /\ reported' = reported \cup {t}
              /\ NoFault
              /\ UNCHANGED stranded
           \/ /\ Go(d, "held")
              /\ stranded' = stranded \cup {t}
              /\ Fault
              /\ UNCHANGED <<dedupe, reported>>
        /\ UNCHANGED <<inert, unlanded, found, undone, overtaken, row, holds, intent, payLock,
                       sendLock, remembered, sends, unanswered, about, seen>>

HoldUnattributed(d) == ClaimDedupe(d, "unattributed", "release_held")

\* Mutant: the hold is left to expire.
LeaveHold(d, from, to) ==
    /\ Next1(d, from, to)
    /\ UNCHANGED <<settled, overtaken, row, redisVars, sends, unanswered, reported, about,
                   seen, faults>>

\* The hold of the intent that was looked up is given back.
releaseAuthorizedHold(d, from, to) ==
    /\ Next1(d, from, to)
    /\ \/ seen[d] = NoRecord /\ UNCHANGED holds /\ NoFault
       \/ seen[d] # NoRecord /\ holds' = holds \ {Link(d)} /\ NoFault
       \/ seen[d] # NoRecord /\ UNCHANGED holds /\ Fault
    /\ UNCHANGED <<settled, overtaken, row, intent, dedupe, payLock, sendLock, remembered,
                   sends, unanswered, reported, about, seen>>

\* The intent is looked up anew and its hold given back.
redeemIntent(d, from, to) ==
    /\ Next1(d, from, to)
    /\ \/ Link(d) = NoOne /\ UNCHANGED holds /\ NoFault
       \/ /\ Link(d) # NoOne
          /\ holds' = IF intent[Link(d)] = NoRecord THEN holds ELSE holds \ {Link(d)}
          /\ NoFault
       \/ Link(d) # NoOne /\ UNCHANGED holds /\ Fault
    /\ UNCHANGED <<settled, overtaken, row, intent, dedupe, payLock, sendLock, remembered,
                   sends, unanswered, reported, about, seen>>

\* A payment of another amount than its intent was authorised for.
Mismatch(d) == seen[d] # NoRecord /\ capture[about[d]].cents # Cents[Link(d)]

WithinLimit(d) ==
    capture[about[d]].cents + sumFygaroTopupGrossCentsSince({about[d]}) <= Limit

\* Mutant: an unreadable history is answered like a refusal.
RefuseUnread(d) ==
    /\ at[d] = "gate"
    /\ \/ Go(d, IF ~Mismatch(d) /\ WithinLimit(d) THEN "lock" ELSE "refuse") /\ NoFault
          /\ UNCHANGED <<about, seen, payLock>>
       \/ Answer(d) /\ Fault
    /\ UNCHANGED <<settled, overtaken, row, holds, intent, dedupe, sendLock, remembered,
                   sends, unanswered, reported>>

\* Settings, history and the credit gate. Besides the daily limit, any other
\* reason may refuse, as the settings stand; settings or history that cannot be
\* read ask for a retry.
Gate(d) ==
    /\ at[d] = "gate"
    /\ \/ Go(d, "refuse") /\ NoFault /\ UNCHANGED seen
       \/ ~Mismatch(d) /\ WithinLimit(d) /\ Go(d, "lock") /\ NoFault /\ UNCHANGED seen
       \/ ~Mismatch(d) /\ AskAgain(d) /\ Fault
    /\ UNCHANGED <<settled, overtaken, row, redisVars, sends, unanswered, reported, about>>

\* Mutant: any credit on the link counts as the credit of this payment.
AnyCredit(d) ==
    /\ at[d] = "refuse"
    /\ \/ /\ Go(d, IF row[about[d]].status = "completed" \/ seen[d].state = "credited"
                   THEN "again" ELSE "dedupe")
          /\ NoFault
       \/ /\ Go(d, IF seen[d].state = "credited" THEN "again" ELSE "dedupe")
          /\ Fault
    /\ UNCHANGED <<settled, overtaken, row, redisVars, sends, unanswered, reported, about,
                   seen>>

\* A refusal of a payment that was credited before is ignored. The row and the
\* outcome looked up earlier are the two marks of a credit.
CheckCredited(d) ==
    LET marked == seen[d].state = "credited" /\ seen[d].tx = about[d]
    IN  /\ at[d] = "refuse"
        /\ \/ /\ Go(d, IF row[about[d]].status = "completed" \/ marked
                       THEN "again" ELSE "dedupe")
              /\ NoFault
           \/ Go(d, IF marked THEN "again" ELSE "dedupe") /\ Fault
        /\ UNCHANGED <<settled, overtaken, row, redisVars, sends, unanswered, reported, about,
                       seen>>

RefuseOnce(d) == ClaimDedupe(d, "dedupe", "redeem_refused")

markFygaroTopupNotCredited(d) ==
    /\ Next1(d, "mark_put", "held")
    /\ \/ Upsert(d, [status |-> "received", owned |-> TRUE, refused |-> TRUE]) /\ NoFault
       \/ UNCHANGED <<row, overtaken, undone>> /\ Fault
    /\ Forget(d)
    /\ UNCHANGED <<untouched, redisVars, sends, unanswered, reported, about, seen>>

\* The stamps a handler ends with.
StampAndAnswer(d) ==
    /\ at[d] \in {"held", "failed", "again"}
    /\ recordOutcome(d, IF at[d] = "again" THEN "credited" ELSE at[d])
    /\ Answer(d)
    /\ UNCHANGED <<settled, overtaken, row, holds, dedupe, sendLock, remembered, sends,
                   unanswered, reported>>

\* Mutant: deliveries of one payment are not kept apart.
CreditUnlocked(d) ==
    /\ Next1(d, "lock", "completion")
    /\ UNCHANGED <<settled, overtaken, row, redisVars, sends, unanswered, reported, about,
                   seen, faults>>

\* The lock is taken, or its holder is left to it. A redis that cannot be asked
\* answers like a lock that is taken: the delivery is answered with a 200.
lockPaymentIdempotencyKey(d) ==
    LET t == about[d]
    IN  /\ at[d] = "lock"
        /\ \/ /\ payLock[t] = NoOne
              /\ payLock' = [payLock EXCEPT ![t] = d]
              /\ Go(d, "completion")
              /\ NoFault
              /\ UNCHANGED <<about, seen, stranded>>
           \/ payLock[t] # NoOne /\ Answer(d) /\ NoFault /\ UNCHANGED stranded
           \/ Answer(d) /\ Fault /\ stranded' = stranded \cup {t}
        /\ UNCHANGED <<inert, unlanded, found, undone, overtaken, row, holds, intent, dedupe,
                       sendLock, remembered, sends, unanswered, reported>>

\* Mutant: the credit path does not look for an earlier completion.
AssumeNotCompleted(d) ==
    /\ Next1(d, "completion", "credit")
    /\ UNCHANGED <<settled, overtaken, row, redisVars, sends, unanswered, reported, about,
                   seen, faults>>

\* A completed row ends the credit path. A row that cannot be read does not.
readFygaroTopupCompletion(d) ==
    /\ at[d] = "completion"
    /\ \/ Go(d, IF row[about[d]].status = "completed" THEN "again" ELSE "credit") /\ NoFault
       \/ Go(d, "credit") /\ Fault
    /\ UNCHANGED <<settled, overtaken, row, redisVars, sends, unanswered, reported, about,
                   seen>>

\* The credit is given up: ops is told, the hold given back.
GiveUp(d) ==
    /\ Go(d, "release_failed")
    /\ reported' = reported \cup {about[d]}

\* Wallets are resolved and the send entered under its own key, which answers a
\* repetition from its cache and lets one send run at a time.
creditFygaroTopup(d) ==
    LET t == about[d]
    IN  /\ at[d] = "credit"
        /\ \/ t \in remembered /\ Go(d, "complete") /\ UNCHANGED <<sendLock, reported>>
           \/ GiveUp(d) /\ UNCHANGED sendLock
           \/ /\ t \notin remembered
              /\ sendLock[t] = NoOne
              /\ sendLock' = [sendLock EXCEPT ![t] = d]
              /\ Go(d, "sending")
              /\ UNCHANGED reported
        /\ UNCHANGED <<settled, overtaken, row, holds, intent, dedupe, payLock, remembered,
                       sends, unanswered, about, seen, faults>>

FreeSendLock(d) ==
    sendLock' = [t \in Transactions |-> IF sendLock[t] = d THEN NoOne ELSE sendLock[t]]

\* The intraledger send from the treasury: made, refused, or made with its answer
\* lost. A send that is pending is taken for made, and fails in the end or not.
Send(d) ==
    LET t == about[d]
        made == sends' = [sends EXCEPT ![t] = @ + 1]
    IN  /\ at[d] = "sending"
        /\ \/ /\ made
              /\ Go(d, "remember")
              /\ NoFault
              /\ UNCHANGED <<sendLock, unanswered, unlanded, reported>>
           \/ /\ Go(d, "pending")
              /\ unlanded' = unlanded \cup {t}
              /\ NoFault
              /\ UNCHANGED <<sendLock, sends, unanswered, reported>>
           \/ GiveUp(d) /\ FreeSendLock(d) /\ NoFault /\ UNCHANGED <<sends, unanswered, unlanded>>
           \/ /\ made /\ GiveUp(d) /\ FreeSendLock(d) /\ Fault
              /\ unanswered' = [unanswered EXCEPT ![t] = @ + 1]
              /\ UNCHANGED unlanded
        /\ UNCHANGED <<inert, stranded, found, undone, overtaken, row, holds, intent, dedupe,
                       payLock, remembered, about, seen>>

\* The send's outcome, made or pending, is put in the idempotency cache and its lock
\* released. A release that fails tells the caller that the key is busy.
Remember(d) ==
    /\ at[d] \in {"remember", "pending"}
    /\ \/ /\ remembered' = remembered \cup {about[d]}
          /\ Go(d, "complete") /\ FreeSendLock(d) /\ NoFault /\ UNCHANGED reported
       \/ /\ UNCHANGED remembered
          /\ Go(d, "complete") /\ FreeSendLock(d) /\ Fault /\ UNCHANGED reported
       \/ /\ remembered' = remembered \cup {about[d]}
          /\ sendLock' = [sendLock EXCEPT ![about[d]] = "stale"]
          /\ GiveUp(d) /\ Fault
    /\ UNCHANGED <<settled, overtaken, row, holds, intent, dedupe, payLock, sends, unanswered,
                   about, seen>>

completeFygaroTopup(d) ==
    /\ Next1(d, "complete_put", "credited")
    /\ \/ /\ Upsert(d, [status |-> "completed", owned |-> TRUE, refused |-> FALSE])
          /\ NoFault
       \/ UNCHANGED <<row, overtaken, undone>> /\ Fault
    /\ Forget(d)
    /\ UNCHANGED <<untouched, redisVars, sends, unanswered, reported, about, seen>>

StampCredited(d) ==
    /\ Next1(d, "credited", "redeem_credited")
    /\ recordOutcome(d, "credited")
    /\ UNCHANGED <<settled, overtaken, row, holds, dedupe, payLock, sendLock, remembered,
                   sends, unanswered, reported, about, seen>>

\* The push to the customer, which is not modelled, and the answer.
Announce(d) ==
    /\ at[d] = "announce"
    /\ Answer(d)
    /\ UNCHANGED <<settled, overtaken, row, holds, intent, dedupe, sendLock, remembered,
                   sends, unanswered, reported, faults>>

\* The server dies in the middle of a delivery. Its locks stay taken.
Crash(d) ==
    LET t == about[d]
        stale(l) == IF l = d THEN "stale" ELSE l
    IN  /\ at[d] \notin {"idle", "retry"}
        /\ AskAgain(d)
        /\ Fault
        /\ Forget(d)
        /\ payLock' = [x \in Transactions |-> stale(payLock[x])]
        /\ sendLock' = [x \in Transactions |-> stale(sendLock[x])]
        /\ unanswered' = IF at[d] = "remember" THEN [unanswered EXCEPT ![t] = @ + 1]
                         ELSE unanswered
        /\ stranded' = IF payLock[t] = d THEN stranded \cup {t} ELSE stranded
        /\ UNCHANGED <<inert, unlanded, overtaken, undone, row, holds, intent, dedupe, remembered,
                       sends, reported, about>>

\* The lifetime of a lock whose holder is gone ends.
LockRunsOut(t) ==
    /\ "stale" \in {payLock[t], sendLock[t]}
    /\ payLock' = [payLock EXCEPT ![t] = IF @ = "stale" THEN NoOne ELSE @]
    /\ sendLock' = [sendLock EXCEPT ![t] = IF @ = "stale" THEN NoOne ELSE @]
    /\ UNCHANGED <<checkoutVars, ghosts, expired, capture, row, at, about, seen, found, rounds,
                   faults, holds, intent, dedupe, remembered>>

\* A lock that cannot be extended ends under its holder.
LockLost(t) ==
    /\ payLock[t] \in Deliveries
    /\ payLock' = [payLock EXCEPT ![t] = NoOne]
    /\ Fault
    /\ UNCHANGED <<checkoutVars, ghosts, expired, capture, row, at, about, seen, found, rounds,
                   holds, intent, dedupe, sendLock, remembered>>

\* Ops credits a payment it was told of, and completes its row. A row that names
\* its account by the payer's e-mail keeps the mark of it.
HandCredit(t) ==
    /\ t \in reported \ byHand
    /\ row[t].status = "received"
    /\ byHand' = byHand \cup {t}
    /\ \E owned \in {TRUE, capture[t].known} :
          Put(t, row[t].status, [status |-> "completed", owned |-> owned, refused |-> FALSE])
    /\ UNCHANGED <<step, prior, now, same, offered, redisVars, sends, unanswered, unlanded,
                   reported, stranded, expired, capture, at, about, seen, found, rounds, faults>>

-----------------------------------------------------------------------------
Authorise(c) ==
    \/ Begin(c) \/ ReadHistory(c) \/ ReadReservations(c) \/ refuseOpenCheckout(c)
    \/ saveIntent(c) \/ SaveRecord(c) \/ ReReadReservations(c)
    \/ releaseIntentReservation(c)

paymentHandler(d) ==
    \/ findBridgeTransferRequest(d)
    \/ writeFygaroTopupRequest(d) \/ StampReceived(d) \/ lookupIntent(d)
    \/ HoldUnattributed(d)
    \/ releaseAuthorizedHold(d, "release_held", "held")
    \/ Gate(d) \/ CheckCredited(d) \/ RefuseOnce(d)
    \/ redeemIntent(d, "redeem_refused", "mark")
    \/ markFygaroTopupNotCredited(d)
    \/ lockPaymentIdempotencyKey(d) \/ readFygaroTopupCompletion(d)
    \/ creditFygaroTopup(d) \/ Send(d) \/ Remember(d)
    \/ completeFygaroTopup(d) \/ StampCredited(d)
    \/ redeemIntent(d, "redeem_credited", "announce")
    \/ Announce(d)
    \/ releaseAuthorizedHold(d, "release_failed", "failed")
    \/ StampAndAnswer(d)

Next ==
    \/ \E c \in Checkouts : Authorise(c) \/ Abandon(c) \/ Expire(c)
    \/ \E t \in Transactions : Pay(t) \/ LockRunsOut(t) \/ LockLost(t) \/ HandCredit(t)
    \/ \E d \in Deliveries :
          \/ \E t \in Transactions : Deliver(d, t)
          \/ Redeliver(d) \/ paymentHandler(d) \/ Crash(d)

Spec == Init /\ [][Next]_vars

\* Handlers run on, Fygaro delivers each payment it captured and repeats what was
\* not answered with a 200, locks run out.
Fairness ==
    /\ \A d \in Deliveries : WF_vars(paymentHandler(d) \/ Redeliver(d))
    /\ \A t \in Transactions :
          /\ WF_vars(rounds[t] = 0 /\ \E d \in Deliveries : Deliver(d, t))
          /\ WF_vars(LockRunsOut(t))

FairSpec == Spec /\ Fairness

-----------------------------------------------------------------------------
Steps == Authorising \cup Decided \cup {"start", "reoffered"}

Stages == {"idle", "retry", "audit", "received", "lookup", "unattributed", "release_held",
           "gate", "refuse", "dedupe", "redeem_refused", "mark", "held", "again", "lock",
           "completion", "credit", "sending", "remember", "pending", "complete", "credited",
           "redeem_credited", "announce", "release_failed", "failed", "audit_put", "mark_put",
           "complete_put"}

\* Every variable holds a value of its kind; prior holds sums of amounts.
TypeOK ==
    /\ step \in [Checkouts -> Steps]
    /\ now \in [Checkouts -> SUBSET Checkouts]
    /\ same \in [Checkouts -> Checkouts \cup {NoOne}]
    /\ \A c \in Checkouts : step[c] = "already_open" => same[c] # NoOne
    /\ offered \subseteq Checkouts
    /\ overtaken \subseteq Checkouts /\ holds \subseteq Checkouts
    /\ expired \subseteq Checkouts
    /\ intent \in [Checkouts -> Records]
    /\ capture \in [Transactions -> CaptureOf]
    /\ \A t \in Transactions : capture[t] \in Captures[t] \cup {NoCapture}
    /\ row \in [Transactions -> Rows]
    /\ at \in [Deliveries -> Stages]
    /\ about \in [Deliveries -> Transactions \cup {NoOne}]
    /\ \A d \in Deliveries : at[d] # "idle" => about[d] # NoOne
    /\ seen \in [Deliveries -> Records]
    /\ found \in [Deliveries -> {"none", "received", "completed"}]
    /\ rounds \in [Transactions -> Nat]
    /\ \A t \in Transactions : rounds[t] <= MaxRounds[t]
    /\ dedupe \subseteq Transactions /\ remembered \subseteq Transactions
    /\ payLock \in [Transactions -> Deliveries \cup {NoOne, "stale"}]
    /\ sendLock \in [Transactions -> Deliveries \cup {NoOne, "stale"}]
    /\ sends \in [Transactions -> Nat] /\ unanswered \in [Transactions -> Nat]
    /\ unlanded \subseteq Transactions
    /\ reported \subseteq Transactions /\ byHand \subseteq Transactions
    /\ stranded \subseteq Transactions /\ undone \subseteq Transactions
    /\ faults \in 0 .. MaxFaults

-----------------------------------------------------------------------------
(* Why the properties below hold                                           *)

\* Where a request is once its link may be in a customer's hands.
Offerable == {"reread", "rollback"} \cup Decided

\* Requests that have written a hold for a link that may be paid.
Linked ==
    {c \in Checkouts :
        \/ step[c] \in {"record", "reread", "rollback", "issued"}
        \/ c \in offered
        \/ intent[c] # NoRecord}

\* A link has its record and goes out once its request has saved it. As long as it
\* is payable and unpaid and was not rolled back it keeps its hold from the moment
\* that was written: what a request prunes had expired before it began.
LinkInv ==
    /\ \A c \in Checkouts : now[c] \subseteq expired
    /\ \A c \in expired : step[c] \in Decided
    /\ \A c \in Checkouts : c \in offered \/ intent[c] # NoRecord => step[c] \in Offerable
    /\ \A c \in Linked \ expired :
          step[c] # "rolled_back" /\ (\A t \in Transactions : capture[t].intent # c)
              => c \in holds

\* The payment was credited, by the webhook or by ops.
Paid(t) == sends[t] > 0 \/ t \in byHand

\* The webhook takes it for credited: it was, or its send was pending.
Accepted(t) == Paid(t) \/ t \in unlanded

Putting == {"audit_put", "mark_put", "complete_put"}

\* Every mark of a credit, on a row, on a record, in the cache or in the hands of
\* a delivery, is the mark of a credit of that payment, or of one that was pending.
StatusInv ==
    /\ \A t \in Transactions : row[t].status = "completed" => Accepted(t)
    /\ \A t \in remembered : Accepted(t)
    /\ \A c \in Checkouts : intent[c].state = "credited" => Accepted(intent[c].tx)
    /\ \A d \in Deliveries :
          /\ seen[d].state = "credited" => Accepted(seen[d].tx)
          /\ at[d] \notin Putting => found[d] = "none"
          /\ found[d] = "completed" => Accepted(about[d])
          /\ at[d] = "remember" => sends[about[d]] > 0
          /\ at[d] \in {"pending", "complete", "complete_put", "credited", "again"}
                => Accepted(about[d])

Sending == {"sending", "remember", "pending"}

Crediting == Sending \cup {"completion", "credit", "complete", "complete_put"}

CreditPath == Crediting \cup {"credited", "redeem_credited", "announce", "release_failed",
                              "failed", "again"}

\* A delivery holds the lock of a send while it sends, and nobody remembers a send
\* under way. It holds the credit lock from when it took it to when it answers,
\* and, as long as nothing failed, whenever it credits.
LockInv ==
    /\ \A t \in Transactions, d \in Deliveries :
          /\ sendLock[t] = d <=> about[d] = t /\ at[d] \in Sending
          /\ payLock[t] = d => about[d] = t /\ at[d] \in CreditPath
    /\ \A d \in Deliveries : at[d] = "sending" => about[d] \notin remembered
    /\ faults = 0 => \A d \in Deliveries : at[d] \in Crediting => payLock[about[d]] = d

\* A payment was captured on a link that was given out, and before it is delivered.
CaptureInv ==
    /\ \A t \in Transactions :
          /\ capture[t].intent # NoOne => capture[t].intent \in offered
          /\ capture[t] = NoCapture => rounds[t] = 0
    /\ \A d \in Deliveries : at[d] # "idle" => rounds[about[d]] > 0

\* As long as nothing failed, a link that may be paid has its record, a delivery
\* knows it once it has looked it up, and no lock outlives its holder.
Informed == {"gate", "unattributed", "release_held", "refuse", "dedupe", "lock", "completion",
             "credit", "sending", "release_failed"}

RecordInv ==
    faults = 0 =>
        /\ \A c \in Checkouts : step[c] = "reread" \/ c \in offered => intent[c] # NoRecord
        /\ \A d \in Deliveries : at[d] \in Informed /\ Link(d) # NoOne => seen[d] # NoRecord
        /\ \A t \in Transactions : payLock[t] # "stale"

Deciding == {"audit", "audit_put", "received", "lookup", "unattributed", "gate", "refuse",
             "dedupe", "lock", "completion", "credit", "sending"}

Returning == {"release_held", "redeem_refused", "release_failed", "remember", "pending",
              "complete", "complete_put", "credited", "redeem_credited"}

\* Payments whose outcome is open, and those whose link gave its hold back or is
\* about to.
Undecided ==
    {t \in Transactions : \E d \in Deliveries : about[d] = t /\ at[d] \in Deciding}

HandedBack ==
    {t \in Transactions :
        /\ rounds[t] > 0
        /\ \/ capture[t].intent \notin holds
           \/ \E d \in Deliveries : about[d] = t /\ at[d] \in Returning}

\* As long as nothing failed, what ends the handling of a payment early (a
\* completed row, a claimed timelock, a credited record, a lock another delivery
\* holds) means that its hold is in good hands.
HeldInv ==
    faults = 0 =>
        /\ dedupe \cup reported \subseteq HandedBack
        /\ \A t \in Transactions :
              /\ row[t].status = "completed" => t \in HandedBack
              /\ rounds[t] > 0 => t \in HandedBack \cup Undecided
        /\ \A c \in Checkouts : intent[c].state = "credited" => intent[c].tx \in HandedBack
        /\ \A d \in Deliveries :
              /\ seen[d].state = "credited" => seen[d].tx \in HandedBack
              /\ found[d] = "completed" => about[d] \in HandedBack
              /\ at[d] \in Deciding \cup Returning \cup {"idle"} \/ about[d] \in HandedBack

\* What stands in the way of a second credit: the cache of the send's key, the
\* lock of that key, the completed row with nobody past the reading of it, or a
\* delivery about to complete the row with the credit lock to itself.
Guarded(t) ==
    \/ t \in remembered
    \/ \E d \in Deliveries : about[d] = t /\ at[d] = "remember"
    \/ /\ faults > 0
       /\ row[t].status = "completed"
       /\ \A d \in Deliveries : about[d] = t => at[d] \notin {"credit", "sending"}
    \/ /\ faults > 0
       /\ payLock[t] \in Deliveries
       /\ at[payLock[t]] \in {"complete", "complete_put"}
       /\ \A d \in Deliveries : about[d] = t /\ at[d] \in Crediting => payLock[t] = d

OnceFor(t) ==
    \/ sends[t] <= unanswered[t]
    \/ sends[t] = 1 + unanswered[t] /\ Guarded(t)
    \/ t \in undone
    \/ faults > 1

OnceInv == \A t \in Transactions : OnceFor(t)

\* The inductive invariant.
IInv ==
    /\ TypeOK /\ LinkInv /\ StatusInv /\ LockInv /\ OnceInv
    /\ CaptureInv /\ RecordInv /\ HeldInv

\* A captured payment is credited once. The completed row and the idempotency key
\* of the send (readFygaroTopupCompletion, creditFygaroTopup) stand in for each
\* other: with one failure of a lock, a store or a server, IBEX is asked again only
\* when the answer to the first send was lost, or when a late upsert took the
\* completion of the row back.
CreditedOnce ==
    \A t \in Transactions :
        \/ sends[t] <= 1 + unanswered[t]
        \/ t \in undone
        \/ faults > 1

\* The credits of a day stay within the limit of evaluateCreditGate, whatever
\* payments are handled at once: every payment is recorded before the sum is
\* read. A payment that was refused first and let through when it was delivered
\* again is left out: its row does not count.
CapHolds ==
    CentsOf({t \in Transactions : sends[t] > 0 /\ ~row[t].refused}) <= Limit

\* A link that says its payment was credited says so of the payment that was:
\* recordOutcome and mergeIntentOutcome never lend one payment's credit to another
\* of the same link. The exception is a send that IBEX answered with "pending" and
\* that failed in the end: creditFygaroTopup reports it as credited.
StatusIsTrue ==
    \A c \in Checkouts :
        intent[c].state = "credited" =>
            \/ sends[intent[c].tx] > 0
            \/ intent[c].tx \in byHand
            \/ intent[c].tx \in unlanded

\* The allowance a link holds is given back when its payment is answered: as long
\* as no read, write, lock or server failed, releaseAuthorizedHold and redeemIntent
\* leave no payment counted twice, as a row and as a hold.
HeldOrCounted ==
    \A t \in Transactions :
        /\ capture[t].intent # NoOne
        /\ rounds[t] > 0
        /\ \A d \in Deliveries : about[d] # t
        /\ faults = 0
        => capture[t].intent \notin holds

\* A link that a customer was given, by its own request or by another that
\* refuseOpenCheckout offered it to, and that is neither paid nor expired holds its
\* part of the allowance, even when saveIntent failed to write the record. The
\* exception is a link that was offered again before its own request read the
\* reservations a second time and rolled it back.
PayableIsHeld ==
    \A c \in offered \ expired :
        \/ c \in holds
        \/ \E t \in Transactions : capture[t].intent = c
        \/ step[c] = "rolled_back"

\* Links in a customer's hands that hold their part of the allowance.
Open == (offered \cap holds) \ expired

Promised == sumFygaroTopupGrossCentsSince({}) + MapThenSumSet(LAMBDA c : Cents[c], Open)

\* authorizeFygaroTopup issues a link within what is left of the daily allowance,
\* beside the links others were issued or offered again and that hold their part of it
\* (one that was rolled back meanwhile does not), however many requests overlap,
\* unless a payment was recorded or the second reading failed since it read the
\* history.
IssuedWithinAllowance ==
    [][\A c \in Checkouts :
         step[c] = "reread" /\ step'[c] = "issued" /\ c \notin overtaken'
             => Promised' <= Limit]_vars

\* Every captured payment is credited or brought before ops by paymentHandler. The
\* exceptions are those in which the code answers with a 200 all the same: redis
\* failed at a lock or a timelock, which the code takes for another delivery at work
\* ("already_processing", "already_processed"); a server died while it held the
\* credit lock, which a retry then meets; and a pending send that failed in the end.
Attended ==
    \A t \in Transactions :
        capture[t] # NoCapture ~>
            sends[t] > 0 \/ t \in reported \/ t \in stranded \/ t \in unlanded

\* A link on which a payment was seen gets an answer, unless a step failed.
StatusSettles ==
    \A c \in Checkouts :
        intent[c].state = "received" ~> intent[c].state # "received" \/ faults > 0

\* "Statuses must only ever move forward - a Bridge retry of an early deposit event
\* must not stomp a row that has already been promoted past it" (ErpNext.ts, above
\* the ranks that upsertBridgeTransferRequest compares): no write takes back the
\* completion of a payment that the webhook has credited.
StatusesMoveForward == undone \subseteq byHand

=============================================================================
