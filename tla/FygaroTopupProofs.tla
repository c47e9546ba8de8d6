-------------------------- MODULE FygaroTopupProofs --------------------------
(***************************************************************************)
(* Proofs about FygaroTopup, for any checkouts, payments, deliveries,       *)
(* amounts, limit and number of faults: every state is well typed, a link   *)
(* that can still be paid holds its allowance, a mark of a credit is the    *)
(* mark of a credit, the two locks are held by who says so, and a payment   *)
(* is credited once.                                                        *)
(***************************************************************************)
EXTENDS FygaroTopup, TLAPS

\* A leaf goes to Zenon; the leaves that need arithmetic, records or updated
\* functions name SMT.
USE Zenon

USE DEF Go, Next1, Move, Fault, NoFault, Answer, AskAgain

\* The steps of one request, of the world around a payment, and of one delivery.
Request(c) == Authorise(c) \/ Abandon(c) \/ Expire(c)

Payment(t) == Pay(t) \/ LockRunsOut(t) \/ LockLost(t) \/ HandCredit(t)

Delivery(d) ==
    (\E t \in Transactions : Deliver(d, t)) \/ Redeliver(d) \/ paymentHandler(d) \/ Crash(d)

LEMMA NextCases ==
    Next <=> \/ \E c \in Checkouts : Request(c)
             \/ \E t \in Transactions : Payment(t)
             \/ \E d \in Deliveries : Delivery(d)
BY DEF Next, Request, Payment, Delivery

LEMMA InitTyped == Init => TypeOK
BY SMT, NoOneAssumption, AmountsAssumption, CapturesAssumption
   DEF Init, TypeOK, Steps, Stages, Records, NoRecord, Opening, NoCapture, CaptureOf, NoRow,
       Rows, Authorising, Decided

LEMMA RequestTyped ==
    ASSUME TypeOK, NEW c \in Checkouts, Request(c)
    PROVE  TypeOK'
<1> USE CapturesAssumption DEF deliveryVars, ghosts
<1> USE DEF Steps, Authorising, Decided
<1>0. /\ step \in [Checkouts -> Steps]
      /\ same \in [Checkouts -> Checkouts \cup {NoOne}]
      /\ \A x \in Checkouts : step[x] = "already_open" => same[x] # NoOne
      /\ offered \subseteq Checkouts /\ holds \subseteq Checkouts
  BY DEF TypeOK
<1>1. CASE Begin(c)  BY SMT, <1>1 DEF Begin, TypeOK
<1>2. CASE ReadHistory(c)  BY SMT, <1>2 DEF ReadHistory, TypeOK
<1>3. CASE ReadReservations(c)
  <2>1. /\ holds' \in {holds, holds \ now[c]}
        /\ faults' = faults \/ Fault
        /\ UNCHANGED <<now, offered, overtaken, expired, intent, deliveryVars>>
    BY <1>3 DEF ReadReservations
  <2>2. \/ (Move(c, "save") \/ Move(c, "refused")) /\ UNCHANGED same
        \/ Move(c, "already_open") /\ \E x \in holds : same' = [same EXCEPT ![c] = x]
    BY <1>3 DEF ReadReservations
  <2>3. holds' \subseteq Checkouts
    BY <2>1 DEF TypeOK
  <2>4. faults' \in 0 .. MaxFaults
    BY SMT, <2>1 DEF TypeOK
  <2>5. step' \in [Checkouts -> Steps] /\ same' \in [Checkouts -> Checkouts \cup {NoOne}]
    BY SMT, <1>0, <2>2
  <2>6. \A x \in Checkouts : step'[x] = "already_open" => same'[x] # NoOne
    BY SMT, <1>0, <2>2, NoOneAssumption
  <2>7. QED BY <2>1, <2>3, <2>4, <2>5, <2>6 DEF TypeOK
<1>4. CASE refuseOpenCheckout(c)
  <2>1. /\ Move(c, "reoffered") \/ Move(c, "refused")
        /\ step[c] = "already_open"
        /\ offered' \in {offered, offered \cup {same[c]}}
        /\ same' = [same EXCEPT ![c] = NoOne]
        /\ faults' = faults \/ Fault
        /\ UNCHANGED <<now, overtaken, holds, expired, intent, deliveryVars>>
    BY <1>4 DEF refuseOpenCheckout
  <2>2. faults' \in 0 .. MaxFaults
    BY SMT, <2>1 DEF TypeOK
  <2>3. /\ step' \in [Checkouts -> Steps]
        /\ \A x \in Checkouts : step'[x] = "already_open" => x # c /\ step[x] = "already_open"
    BY SMT, <1>0, <2>1
  <2>4. offered' \subseteq Checkouts
    <3>1. same[c] \in Checkouts
      BY <1>0, <2>1
    <3>2. QED BY <1>0, <2>1, <3>1
  <2>5. /\ same' \in [Checkouts -> Checkouts \cup {NoOne}]
        /\ \A x \in Checkouts : step'[x] = "already_open" => same'[x] # NoOne
    BY SMT, <1>0, <2>1, <2>3
  <2>6. QED BY <2>1, <2>2, <2>3, <2>4, <2>5 DEF TypeOK
<1>5. CASE saveIntent(c)  BY SMT, <1>5 DEF saveIntent, TypeOK
<1>6. CASE SaveRecord(c)
  <2>1. intent' \in [Checkouts -> Records]
    BY <1>6 DEF SaveRecord, TypeOK, Records, Opening
  <2>2. step' \in [Checkouts -> Steps] /\ faults' \in 0 .. MaxFaults
    BY SMT, <1>6 DEF SaveRecord, TypeOK
  <2>3. \A x \in Checkouts : step'[x] = "already_open" => step[x] = "already_open"
    BY <1>6 DEF SaveRecord, TypeOK
  <2>4. QED BY <1>6, <2>1, <2>2, <2>3 DEF SaveRecord, TypeOK
<1>7. CASE ReReadReservations(c)
  <2>1. /\ \E to \in {"rollback", "issued"} : Move(c, to)
        /\ offered' \in {offered, offered \cup {c}}
        /\ overtaken' \in {overtaken, overtaken \cup {c}}
        /\ holds' \subseteq holds
        /\ UNCHANGED <<now, same, expired, intent, deliveryVars>>
    BY <1>7 DEF ReReadReservations, Issue
  <2>2. step' \in [Checkouts -> Steps] /\ faults' \in 0 .. MaxFaults
    BY SMT, <1>7, <2>1 DEF ReReadReservations, TypeOK
  <2>3. \A x \in Checkouts : step'[x] = "already_open" => step[x] = "already_open"
    BY <2>1 DEF TypeOK
  <2>4. QED BY <2>1, <2>2, <2>3 DEF TypeOK
<1>8. CASE releaseIntentReservation(c)  BY SMT, <1>8 DEF releaseIntentReservation, TypeOK
<1>9. CASE Abandon(c)  BY SMT, <1>9 DEF Abandon, TypeOK
<1>10. CASE Expire(c)  BY <1>10 DEF Expire, TypeOK, checkoutVars
<1>11. QED
  BY <1>1, <1>2, <1>3, <1>4, <1>5, <1>6, <1>7, <1>8, <1>9, <1>10 DEF Request, Authorise

\* Writing a row leaves it a row.
LEMMA PutTyped ==
    ASSUME TypeOK, NEW t \in Transactions, NEW status \in {"none", "received", "completed"},
           NEW new \in Rows, Put(t, status, new)
    PROVE  row' \in [Transactions -> Rows] /\ overtaken' \subseteq Checkouts
           /\ undone' \subseteq Transactions
<1> DEFINE updated == applyUpdateGuards(row[t], status, new)
<1>1. updated \in Rows
  BY DEF TypeOK, applyUpdateGuards, Furthest, Rows
<1>2. /\ row' = [row EXCEPT ![t] = updated]
      /\ overtaken' \in {overtaken, Overtake}
      /\ undone' \in {undone, undone \cup {t}}
  BY DEF Put
<1> HIDE DEF updated
<1>3. QED BY <1>1, <1>2 DEF TypeOK, Overtake

LEMMA PaymentTyped ==
    ASSUME TypeOK, NEW t \in Transactions, Payment(t)
    PROVE  TypeOK'
<1> USE CapturesAssumption DEF checkoutVars, redisVars, ghosts
<1>1. CASE Pay(t)
  BY SMT, <1>1 DEF Pay, TypeOK, CaptureOf, NoCapture
<1>2. CASE LockRunsOut(t)  BY <1>2 DEF LockRunsOut, TypeOK
<1>3. CASE LockLost(t)  BY SMT, <1>3 DEF LockLost, TypeOK
<1>4. CASE HandCredit(t)
  <2>1. row[t].status \in {"none", "received", "completed"} /\ capture[t].known \in BOOLEAN
    BY DEF TypeOK, Rows, CaptureOf
  <2>2. PICK owned \in BOOLEAN :
           Put(t, row[t].status, [status |-> "completed", owned |-> owned, refused |-> FALSE])
    BY <1>4, <2>1 DEF HandCredit
  <2>3. [status |-> "completed", owned |-> owned, refused |-> FALSE] \in Rows
    BY DEF Rows
  <2>4. /\ row' \in [Transactions -> Rows] /\ overtaken' \subseteq Checkouts
        /\ undone' \subseteq Transactions
    BY <2>1, <2>2, <2>3, PutTyped
  <2>5. QED BY <1>4, <2>4 DEF HandCredit, TypeOK
<1>5. QED BY <1>1, <1>2, <1>3, <1>4 DEF Payment

\* Stamping an outcome leaves every record a record.
LEMMA StampTyped ==
    ASSUME TypeOK, NEW d \in Deliveries, at[d] # "idle", NEW state \in OutcomeStates,
           recordOutcome(d, state)
    PROVE  intent' \in [Checkouts -> Records] /\ faults' \in 0 .. MaxFaults
<1>1. about[d] \in Transactions /\ capture[about[d]].intent \in Checkouts \cup {NoOne}
  BY DEF TypeOK, CaptureOf
<1>2. [state |-> state, tx |-> about[d]] \in Records
  BY <1>1 DEF Records
<1>3. \A r \in Records : mergeIntentOutcome(r, [state |-> state, tx |-> about[d]]) \in Records
  BY <1>2 DEF mergeIntentOutcome
<1>4. intent' \in [Checkouts -> Records]
  BY SMT, <1>1, <1>3 DEF TypeOK, recordOutcome, Link
<1>5. QED BY SMT, <1>4, CapturesAssumption DEF TypeOK, recordOutcome

\* A delivery is about a captured payment from its first step to its answer.
LEMMA DeliveryTyped ==
    ASSUME TypeOK, NEW d \in Deliveries, Delivery(d)
    PROVE  TypeOK'
<1> USE CapturesAssumption, NoOneAssumption DEF checkoutVars, redisVars, ghosts, settled, untouched, inert
<1> DEFINE t == about[d]
<1>0. at[d] # "idle" => t \in Transactions
  BY DEF TypeOK
<1> HIDE DEF t
<1>1. CASE \E x \in Transactions : Deliver(d, x)
  BY SMT, <1>1 DEF Deliver, TypeOK, Stages
<1>2. CASE Redeliver(d)  BY <1>2 DEF Redeliver, TypeOK, Stages
<1>3. CASE findBridgeTransferRequest(d)
  BY <1>0, <1>3 DEF findBridgeTransferRequest, TypeOK, Stages, Rows, t
<1>4. CASE writeFygaroTopupRequest(d)
  <2>1. /\ found[d] \in {"none", "received", "completed"} /\ capture[t].known \in BOOLEAN
        /\ t \in Transactions
    BY <1>0, <1>4 DEF writeFygaroTopupRequest, TypeOK, CaptureOf
  <2>2. \A o \in BOOLEAN : [status |-> "received", owned |-> o, refused |-> FALSE] \in Rows
    BY DEF Rows
  <2>3. \/ \E o \in BOOLEAN :
             Put(t, found[d], [status |-> "received", owned |-> o, refused |-> FALSE])
        \/ UNCHANGED <<row, overtaken, undone>>
    BY <1>4, <2>1 DEF writeFygaroTopupRequest, Upsert, t
  <2>4. row' \in [Transactions -> Rows] /\ overtaken' \subseteq Checkouts
        /\ undone' \subseteq Transactions
    <3>1. ASSUME NEW o \in BOOLEAN,
                 Put(t, found[d], [status |-> "received", owned |-> o, refused |-> FALSE])
          PROVE  /\ row' \in [Transactions -> Rows] /\ overtaken' \subseteq Checkouts
                 /\ undone' \subseteq Transactions
      BY <2>1, <2>2, <3>1, PutTyped
    <3>2. CASE UNCHANGED <<row, overtaken, undone>>  BY <3>2 DEF TypeOK
    <3>3. QED BY <2>3, <3>1, <3>2
  <2>5. /\ at' \in [Deliveries -> Stages] /\ faults' \in 0 .. MaxFaults /\ at[d] # "idle"
        /\ found' \in [Deliveries -> {"none", "received", "completed"}]
    BY SMT, <1>4 DEF writeFygaroTopupRequest, TypeOK, Stages, Forget
  <2>6. seen' \in [Deliveries -> Records]
    BY <1>4 DEF writeFygaroTopupRequest, TypeOK, Records
  <2>7. \A x \in Deliveries : at'[x] # "idle" => at[x] # "idle"
    BY <1>4 DEF writeFygaroTopupRequest, TypeOK
  <2>8. QED BY <1>4, <2>4, <2>5, <2>6, <2>7 DEF writeFygaroTopupRequest, TypeOK
<1>5. CASE StampReceived(d)
  <2>1. intent' \in [Checkouts -> Records] /\ faults' \in 0 .. MaxFaults
    BY <1>5, StampTyped DEF StampReceived, OutcomeStates
  <2>2. QED BY <1>5, <2>1 DEF StampReceived, TypeOK, Stages
<1>6. CASE lookupIntent(d)
  <2>1. Link(d) \in Checkouts \cup {NoOne}
    BY <1>0, <1>6 DEF lookupIntent, TypeOK, CaptureOf, Link, t
  <2>2. seen' \in [Deliveries -> Records]
    BY <1>6, <2>1 DEF lookupIntent, TypeOK
  <2>3. at' \in [Deliveries -> Stages] /\ faults' \in 0 .. MaxFaults /\ at[d] # "idle"
    BY SMT, <1>6 DEF lookupIntent, TypeOK, Stages
  <2>4. \A x \in Deliveries : at'[x] # "idle" => at[x] # "idle"
    BY <1>6 DEF lookupIntent, TypeOK
  <2>5. QED BY <1>6, <2>2, <2>3, <2>4 DEF lookupIntent, TypeOK
<1>7. CASE HoldUnattributed(d) \/ RefuseOnce(d)
  BY SMT, <1>0, <1>7 DEF HoldUnattributed, RefuseOnce, ClaimDedupe, TypeOK, Stages, t, Records
<1>8. CASE \/ releaseAuthorizedHold(d, "release_held", "held")
           \/ releaseAuthorizedHold(d, "release_failed", "failed")
  BY SMT, <1>8 DEF releaseAuthorizedHold, TypeOK, Stages
<1>9. CASE \/ redeemIntent(d, "redeem_refused", "mark")
           \/ redeemIntent(d, "redeem_credited", "announce")
  BY SMT, <1>9 DEF redeemIntent, TypeOK, Stages
<1>10. CASE Gate(d)
  <2>1. at' \in [Deliveries -> Stages] /\ faults' \in 0 .. MaxFaults /\ at[d] # "idle"
    BY SMT, <1>10 DEF Gate, TypeOK, Stages
  <2>2. seen' \in [Deliveries -> Records]
    BY <1>10 DEF Gate, TypeOK, Records
  <2>3. \A x \in Deliveries : at'[x] # "idle" => at[x] # "idle"
    BY <1>10 DEF Gate, TypeOK
  <2>4. QED BY <1>10, <2>1, <2>2, <2>3 DEF Gate, TypeOK
<1>11. CASE CheckCredited(d)  BY SMT, <1>11 DEF CheckCredited, TypeOK, Stages
<1>12. CASE markFygaroTopupNotCredited(d)
  <2>1. found[d] \in {"none", "received", "completed"} /\ t \in Transactions
    BY <1>0, <1>12 DEF markFygaroTopupNotCredited, TypeOK
  <2>2. [status |-> "received", owned |-> TRUE, refused |-> TRUE] \in Rows
    BY DEF Rows
  <2>3. row' \in [Transactions -> Rows] /\ overtaken' \subseteq Checkouts
        /\ undone' \subseteq Transactions
    BY SMT, <1>12, <2>1, <2>2, PutTyped DEF TypeOK, markFygaroTopupNotCredited, Upsert, t
  <2>4. QED BY SMT, <1>12, <2>3 DEF markFygaroTopupNotCredited, TypeOK, Stages, Forget
<1>13. CASE lockPaymentIdempotencyKey(d)
  <2>1. /\ at[d] = "lock"
        /\ stranded' \in {stranded, stranded \cup {t}}
        /\ UNCHANGED <<inert, unlanded, found, undone, overtaken, row, holds, intent, dedupe,
                       sendLock, remembered, sends, unanswered, reported>>
    BY <1>13 DEF lockPaymentIdempotencyKey, t
  <2>2. stranded' \subseteq Transactions
    BY <1>0, <2>1 DEF TypeOK
  <2>3. CASE /\ payLock' = [payLock EXCEPT ![t] = d]
             /\ Go(d, "completion")
             /\ UNCHANGED <<about, seen, faults>>
    BY <2>1, <2>2, <2>3 DEF TypeOK, Stages
  <2>4. CASE Answer(d) /\ (NoFault \/ Fault)
    <3>1. faults' \in 0 .. MaxFaults
      BY SMT, <2>4 DEF TypeOK
    <3>2. QED BY <2>1, <2>2, <2>4, <3>1 DEF TypeOK, Stages, Records
  <2>5. QED BY <1>13, <2>3, <2>4 DEF lockPaymentIdempotencyKey, t
<1>14. CASE readFygaroTopupCompletion(d)
  BY SMT, <1>14 DEF readFygaroTopupCompletion, TypeOK, Stages
<1>15. CASE creditFygaroTopup(d)
  BY SMT, <1>0, <1>15 DEF creditFygaroTopup, TypeOK, Stages, t, GiveUp
<1>16. CASE Send(d)
  BY SMT, <1>0, <1>16 DEF Send, TypeOK, Stages, t, GiveUp, FreeSendLock
<1>17. CASE Remember(d)
  BY SMT, <1>0, <1>17 DEF Remember, TypeOK, Stages, t, FreeSendLock, GiveUp
<1>18. CASE completeFygaroTopup(d)
  <2>1. found[d] \in {"none", "received", "completed"} /\ t \in Transactions
    BY <1>0, <1>18 DEF completeFygaroTopup, TypeOK
  <2>2. [status |-> "completed", owned |-> TRUE, refused |-> FALSE] \in Rows
    BY DEF Rows
  <2>3. row' \in [Transactions -> Rows] /\ overtaken' \subseteq Checkouts
        /\ undone' \subseteq Transactions
    BY SMT, <1>18, <2>1, <2>2, PutTyped DEF TypeOK, completeFygaroTopup, Upsert, t
  <2>4. QED BY SMT, <1>18, <2>3 DEF completeFygaroTopup, TypeOK, Stages, Forget
<1>19. CASE StampCredited(d)
  <2>1. intent' \in [Checkouts -> Records] /\ faults' \in 0 .. MaxFaults
    BY <1>19, StampTyped DEF StampCredited, OutcomeStates
  <2>2. QED BY <1>19, <2>1 DEF StampCredited, TypeOK, Stages
<1>20. CASE Announce(d)
  BY <1>20 DEF Announce, TypeOK, Stages, Records
<1>21. CASE StampAndAnswer(d)
  <2>1. intent' \in [Checkouts -> Records] /\ faults' \in 0 .. MaxFaults
    BY <1>21, StampTyped DEF StampAndAnswer, OutcomeStates
  <2>2. QED BY <1>21, <2>1 DEF StampAndAnswer, TypeOK, Stages, Records
<1>22. CASE Crash(d)
  BY SMT, <1>0, <1>22 DEF Crash, TypeOK, Stages, t, Forget, Records
<1>23. QED
  BY <1>1, <1>2, <1>3, <1>4, <1>5, <1>6, <1>7, <1>8, <1>9, <1>10, <1>11, <1>12, <1>13, <1>14,
     <1>15, <1>16, <1>17, <1>18, <1>19, <1>20, <1>21, <1>22 DEF Delivery, paymentHandler

LEMMA NextTyped == TypeOK /\ [Next]_vars => TypeOK'
<1>1. TypeOK /\ Next => TypeOK'
  BY NextCases, RequestTyped, PaymentTyped, DeliveryTyped
<1>2. TypeOK /\ UNCHANGED vars => TypeOK'
  BY DEF TypeOK, vars, checkoutVars, redisVars, ghosts
<1>3. QED BY <1>1, <1>2

-----------------------------------------------------------------------------
(* Links and their holds                                                   *)

\* An outcome is stamped on no record that is not there.
LEMMA StampsRecords ==
    ASSUME TypeOK, NEW d \in Deliveries, NEW state, recordOutcome(d, state)
    PROVE  \A c \in Checkouts : intent[c] = NoRecord => intent'[c] = NoRecord
<1>1. intent \in [Checkouts -> Records]
  BY DEF TypeOK
<1>2. \A new : mergeIntentOutcome(NoRecord, new) = NoRecord
  BY DEF mergeIntentOutcome, DropsStamp, NoRecord
<1>3. QED BY <1>1, <1>2 DEF recordOutcome

\* A delivery leaves the requests alone, makes no record, and gives back no hold but
\* the one of the link that was paid.
LEMMA DeliveryGivesBack ==
    ASSUME TypeOK, NEW d \in Deliveries, Delivery(d)
    PROVE  /\ UNCHANGED <<step, now, offered, expired, capture, byHand>>
           /\ \A c \in Checkouts : intent[c] = NoRecord => intent'[c] = NoRecord
           /\ \/ UNCHANGED holds
              \/ at[d] # "idle" /\ holds' = holds \ {Link(d)}
<1> USE DEF checkoutVars, redisVars, ghosts, settled, untouched, inert
<1>1. ASSUME NEW x \in Transactions, Deliver(d, x)
      PROVE  UNCHANGED <<step, now, offered, expired, capture, byHand, holds, intent>>
  BY <1>1 DEF Deliver
<1>2. CASE Redeliver(d) \/ Crash(d)
  BY <1>2 DEF Redeliver, Crash
<1>3. CASE \/ findBridgeTransferRequest(d) \/ writeFygaroTopupRequest(d)
           \/ lookupIntent(d) \/ HoldUnattributed(d) \/ Gate(d) \/ CheckCredited(d)
           \/ RefuseOnce(d)
  BY <1>3 DEF findBridgeTransferRequest, writeFygaroTopupRequest, lookupIntent,
       HoldUnattributed, Gate, CheckCredited, RefuseOnce, ClaimDedupe
<1>4. CASE \/ markFygaroTopupNotCredited(d) \/ lockPaymentIdempotencyKey(d)
           \/ readFygaroTopupCompletion(d) \/ creditFygaroTopup(d) \/ Send(d)
  BY <1>4 DEF markFygaroTopupNotCredited, lockPaymentIdempotencyKey, readFygaroTopupCompletion,
       creditFygaroTopup, Send
<1>5. CASE Remember(d) \/ completeFygaroTopup(d) \/ Announce(d)
  BY <1>5 DEF Remember, completeFygaroTopup, Announce
<1>6. CASE \/ releaseAuthorizedHold(d, "release_held", "held")
           \/ releaseAuthorizedHold(d, "release_failed", "failed")
  BY <1>6 DEF releaseAuthorizedHold
<1>7. CASE \/ redeemIntent(d, "redeem_refused", "mark")
           \/ redeemIntent(d, "redeem_credited", "announce")
  BY <1>7 DEF redeemIntent
<1>8. CASE StampReceived(d) \/ StampCredited(d) \/ StampAndAnswer(d)
  <2>1. \E state : recordOutcome(d, state)
    BY <1>8 DEF StampReceived, StampCredited, StampAndAnswer
  <2>2. \A c \in Checkouts : intent[c] = NoRecord => intent'[c] = NoRecord
    BY <2>1, StampsRecords
  <2>3. QED BY <1>8, <2>2 DEF StampReceived, StampCredited, StampAndAnswer
<1>9. QED BY <1>1, <1>2, <1>3, <1>4, <1>5, <1>6, <1>7, <1>8 DEF Delivery, paymentHandler

LEMMA InitLink == Init => LinkInv
<1> SUFFICES ASSUME Init PROVE LinkInv
  OBVIOUS
<1>1. \A c \in Checkouts :
         /\ c \in Opened => step[c] = "issued"
         /\ c \notin Opened => step[c] = "start" /\ intent[c] = NoRecord
         /\ now[c] = {}
  BY DEF Init
<1>2. offered = Opened /\ holds = Opened /\ expired = {}
  BY DEF Init
<1>3. QED BY <1>1, <1>2 DEF LinkInv, Linked, Offerable, Decided

LEMMA NextLink == TypeOK /\ LinkInv /\ [Next]_vars => LinkInv'
<1> SUFFICES ASSUME TypeOK, LinkInv, [Next]_vars PROVE LinkInv'
  OBVIOUS
<1>1. ASSUME NEW c \in Checkouts, Request(c) PROVE LinkInv'
  <2> USE DEF LinkInv, Linked, Offerable, Decided, deliveryVars
  <2>0. /\ step \in [Checkouts -> Steps] /\ now \in [Checkouts -> SUBSET Checkouts]
        /\ intent \in [Checkouts -> Records] /\ expired \subseteq Checkouts
        /\ step[c] = "already_open" => same[c] \in Checkouts
    BY DEF TypeOK
  <2>1. CASE Begin(c)  BY SMT, <2>0, <2>1 DEF Begin
  <2>2. CASE ReadHistory(c)  BY SMT, <2>0, <2>2 DEF ReadHistory
  <2>3. CASE ReadReservations(c)
    <3>1. /\ step[c] = "reservations"
          /\ \E to \in {"save", "already_open", "refused"} : Move(c, to)
          /\ holds' \in {holds, holds \ now[c]}
          /\ UNCHANGED <<now, offered, expired, intent, capture>>
      BY <2>3 DEF ReadReservations
    <3>2. QED BY SMT, <2>0, <3>1
  <2>4. CASE refuseOpenCheckout(c)
    <3>1. /\ step[c] = "already_open" /\ same[c] \in Checkouts
          /\ \E to \in {"reoffered", "refused"} : Move(c, to)
          /\ \/ UNCHANGED offered
             \/ intent[same[c]].state = "open" /\ offered' = offered \cup {same[c]}
          /\ UNCHANGED <<now, holds, expired, intent, capture>>
      BY <2>0, <2>4 DEF refuseOpenCheckout
    <3>2. intent[same[c]].state = "open" => intent[same[c]] # NoRecord
      BY SMT DEF NoRecord
    <3>3. QED BY SMT, <2>0, <3>1, <3>2
  <2>5. CASE saveIntent(c)  BY SMT, <2>0, <2>5 DEF saveIntent
  <2>6. CASE SaveRecord(c)  BY SMT, <2>0, <2>6 DEF SaveRecord
  <2>7. CASE ReReadReservations(c)
    <3>1. /\ step[c] = "reread"
          /\ \E to \in {"rollback", "issued"} : Move(c, to)
          /\ holds' \in {holds, holds \ now[c]}
          /\ offered' \in {offered, offered \cup {c}}
          /\ UNCHANGED <<now, expired, intent, capture>>
      BY <2>7 DEF ReReadReservations, Issue
    <3>2. QED BY SMT, <2>0, <3>1
  <2>8. CASE releaseIntentReservation(c)  BY SMT, <2>0, <2>8 DEF releaseIntentReservation
  <2>9. CASE Abandon(c)  BY SMT, <2>0, <2>9 DEF Abandon, Authorising
  <2>10. CASE Expire(c)  BY SMT, <2>0, <2>10 DEF Expire, checkoutVars
  <2> HIDE DEF LinkInv, Linked, Offerable, Decided, deliveryVars
  <2>11. QED BY <1>1, <2>1, <2>2, <2>3, <2>4, <2>5, <2>6, <2>7, <2>8, <2>9, <2>10
              DEF Request, Authorise
<1>2. ASSUME NEW t \in Transactions, Payment(t) PROVE LinkInv'
  <2>1. UNCHANGED <<step, now, offered, expired, holds, intent>>
    BY <1>2 DEF Payment, Pay, LockRunsOut, LockLost, HandCredit, checkoutVars, redisVars
  <2>2. \/ UNCHANGED capture
        \/ capture[t] = NoCapture /\ \E cap : capture' = [capture EXCEPT ![t] = cap]
    BY <1>2 DEF Payment, Pay, LockRunsOut, LockLost, HandCredit
  <2>3. \A c \in Checkouts : (\A x \in Transactions : capture'[x].intent # c) =>
                             \A x \in Transactions : capture[x].intent # c
    <3>1. \A x \in Transactions \ {t} : capture'[x] = capture[x]
      BY <2>2 DEF TypeOK
    <3>2. UNCHANGED capture \/ capture[t].intent = NoOne
      BY SMT, <2>2 DEF NoCapture
    <3>3. QED BY <3>1, <3>2, NoOneAssumption
  <2>4. QED BY <2>1, <2>3 DEF LinkInv, Linked
<1>3. ASSUME NEW d \in Deliveries, Delivery(d) PROVE LinkInv'
  <2>1. at[d] # "idle" => about[d] \in Transactions
    BY DEF TypeOK
  <2>2. /\ UNCHANGED <<step, now, offered, expired, capture>>
        /\ \A c \in Checkouts : intent[c] = NoRecord => intent'[c] = NoRecord
    BY <1>3, DeliveryGivesBack
  <2>3. Linked' \subseteq Linked
    BY <2>2 DEF Linked
  <2>4. \A c \in Checkouts : (\A t \in Transactions : capture[t].intent # c) /\ c \in holds
                                => c \in holds'
    BY <1>3, <2>1, DeliveryGivesBack DEF Link
  <2>5. QED BY <2>2, <2>3, <2>4 DEF LinkInv, Linked
<1>4. CASE UNCHANGED vars
  BY <1>4 DEF LinkInv, Linked, vars, checkoutVars, redisVars
<1>5. QED BY <1>1, <1>2, <1>3, <1>4, NextCases

\* A link that some customer was given, by its own request or by another that was
\* offered it again, and that has not expired, was not paid and was not rolled back,
\* holds its part of the allowance: saveIntent writes the hold before the record
\* that an offer needs, and what a later request prunes had expired before that
\* request began.
THEOREM PayableLinksAreHeld == Spec => []PayableIsHeld
<1>1. TypeOK /\ LinkInv => PayableIsHeld
  BY DEF TypeOK, LinkInv, Linked, PayableIsHeld
<1>2. QED BY InitTyped, InitLink, NextTyped, NextLink, <1>1, PTL DEF Spec

-----------------------------------------------------------------------------
(* Marks of a credit                                                       *)

\* A request leaves what the deliveries work on alone; the only record it writes
\* is the new one of its own link.
LEMMA RequestWrites ==
    ASSUME NEW c \in Checkouts, Request(c)
    PROVE  /\ UNCHANGED deliveryVars
           /\ \/ UNCHANGED intent
              \/ step[c] = "record" /\ intent' = [intent EXCEPT ![c] = Opening]
           /\ faults' \in {faults, faults + 1}
<1>1. CASE Begin(c) \/ ReadHistory(c) \/ ReadReservations(c) \/ refuseOpenCheckout(c)
  BY <1>1 DEF Begin, ReadHistory, ReadReservations, refuseOpenCheckout
<1>2. CASE \/ saveIntent(c) \/ SaveRecord(c) \/ ReReadReservations(c)
           \/ releaseIntentReservation(c)
  BY <1>2 DEF saveIntent, SaveRecord, ReReadReservations, releaseIntentReservation
<1>3. CASE Abandon(c) \/ Expire(c)
  BY <1>3 DEF Abandon, Expire
<1>4. QED BY <1>1, <1>2, <1>3 DEF Request, Authorise

\* The part of the type invariant that is about deliveries.
DeliveryTypes ==
    /\ at \in [Deliveries -> Stages]
    /\ about \in [Deliveries -> Transactions \cup {NoOne}]
    /\ seen \in [Deliveries -> Records]
    /\ found \in [Deliveries -> {"none", "received", "completed"}]

LEMMA InitStatus == Init => StatusInv
BY SMT DEF Init, StatusInv, NoRow, NoRecord, Opening

LEMMA RequestStatus ==
    ASSUME TypeOK, StatusInv, NEW c \in Checkouts, Request(c)
    PROVE  StatusInv'
<1>1. \A x \in Checkouts : intent'[x].state = "credited" => intent'[x] = intent[x]
  BY SMT, RequestWrites DEF TypeOK, Opening
<1>2. UNCHANGED <<row, at, about, seen, found, remembered, sends, byHand, unlanded>>
  BY RequestWrites DEF deliveryVars, ghosts
<1>3. QED BY <1>1, <1>2 DEF StatusInv, Accepted, Paid

LEMMA PaymentStatus ==
    ASSUME TypeOK, StatusInv, NEW t \in Transactions, Payment(t)
    PROVE  StatusInv'
<1>1. CASE Pay(t) \/ LockRunsOut(t) \/ LockLost(t)
  BY <1>1 DEF Pay, LockRunsOut, LockLost, StatusInv, Accepted, Paid, redisVars, ghosts
<1>2. CASE HandCredit(t)
  <2>1. /\ \A x \in Transactions \ {t} : row'[x] = row[x]
        /\ byHand' = byHand \cup {t}
        /\ UNCHANGED <<sends, unlanded, remembered, intent, at, about, seen, found>>
    BY <1>2 DEF HandCredit, Put, TypeOK, redisVars
  <2>2. QED BY <2>1 DEF StatusInv, Accepted, Paid
<1>3. QED BY <1>1, <1>2 DEF Payment

\* A row is completed only when it was, or when the write or the status it was
\* found in says so.
LEMMA PutStatus ==
    ASSUME TypeOK, StatusInv, NEW t \in Transactions, NEW status, NEW new, Put(t, status, new),
           status = "completed" \/ new.status = "completed" => Accepted(t)
    PROVE  \A x \in Transactions : row'[x].status = "completed" => Accepted(x)
<1>1. \A x \in Transactions \ {t} : row'[x] = row[x]
  BY DEF Put, TypeOK
<1>2. row'[t].status = "completed" =>
         "completed" \in {row[t].status, status, new.status}
  BY DEF Put, TypeOK, applyUpdateGuards, Furthest
<1>3. QED BY <1>1, <1>2 DEF StatusInv

\* A stamp says "credited" of a payment that was.
LEMMA StampStatus ==
    ASSUME TypeOK, StatusInv, NEW d \in Deliveries, at[d] # "idle", NEW state,
           recordOutcome(d, state), state = "credited" => Accepted(about[d])
    PROVE  \A c \in Checkouts : intent'[c].state = "credited" => Accepted(intent'[c].tx)
<1>1. \A c \in Checkouts : intent'[c] \in {intent[c], [state |-> state, tx |-> about[d]]}
  BY DEF recordOutcome, mergeIntentOutcome, TypeOK
<1>2. QED BY SMT, <1>1 DEF StatusInv

LEMMA OneMore ==
    ASSUME NEW f \in [Transactions -> Nat], NEW t \in Transactions
    PROVE  /\ [f EXCEPT ![t] = @ + 1][t] > 0
           /\ \A x \in Transactions : f[x] > 0 => [f EXCEPT ![t] = @ + 1][x] > 0
BY SMT

LEMMA DeliveryStatus ==
    ASSUME TypeOK, StatusInv, NEW d \in Deliveries, Delivery(d)
    PROVE  StatusInv'
<1> USE DEF checkoutVars, redisVars, ghosts, settled, untouched, inert, StatusInv, Accepted, Paid
<1> DEFINE t == about[d]
<1>0. DeliveryTypes /\ (at[d] # "idle" => t \in Transactions)
  BY DEF TypeOK, DeliveryTypes
<1> HIDE DEF t
<1>1. ASSUME NEW x \in Transactions, Deliver(d, x) PROVE StatusInv'
  BY <1>0, <1>1 DEF Deliver, DeliveryTypes, Putting
<1>2. CASE Redeliver(d)  BY <1>0, <1>2 DEF Redeliver, DeliveryTypes, Putting
<1>3. CASE findBridgeTransferRequest(d)
  BY <1>0, <1>3 DEF findBridgeTransferRequest, DeliveryTypes, t, Putting
<1>4. CASE writeFygaroTopupRequest(d)
  <2>1. /\ UNCHANGED <<intent, remembered, sends, byHand, unlanded, about>>
        /\ at[d] = "audit_put" /\ \E to \in {"received", "retry"} : Go(d, to)
        /\ seen' \in {seen, [seen EXCEPT ![d] = NoRecord]}
        /\ found' = [found EXCEPT ![d] = "none"]
    BY <1>4 DEF writeFygaroTopupRequest, Forget
  <2>2. CASE UNCHANGED row
    BY SMT, <1>0, <2>1, <2>2 DEF DeliveryTypes, NoRecord, Putting
  <2>3. ASSUME NEW o, Put(t, found[d], [status |-> "received", owned |-> o, refused |-> FALSE])
        PROVE  StatusInv'
    <3>1. \A x \in Transactions : row'[x].status = "completed" => Accepted(x)
      BY <1>0, <2>1, <2>3, PutStatus DEF t
    <3>2. QED BY SMT, <1>0, <2>1, <3>1 DEF DeliveryTypes, NoRecord, Putting
  <2>4. QED BY <1>4, <2>2, <2>3 DEF writeFygaroTopupRequest, Upsert, t
<1>5. CASE StampReceived(d)
  <2>1. \A c \in Checkouts : intent'[c].state = "credited" => Accepted(intent'[c].tx)
    BY <1>5, StampStatus DEF StampReceived
  <2>2. QED BY <1>0, <1>5, <2>1 DEF StampReceived, DeliveryTypes, Putting
<1>6. CASE lookupIntent(d)
  <2>1. Link(d) \in Checkouts \cup {NoOne}
    BY <1>0, <1>6 DEF lookupIntent, TypeOK, CaptureOf, Link, t
  <2>2. QED BY SMT, <1>0, <1>6, <2>1 DEF lookupIntent, DeliveryTypes, Putting
<1>7. CASE HoldUnattributed(d) \/ RefuseOnce(d)
  BY SMT, <1>0, <1>7 DEF HoldUnattributed, RefuseOnce, ClaimDedupe, DeliveryTypes, t, NoRecord, Putting
<1>8. CASE \/ releaseAuthorizedHold(d, "release_held", "held")
           \/ releaseAuthorizedHold(d, "release_failed", "failed")
  BY <1>0, <1>8 DEF releaseAuthorizedHold, DeliveryTypes, Putting
<1>9. CASE \/ redeemIntent(d, "redeem_refused", "mark")
           \/ redeemIntent(d, "redeem_credited", "announce")
  BY <1>0, <1>9 DEF redeemIntent, DeliveryTypes, Putting
<1>10. CASE Gate(d)  BY SMT, <1>0, <1>10 DEF Gate, DeliveryTypes, NoRecord, Putting
<1>11. CASE CheckCredited(d)  BY SMT, <1>0, <1>11 DEF CheckCredited, DeliveryTypes, Putting, t
<1>12. CASE markFygaroTopupNotCredited(d)
  <2>1. /\ UNCHANGED <<intent, remembered, sends, byHand, unlanded, about, seen>>
        /\ at[d] = "mark_put" /\ Go(d, "held")
        /\ found' = [found EXCEPT ![d] = "none"]
    BY <1>12 DEF markFygaroTopupNotCredited, Forget
  <2>2. \A x \in Transactions : row'[x].status = "completed" => Accepted(x)
    BY <1>0, <1>12, <2>1, PutStatus DEF markFygaroTopupNotCredited, Upsert, t
  <2>3. QED BY <1>0, <2>1, <2>2 DEF DeliveryTypes, Putting
<1>13. CASE lockPaymentIdempotencyKey(d)
  BY SMT, <1>0, <1>13 DEF lockPaymentIdempotencyKey, DeliveryTypes, t, NoRecord, Putting
<1>14. CASE readFygaroTopupCompletion(d)
  BY <1>0, <1>14 DEF readFygaroTopupCompletion, DeliveryTypes, t, Putting
<1>15. CASE creditFygaroTopup(d)
  BY SMT, <1>0, <1>15 DEF creditFygaroTopup, DeliveryTypes, t, GiveUp, Putting
<1>16. CASE Send(d)
  <2>0. /\ \A x \in Transactions : sends[x] > 0 => sends'[x] > 0
        /\ at'[d] = "remember" => sends'[t] > 0
    <3>1. /\ sends' = sends \/ sends' = [sends EXCEPT ![t] = @ + 1]
          /\ at'[d] = "remember" => sends' = [sends EXCEPT ![t] = @ + 1]
      BY <1>0, <1>16 DEF Send, DeliveryTypes, GiveUp, t
    <3>2. t \in Transactions /\ sends \in [Transactions -> Nat]
      BY <1>0, <1>16 DEF Send, TypeOK
    <3> QED BY <3>1, <3>2, OneMore
  <2>1. /\ \A x \in Transactions : Accepted(x) => Accepted(x)'
        /\ at'[d] = "remember" => sends'[t] > 0
        /\ at'[d] = "pending" => t \in unlanded'
    <3>1. unlanded \subseteq unlanded' /\ UNCHANGED byHand
      BY <1>16 DEF Send
    <3>2. at'[d] = "pending" => t \in unlanded'
      BY <1>0, <1>16 DEF Send, DeliveryTypes, GiveUp, t
    <3>3. QED BY <2>0, <3>1, <3>2
  <2>2. /\ at[d] = "sending" /\ \E to \in {"remember", "pending", "release_failed"} : Go(d, to)
        /\ UNCHANGED <<row, remembered, intent, about, seen, found>>
    BY <1>16 DEF Send, GiveUp
  <2>3. /\ remembered \subseteq Transactions
        /\ \A c \in Checkouts : intent[c].state = "credited" => intent[c].tx \in Transactions
        /\ \A x \in Deliveries : seen[x].state = "credited" => seen[x].tx \in Transactions
        /\ \A x \in Deliveries : at[x] # "idle" => about[x] \in Transactions
        /\ \A x \in Deliveries : found[x] = "completed" => at[x] # "idle"
    BY SMT DEF TypeOK, Records, NoRecord, Opening, Putting
  <2> HIDE DEF Paid
  <2>4. QED BY <1>0, <2>0, <2>1, <2>2, <2>3 DEF DeliveryTypes, t, Putting
<1>17. CASE Remember(d)
  <2>1. /\ at[d] \in {"remember", "pending"}
        /\ Go(d, "complete") \/ Go(d, "release_failed")
        /\ remembered' \in {remembered, remembered \cup {t}}
        /\ UNCHANGED <<row, sends, byHand, unlanded, intent, about, seen, found>>
    BY <1>17 DEF Remember, GiveUp, t
  <2>2. Accepted(t)
    BY <2>1 DEF t
  <2>3. QED BY <1>0, <2>1, <2>2 DEF DeliveryTypes, t, Putting
<1>18. CASE completeFygaroTopup(d)
  <2>1. /\ UNCHANGED <<intent, remembered, sends, byHand, unlanded, about, seen>>
        /\ at[d] = "complete_put" /\ Go(d, "credited")
        /\ found' = [found EXCEPT ![d] = "none"]
    BY <1>18 DEF completeFygaroTopup, Forget
  <2>2. \A x \in Transactions : row'[x].status = "completed" => Accepted(x)
    BY <1>0, <1>18, <2>1, PutStatus DEF completeFygaroTopup, Upsert, t
  <2>3. QED BY <1>0, <2>1, <2>2 DEF DeliveryTypes, Putting
<1>19. CASE StampCredited(d)
  <2>1. \A c \in Checkouts : intent'[c].state = "credited" => Accepted(intent'[c].tx)
    BY <1>19, StampStatus DEF StampCredited
  <2>2. QED BY <1>0, <1>19, <2>1 DEF StampCredited, DeliveryTypes, Putting
<1>20. CASE Announce(d)
  BY <1>0, <1>20 DEF Announce, DeliveryTypes, NoRecord, Putting
<1>21. CASE StampAndAnswer(d)
  <2>1. \A c \in Checkouts : intent'[c].state = "credited" => Accepted(intent'[c].tx)
    BY <1>21, StampStatus DEF StampAndAnswer
  <2>2. QED BY <1>0, <1>21, <2>1 DEF StampAndAnswer, DeliveryTypes, Putting, NoRecord
<1>22. CASE Crash(d)
  BY <1>0, <1>22 DEF Crash, DeliveryTypes, t, Forget, NoRecord, Putting
<1> HIDE DEF StatusInv, Accepted, Paid
<1>23. QED
  BY <1>1, <1>2, <1>3, <1>4, <1>5, <1>6, <1>7, <1>8, <1>9, <1>10, <1>11, <1>12, <1>13, <1>14,
     <1>15, <1>16, <1>17, <1>18, <1>19, <1>20, <1>21, <1>22 DEF Delivery, paymentHandler

LEMMA NextStatus == TypeOK /\ StatusInv /\ [Next]_vars => StatusInv'
<1>1. TypeOK /\ StatusInv /\ Next => StatusInv'
  BY NextCases, RequestStatus, PaymentStatus, DeliveryStatus
<1>2. StatusInv /\ UNCHANGED vars => StatusInv'
  BY DEF StatusInv, Accepted, Paid, vars, checkoutVars, redisVars, ghosts
<1>3. QED BY <1>1, <1>2

\* The record of a link says "credited" only of a payment that IBEX or ops
\* credited, or whose send IBEX had answered with "pending": the stamps of
\* recordOutcome follow the send of the payment they name, a completed row or an
\* earlier stamp of it, and mergeIntentOutcome never lends one payment's credit to
\* another of the same link.
THEOREM CreditsAreReal == Spec => []StatusIsTrue
<1>1. StatusInv => StatusIsTrue
  BY DEF StatusInv, StatusIsTrue, Accepted, Paid
<1>2. QED BY InitTyped, InitStatus, NextTyped, NextStatus, <1>1, PTL DEF Spec

-----------------------------------------------------------------------------
(* Locks                                                                   *)

USE DEF Sending

LEMMA InitLocks == Init => LockInv
BY SMT, NoOneAssumption DEF Init, LockInv, Crediting

LEMMA PaymentLocks ==
    ASSUME TypeOK, LockInv, NEW t \in Transactions, Payment(t)
    PROVE  LockInv'
<1>0. /\ payLock \in [Transactions -> Deliveries \cup {NoOne, "stale"}]
      /\ sendLock \in [Transactions -> Deliveries \cup {NoOne, "stale"}]
      /\ \A d \in Deliveries : at[d] \in Crediting => about[d] \in Transactions
      /\ faults \in Nat
  <2>1. \A d \in Deliveries : at[d] \in Crediting => about[d] \in Transactions
    BY DEF TypeOK, Crediting
  <2> QED BY SMT, <2>1 DEF TypeOK
<1>1. CASE Pay(t) \/ HandCredit(t)
  <2>1. UNCHANGED <<at, about, payLock, sendLock, remembered, faults>>
    BY <1>1 DEF Pay, HandCredit, redisVars
  <2> QED BY <2>1 DEF LockInv
<1>2. CASE LockRunsOut(t)
  <2>1. UNCHANGED <<at, about, remembered, faults>>
    BY <1>2 DEF LockRunsOut, ghosts
  <2>2. \A x \in Transactions, d \in Deliveries : payLock'[x] = d <=> payLock[x] = d
    BY <1>0, <1>2, NoOneAssumption DEF LockRunsOut
  <2>3. \A x \in Transactions, d \in Deliveries : sendLock'[x] = d <=> sendLock[x] = d
    BY <1>0, <1>2, NoOneAssumption DEF LockRunsOut
  <2> QED BY SMT, <1>0, <2>1, <2>2, <2>3 DEF LockInv
<1>3. CASE LockLost(t)
  <2>1. UNCHANGED <<at, about, sendLock, remembered>>
    BY <1>3 DEF LockLost, ghosts
  <2>2. \A x \in Transactions, d \in Deliveries : payLock'[x] = d => payLock[x] = d
    BY <1>0, <1>3, NoOneAssumption DEF LockLost
  <2>3. faults' # 0
    BY SMT, <1>0, <1>3 DEF LockLost
  <2> QED BY SMT, <2>1, <2>2, <2>3 DEF LockInv
<1>4. QED BY <1>1, <1>2, <1>3 DEF Payment

\* What the lock invariant needs of a step that takes and frees no lock.
LEMMA MovesOn ==
    ASSUME TypeOK, LockInv, NEW d \in Deliveries, NEW to \in Stages, at[d] # "idle", Go(d, to),
           at[d] \in CreditPath => to \in CreditPath,
           at[d] \in Sending <=> to \in Sending,
           to = "sending" => at[d] = "sending",
           to \in Crediting => at[d] \in Crediting,
           UNCHANGED <<about, payLock, sendLock, remembered>>,
           faults' \in {faults, faults + 1}
    PROVE  LockInv'
<1>1. /\ at'[d] = to /\ \A x \in Deliveries \ {d} : at'[x] = at[x]
      /\ faults' = 0 => faults = 0
  BY SMT, CapturesAssumption DEF TypeOK
<1>2. QED BY SMT, <1>1 DEF LockInv

\* An answer frees the credit lock.
LEMMA AnswersFree ==
    ASSUME TypeOK, LockInv, NEW d \in Deliveries, at[d] \notin Sending \cup {"idle"},
           Answer(d), UNCHANGED <<sendLock, remembered>>, faults' \in {faults, faults + 1}
    PROVE  LockInv'
<1>1. /\ at'[d] = "idle" /\ \A x \in Deliveries \ {d} : at'[x] = at[x] /\ about'[x] = about[x]
      /\ \A x \in Transactions :
            /\ payLock'[x] # d
            /\ \A y \in Deliveries \ {d} : payLock'[x] = y <=> payLock[x] = y
      /\ faults' = 0 => faults = 0
      /\ \A x \in Deliveries : at[x] # "idle" => about[x] \in Transactions
  BY SMT, NoOneAssumption DEF TypeOK
<1>2. QED BY SMT, <1>1 DEF LockInv, Crediting

\* A send that has ended gives up its lock. Nobody else is sending for the payment.
LEMMA SendsFree ==
    ASSUME TypeOK, LockInv, NEW d \in Deliveries, at[d] \in Sending,
           NEW to \in {"complete", "release_failed"}, Go(d, to),
           \A x \in Transactions :
              \/ sendLock'[x] = sendLock[x] /\ sendLock[x] # d
              \/ sendLock'[x] \in {NoOne, "stale"} /\ sendLock[x] = d,
           remembered' \in {remembered, remembered \cup {about[d]}},
           UNCHANGED <<about, payLock>>, faults' \in {faults, faults + 1}
    PROVE  LockInv'
<1>1. /\ at'[d] = to /\ \A x \in Deliveries \ {d} : at'[x] = at[x]
      /\ faults' = 0 => faults = 0
      /\ about[d] \in Transactions
  BY SMT, NoOneAssumption DEF TypeOK
<1>2. \A x \in Transactions :
         /\ sendLock'[x] # d
         /\ \A y \in Deliveries \ {d} : sendLock'[x] = y <=> sendLock[x] = y
  BY NoOneAssumption
<1>3. \A x \in Deliveries \ {d} : at[x] = "sending" => about[x] # about[d]
  BY SMT, <1>1 DEF LockInv
<1>4. QED BY SMT, <1>1, <1>2, <1>3 DEF LockInv, Crediting, CreditPath

\* Either way the lock of a send is given up, it is the lock of its sender.
LEMMA SendLockGoes ==
    ASSUME TypeOK, LockInv, NEW d \in Deliveries, at[d] \in Sending,
           FreeSendLock(d) \/ sendLock' = [sendLock EXCEPT ![about[d]] = "stale"]
    PROVE  \A x \in Transactions :
              \/ sendLock'[x] = sendLock[x] /\ sendLock[x] # d
              \/ sendLock'[x] \in {NoOne, "stale"} /\ sendLock[x] = d
<1>1. about[d] \in Transactions /\ sendLock \in [Transactions -> Deliveries \cup {NoOne, "stale"}]
  BY DEF TypeOK
<1>2. \A x \in Transactions : sendLock[x] = d <=> x = about[d]
  BY <1>1 DEF LockInv
<1>3. QED BY <1>1, <1>2 DEF FreeSendLock

LEMMA DeliveryLocks ==
    ASSUME TypeOK, LockInv, NEW d \in Deliveries, Delivery(d)
    PROVE  LockInv'
<1> USE DEF checkoutVars, redisVars, ghosts, settled, untouched, inert
<1> DEFINE t == about[d]
<1>0. DeliveryTypes /\ (at[d] # "idle" => t \in Transactions)
  BY DEF TypeOK, DeliveryTypes
<1>a. CASE /\ at[d] # "idle"
           /\ UNCHANGED <<about, payLock, sendLock, remembered>>
           /\ faults' \in {faults, faults + 1}
           /\ \E to \in Stages :
                 /\ Go(d, to)
                 /\ at[d] \in CreditPath => to \in CreditPath
                 /\ at[d] \in Sending <=> to \in Sending
                 /\ to = "sending" => at[d] = "sending"
                 /\ to \in Crediting => at[d] \in Crediting
  BY <1>a, MovesOn
<1> HIDE DEF t
<1>1. ASSUME NEW x \in Transactions, Deliver(d, x) PROVE LockInv'
  BY SMT, <1>0, <1>1 DEF Deliver, DeliveryTypes, LockInv, Crediting, CreditPath
<1>2. CASE \/ Redeliver(d) \/ findBridgeTransferRequest(d) \/ writeFygaroTopupRequest(d)
           \/ StampReceived(d) \/ lookupIntent(d) \/ HoldUnattributed(d) \/ RefuseOnce(d)
  BY <1>a, <1>2 DEF Redeliver, findBridgeTransferRequest, writeFygaroTopupRequest, StampReceived,
       recordOutcome, lookupIntent, HoldUnattributed, RefuseOnce, ClaimDedupe, Crediting, CreditPath,
       Stages
<1>3. CASE \/ releaseAuthorizedHold(d, "release_held", "held")
           \/ releaseAuthorizedHold(d, "release_failed", "failed")
           \/ redeemIntent(d, "redeem_refused", "mark")
           \/ redeemIntent(d, "redeem_credited", "announce")
  BY <1>a, <1>3 DEF releaseAuthorizedHold, redeemIntent, Crediting, CreditPath, Stages
<1>4. CASE Gate(d) \/ CheckCredited(d) \/ markFygaroTopupNotCredited(d)
           \/ readFygaroTopupCompletion(d) \/ completeFygaroTopup(d) \/ StampCredited(d)
  BY <1>a, <1>4 DEF Gate, CheckCredited, markFygaroTopupNotCredited, readFygaroTopupCompletion,
       completeFygaroTopup, StampCredited, recordOutcome, Crediting, CreditPath, Stages
<1>5. CASE lockPaymentIdempotencyKey(d)
  <2>1. at[d] = "lock" /\ UNCHANGED <<sendLock, remembered>>
    BY <1>5 DEF lockPaymentIdempotencyKey
  <2>2. CASE /\ payLock[t] = NoOne
             /\ payLock' = [payLock EXCEPT ![t] = d]
             /\ Go(d, "completion")
             /\ UNCHANGED <<about, faults>>
    <3>1. /\ at'[d] = "completion" /\ \A x \in Deliveries \ {d} : at'[x] = at[x]
          /\ payLock'[t] = d /\ \A x \in Transactions \ {t} : payLock'[x] = payLock[x]
      BY <1>0, <2>1, <2>2 DEF TypeOK
    <3>2. \A x \in Deliveries : payLock[t] # x
      BY <2>2, NoOneAssumption
    <3>3. \A x \in Deliveries : at[x] \in Crediting /\ faults = 0 => about[x] # t
      BY <3>2 DEF LockInv
    <3>4. \A x \in Deliveries : at[x] # "idle" => about[x] \in Transactions
      BY DEF TypeOK
    <3>5. QED BY SMT, <1>0, <2>1, <2>2, <3>1, <3>2, <3>3, <3>4 DEF LockInv, Crediting, CreditPath, t
  <2>3. CASE Answer(d) /\ (NoFault \/ Fault)
    BY <2>1, <2>3, AnswersFree
  <2>4. QED BY <1>5, <2>2, <2>3 DEF lockPaymentIdempotencyKey, t
<1>6. CASE creditFygaroTopup(d)
  <2>1. at[d] = "credit" /\ UNCHANGED <<about, payLock, remembered, faults>>
    BY <1>6 DEF creditFygaroTopup
  <2>2. CASE (Go(d, "complete") \/ Go(d, "release_failed")) /\ UNCHANGED sendLock
    BY <1>a, <2>1, <2>2 DEF Crediting, CreditPath, Stages
  <2>3. CASE /\ t \notin remembered
             /\ sendLock[t] = NoOne
             /\ sendLock' = [sendLock EXCEPT ![t] = d]
             /\ Go(d, "sending")
    <3>1. /\ at'[d] = "sending" /\ \A x \in Deliveries \ {d} : at'[x] = at[x]
          /\ sendLock'[t] = d /\ \A x \in Transactions \ {t} : sendLock'[x] = sendLock[x]
      BY <1>0, <2>1, <2>3 DEF TypeOK
    <3>2. \A x \in Deliveries : sendLock[t] # x
      BY <2>3, NoOneAssumption
    <3>3. QED BY SMT, <1>0, <2>1, <2>3, <3>1, <3>2 DEF LockInv, Crediting, CreditPath, t
  <2>4. QED BY <1>6, <2>2, <2>3 DEF creditFygaroTopup, GiveUp, t
<1>7. CASE Send(d)
  <2>1. at[d] = "sending" /\ UNCHANGED <<about, payLock, remembered>>
        /\ faults' \in {faults, faults + 1}
    BY <1>7 DEF Send
  <2>2. CASE (Go(d, "remember") \/ Go(d, "pending")) /\ UNCHANGED sendLock
    BY <1>a, <2>1, <2>2 DEF Crediting, CreditPath, Stages
  <2>3. CASE Go(d, "release_failed") /\ FreeSendLock(d)
    BY <2>1, <2>3, SendsFree, SendLockGoes
  <2>4. QED BY <1>7, <2>2, <2>3 DEF Send, GiveUp
<1>8. CASE Remember(d)
  <2>1. /\ at[d] \in Sending
        /\ \E to \in {"complete", "release_failed"} : Go(d, to)
        /\ FreeSendLock(d) \/ sendLock' = [sendLock EXCEPT ![about[d]] = "stale"]
        /\ remembered' \in {remembered, remembered \cup {about[d]}}
        /\ UNCHANGED <<about, payLock>> /\ faults' \in {faults, faults + 1}
    BY <1>8 DEF Remember, GiveUp
  <2>2. \A x \in Transactions :
           \/ sendLock'[x] = sendLock[x] /\ sendLock[x] # d
           \/ sendLock'[x] \in {NoOne, "stale"} /\ sendLock[x] = d
    BY <2>1, SendLockGoes
  <2> HIDE DEF Go, Sending
  <2>3. QED BY <2>1, <2>2, SendsFree
<1>9. CASE Announce(d) \/ StampAndAnswer(d)
  BY <1>9, AnswersFree DEF Announce, StampAndAnswer, recordOutcome
<1>10. CASE Crash(d)
  <2>1. /\ at'[d] = "retry" /\ \A x \in Deliveries \ {d} : at'[x] = at[x]
        /\ \A x \in Transactions :
              /\ payLock'[x] = IF payLock[x] = d THEN "stale" ELSE payLock[x]
              /\ sendLock'[x] = IF sendLock[x] = d THEN "stale" ELSE sendLock[x]
        /\ UNCHANGED <<about, remembered>>
    BY <1>10, NoOneAssumption DEF Crash, TypeOK
  <2>2. faults' # 0
    <3>1. faults' = faults + 1
      BY <1>10 DEF Crash
    <3>2. faults \in 0 .. MaxFaults
      BY DEF TypeOK
    <3>3. QED BY SMT, <3>1, <3>2
  <2>3. ASSUME NEW x \in Transactions, NEW y \in Deliveries
        PROVE  /\ sendLock'[x] = y <=> about'[y] = x /\ at'[y] \in Sending
               /\ payLock'[x] = y => about'[y] = x /\ at'[y] \in CreditPath
    <3>1. CASE y = d  BY <2>1, <3>1, NoOneAssumption
    <3>2. CASE y # d  BY SMT, <2>1, <3>2, NoOneAssumption DEF LockInv
    <3>3. QED BY <3>1, <3>2
  <2>4. \A y \in Deliveries : at'[y] = "sending" => about'[y] \notin remembered'
    BY <2>1 DEF LockInv
  <2>5. QED BY <2>2, <2>3, <2>4 DEF LockInv
<1>11. QED
  BY <1>1, <1>2, <1>3, <1>4, <1>5, <1>6, <1>7, <1>8, <1>9, <1>10 DEF Delivery, paymentHandler

LEMMA NextLocks == TypeOK /\ LockInv /\ [Next]_vars => LockInv'
<1>1. TypeOK /\ LockInv /\ (\E c \in Checkouts : Request(c)) => LockInv'
  BY SMT, RequestWrites DEF LockInv, deliveryVars, TypeOK
<1>2. TypeOK /\ LockInv /\ Next => LockInv'
  BY <1>1, NextCases, PaymentLocks, DeliveryLocks
<1>3. LockInv /\ UNCHANGED vars => LockInv'
  BY SMT DEF LockInv, vars, redisVars
<1>4. QED BY <1>2, <1>3

-----------------------------------------------------------------------------
(* One credit                                                              *)

\* What guards a credited payment goes on guarding it through the step of a
\* delivery that is not about to remember the send or to complete the row.
LEMMA GuardStays ==
    ASSUME TypeOK, LockInv, NEW t \in Transactions, Guarded(t), NEW d \in Deliveries,
           faults' \in {faults, faults + 1}, remembered \subseteq remembered',
           row[t].status = "completed" => row'[t].status = "completed",
           payLock[t] \in Deliveries \ {d} => payLock'[t] = payLock[t],
           \A x \in Deliveries \ {d} : at'[x] = at[x] /\ about'[x] = about[x],
           at[d] \notin {"remember", "complete_put"},
           at[d] = "complete" =>
              at'[d] = "complete_put" /\ payLock'[t] = payLock[t] /\ about'[d] = about[d],
           about'[d] = t /\ at'[d] \in Crediting =>
              (about[d] = t /\ at[d] \in Crediting) \/ payLock[t] \notin Deliveries,
           about'[d] = t /\ at'[d] \in {"credit", "sending"} =>
              \/ about[d] = t /\ at[d] \in {"credit", "sending"}
              \/ row[t].status # "completed"
              \/ faults = 0
    PROVE  Guarded(t)'
<1>0. faults \in Nat
  BY SMT DEF TypeOK
<1>1. CASE t \in remembered  BY <1>1 DEF Guarded
<1>2. ASSUME NEW x \in Deliveries, about[x] = t, at[x] = "remember" PROVE Guarded(t)'
  <2>1. x # d  BY <1>2
  <2>2. about'[x] = t /\ at'[x] = "remember"  BY <1>2, <2>1
  <2>3. QED BY <2>2 DEF Guarded
<1>3. CASE /\ faults > 0
           /\ row[t].status = "completed"
           /\ \A x \in Deliveries : about[x] = t => at[x] \notin {"credit", "sending"}
  <2>1. faults' > 0 /\ row'[t].status = "completed"
    BY SMT, <1>0, <1>3
  <2>2. \A x \in Deliveries : about'[x] = t => at'[x] \notin {"credit", "sending"}
    BY SMT, <1>3
  <2>3. QED BY <2>1, <2>2 DEF Guarded
<1>4. CASE /\ faults > 0
           /\ payLock[t] \in Deliveries
           /\ at[payLock[t]] \in {"complete", "complete_put"}
           /\ \A x \in Deliveries : about[x] = t /\ at[x] \in Crediting => payLock[t] = x
  <2>1. payLock'[t] = payLock[t] /\ at'[payLock[t]] \in {"complete", "complete_put"}
    BY <1>4
  <2>2. \A x \in Deliveries : about'[x] = t /\ at'[x] \in Crediting => payLock[t] = x
    BY <1>4
  <2>3. faults' > 0
    BY SMT, <1>0, <1>4
  <2>4. QED BY <1>4, <2>1, <2>2, <2>3 DEF Guarded
<1>5. QED BY <1>1, <1>2, <1>3, <1>4 DEF Guarded

\* A step that sends nothing keeps a payment credited once if it keeps what guards
\* it.
LEMMA OnceKept ==
    ASSUME TypeOK, OnceInv, NEW t \in Transactions,
           sends'[t] = sends[t], unanswered'[t] = unanswered[t], undone \subseteq undone',
           faults' \in {faults, faults + 1},
           Guarded(t) /\ t \notin undone' /\ faults' <= 1 => Guarded(t)'
    PROVE  OnceFor(t)'
<1>1. faults \in Nat
  BY SMT DEF TypeOK
<1>2. QED BY SMT, <1>1 DEF OnceInv, OnceFor

\* Nobody sends for a payment that is guarded.
LEMMA GuardedIsNotSent ==
    ASSUME TypeOK, LockInv, NEW d \in Deliveries, at[d] = "sending"
    PROVE  about[d] \in Transactions /\ ~Guarded(about[d])
<1>1. about[d] \in Transactions
  BY DEF TypeOK
<1>2. about[d] \notin remembered /\ sendLock[about[d]] = d
  BY <1>1 DEF LockInv
<1>3. \A x \in Deliveries : about[x] = about[d] => at[x] # "remember"
  BY SMT, <1>1, <1>2 DEF LockInv
<1>4. QED BY <1>1, <1>2, <1>3 DEF Guarded, Crediting

LEMMA InitOnce == Init => OnceInv
BY SMT DEF Init, OnceInv, OnceFor

LEMMA RequestOnce ==
    ASSUME TypeOK, OnceInv, NEW c \in Checkouts, Request(c)
    PROVE  OnceInv'
<1>1. /\ UNCHANGED <<sends, unanswered, undone, at, about, row, payLock, remembered>>
      /\ faults' \in {faults, faults + 1}
  BY RequestWrites DEF deliveryVars, ghosts
<1>2. faults \in Nat
  BY SMT DEF TypeOK
<1>3. QED BY SMT, <1>1, <1>2 DEF OnceInv, OnceFor, Guarded

LEMMA PaymentOnce ==
    ASSUME TypeOK, LockInv, OnceInv, NEW t \in Transactions, Payment(t)
    PROVE  OnceInv'
<1>0. faults \in Nat
  BY SMT DEF TypeOK
<1>1. CASE Pay(t)
  BY <1>1 DEF Pay, redisVars, ghosts, OnceInv, OnceFor, Guarded
<1>2. CASE LockRunsOut(t)
  <2>1. /\ UNCHANGED <<sends, unanswered, undone, at, about, row, remembered, faults>>
        /\ \A x \in Transactions : payLock[x] \in Deliveries => payLock'[x] = payLock[x]
    BY <1>2, NoOneAssumption DEF LockRunsOut, ghosts, TypeOK
  <2>2. QED BY <2>1 DEF OnceInv, OnceFor, Guarded
<1>3. CASE LockLost(t)
  <2>1. /\ UNCHANGED <<sends, unanswered, undone, at, about, row, remembered>>
        /\ faults' = faults + 1
    BY <1>3 DEF LockLost, ghosts
  <2>2. QED BY SMT, <1>0, <2>1 DEF OnceInv, OnceFor, Guarded
<1>4. CASE HandCredit(t)
  <2>1. /\ UNCHANGED <<sends, unanswered, at, about, payLock, remembered, faults>>
        /\ undone \subseteq undone'
        /\ \A x \in Transactions \ {t} : row'[x] = row[x]
        /\ row'[t].status = "completed"
    <3>1. PICK owned :
             Put(t, row[t].status, [status |-> "completed", owned |-> owned, refused |-> FALSE])
      BY <1>4 DEF HandCredit
    <3>2. \A old, was : applyUpdateGuards(old, was,
             [status |-> "completed", owned |-> owned, refused |-> FALSE]).status = "completed"
      BY DEF applyUpdateGuards, Furthest
    <3>3. /\ \A x \in Transactions \ {t} : row'[x] = row[x]
          /\ row'[t].status = "completed"
      BY <3>1, <3>2 DEF Put, TypeOK
    <3>4. QED BY <1>4, <3>1, <3>3 DEF HandCredit, redisVars, Put
  <2>2. QED BY <2>1 DEF OnceInv, OnceFor, Guarded
<1>5. QED BY <1>1, <1>2, <1>3, <1>4 DEF Payment

LEMMA FirstFault == \A f \in Nat : f + 1 <= 1 => f = 0
BY SMT

\* The steps of a delivery other than the four that decide how often a payment is
\* credited.
LEMMA QuietOnce ==
    ASSUME TypeOK, LockInv, OnceInv, NEW d \in Deliveries,
           UNCHANGED <<sends, unanswered, remembered>>, undone \subseteq undone',
           faults' \in {faults, faults + 1},
           \A x \in Transactions :
              /\ row[x].status = "completed" /\ x \notin undone' => row'[x].status = "completed"
              /\ payLock[x] \in Deliveries \ {d} => payLock'[x] = payLock[x],
           \A x \in Deliveries \ {d} : at'[x] = at[x] /\ about'[x] = about[x],
           at[d] \notin {"remember", "complete_put"},
           at[d] = "complete" => at'[d] = "complete_put" /\ UNCHANGED <<payLock, about>>,
           at'[d] \in Crediting =>
              /\ about'[d] = about[d]
              /\ at[d] \in Crediting \/ payLock[about[d]] \notin Deliveries,
           at'[d] \in {"credit", "sending"} =>
              \/ at[d] \in {"credit", "sending"}
              \/ row[about[d]].status # "completed"
              \/ faults' = faults + 1
    PROVE  OnceInv'
<1> SUFFICES ASSUME NEW t \in Transactions PROVE OnceFor(t)'
  BY DEF OnceInv
<1>1. faults \in Nat
  BY SMT DEF TypeOK
<1>2. ASSUME Guarded(t), t \notin undone', faults' <= 1 PROVE Guarded(t)'
  <2>1. row[t].status = "completed" => row'[t].status = "completed"
    BY <1>2
  <2>2. about'[d] = t /\ at'[d] \in Crediting =>
           (about[d] = t /\ at[d] \in Crediting) \/ payLock[t] \notin Deliveries
    OBVIOUS
  <2>3. about'[d] = t /\ at'[d] \in {"credit", "sending"} =>
           \/ about[d] = t /\ at[d] \in {"credit", "sending"}
           \/ row[t].status # "completed"
           \/ faults = 0
    <3>1. faults' = faults + 1 => faults = 0
      BY <1>1, <1>2, FirstFault
    <3>2. at'[d] \in {"credit", "sending"} => at'[d] \in Crediting
      BY DEF Crediting
    <3> QED BY <3>1, <3>2
  <2>4. remembered \subseteq remembered'
    OBVIOUS
  <2>5. QED BY <1>2, <2>1, <2>2, <2>3, <2>4, GuardStays
<1>3. QED BY <1>2, OnceKept

\* A write that takes a completion back leaves a trace.
LEMMA PutUndoes ==
    ASSUME TypeOK, NEW t \in Transactions, NEW status, NEW new, Put(t, status, new)
    PROVE  /\ undone \subseteq undone'
           /\ \A x \in Transactions :
                 row[x].status = "completed" /\ x \notin undone' => row'[x].status = "completed"
BY DEF Put, TypeOK

LEMMA SendingOnce ==
    ASSUME TypeOK, LockInv, OnceInv, NEW d \in Deliveries, Send(d)
    PROVE  OnceInv'
<1> SUFFICES ASSUME NEW t \in Transactions PROVE OnceFor(t)'
  BY DEF OnceInv
<1>0. faults \in Nat /\ sends[t] \in Nat /\ unanswered[t] \in Nat
  BY SMT DEF TypeOK
<1>1. /\ at[d] = "sending"
      /\ about[d] \in Transactions
      /\ ~Guarded(about[d])
  BY GuardedIsNotSent DEF Send
<1>2. /\ UNCHANGED <<about, payLock, remembered, row, undone>>
      /\ faults' \in {faults, faults + 1}
      /\ at'[d] \in {"remember", "pending", "release_failed"}
      /\ \A x \in Deliveries \ {d} : at'[x] = at[x]
  BY DEF Send, GiveUp, settled, untouched, inert, TypeOK
<1>3. \/ /\ at'[d] = "remember"
         /\ sends' = [sends EXCEPT ![about[d]] = @ + 1]
         /\ UNCHANGED unanswered
      \/ UNCHANGED <<sends, unanswered>>
      \/ /\ sends' = [sends EXCEPT ![about[d]] = @ + 1]
         /\ unanswered' = [unanswered EXCEPT ![about[d]] = @ + 1]
  BY DEF Send, GiveUp, TypeOK
<1>4. CASE t # about[d]
  <2>1. sends'[t] = sends[t] /\ unanswered'[t] = unanswered[t]
    BY <1>3, <1>4 DEF TypeOK
  <2>2. Guarded(t) => Guarded(t)'
    <3> SUFFICES ASSUME Guarded(t) PROVE Guarded(t)'
      OBVIOUS
    <3>1. /\ at[d] \notin {"remember", "complete", "complete_put"}
          /\ about'[d] # t
      BY <1>1, <1>2, <1>4
    <3>2. QED BY <1>2, <3>1, GuardStays
  <2>3. QED BY <1>2, <2>1, <2>2, OnceKept
<1>5. CASE t = about[d]
  <2>1. sends[t] <= unanswered[t] \/ t \in undone \/ faults > 1
    BY <1>1, <1>5 DEF OnceInv, OnceFor
  <2>2. at'[d] = "remember" => Guarded(t)'
    BY <1>2, <1>5 DEF Guarded
  <2>3. \/ sends'[t] = sends[t] + 1 /\ unanswered'[t] = unanswered[t] /\ at'[d] = "remember"
        \/ sends'[t] = sends[t] /\ unanswered'[t] = unanswered[t]
        \/ sends'[t] = sends[t] + 1 /\ unanswered'[t] = unanswered[t] + 1
    BY <1>3, <1>5 DEF TypeOK
  <2>4. QED BY SMT, <1>0, <1>2, <2>1, <2>2, <2>3 DEF OnceFor
<1>6. QED BY <1>4, <1>5

LEMMA RememberOnce ==
    ASSUME TypeOK, LockInv, OnceInv, NEW d \in Deliveries, Remember(d)
    PROVE  OnceInv'
<1> SUFFICES ASSUME NEW t \in Transactions PROVE OnceFor(t)'
  BY DEF OnceInv
<1>0. faults \in Nat /\ about[d] \in Transactions /\ at[d] \in {"remember", "pending"}
  BY SMT DEF TypeOK, Remember
<1>1. /\ UNCHANGED <<about, payLock, row, undone, sends, unanswered>>
      /\ \A x \in Deliveries \ {d} : at'[x] = at[x]
      /\ at'[d] \in {"complete", "release_failed"}
      /\ \/ remembered' = remembered \cup {about[d]} /\ faults' \in {faults, faults + 1}
         \/ UNCHANGED remembered /\ faults' = faults + 1 /\ at'[d] = "complete"
  BY DEF Remember, GiveUp, settled, untouched, inert, TypeOK
<1>2. ASSUME Guarded(t), faults' <= 1 PROVE Guarded(t)'
  <2>1. CASE t \in remembered'  BY <2>1 DEF Guarded
  <2>2. CASE t = about[d] /\ at[d] = "remember" /\ t \notin remembered'
    <3>1. at'[d] = "complete" /\ faults = 0 /\ faults' > 0
      BY SMT, <1>0, <1>1, <1>2, <2>2
    <3>2. \A x \in Deliveries : about[x] = t /\ at[x] \in Crediting => payLock[t] = x
      BY <3>1 DEF LockInv
    <3>3. payLock[t] = d
      BY <2>2, <3>2 DEF Crediting
    <3>4. \A x \in Deliveries : about[x] = t /\ at'[x] \in Crediting => payLock[t] = x
      BY <1>1, <3>2, <3>3
    <3>5. QED BY <1>1, <3>1, <3>3, <3>4 DEF Guarded
  <2>3. CASE ~(t = about[d] /\ at[d] = "remember") /\ t \notin remembered'
    <3>0. t \notin remembered /\ (faults > 0 => faults' > 0)
      BY SMT, <1>0, <1>1, <2>3
    <3>1. ASSUME NEW x \in Deliveries, about[x] = t, at[x] = "remember" PROVE Guarded(t)'
      BY <1>1, <2>3, <3>1 DEF Guarded
    <3>2. CASE /\ faults > 0
               /\ row[t].status = "completed"
               /\ \A x \in Deliveries : about[x] = t => at[x] \notin {"credit", "sending"}
      <4>1. \A x \in Deliveries : about'[x] = t => at'[x] \notin {"credit", "sending"}
        BY <1>1, <3>2
      <4>2. QED BY <1>1, <3>0, <3>2, <4>1 DEF Guarded
    <3>3. CASE /\ faults > 0
               /\ payLock[t] \in Deliveries
               /\ at[payLock[t]] \in {"complete", "complete_put"}
               /\ \A x \in Deliveries : about[x] = t /\ at[x] \in Crediting => payLock[t] = x
      <4>1. payLock[t] # d
        BY <1>0, <3>3
      <4>2. about[d] # t
        BY <1>0, <3>3, <4>1 DEF Crediting
      <4>3. QED BY <1>1, <3>0, <3>3, <4>1, <4>2 DEF Guarded
    <3>4. QED BY <1>2, <3>0, <3>1, <3>2, <3>3 DEF Guarded
  <2>4. QED BY <2>1, <2>2, <2>3
<1>3. QED BY <1>0, <1>1, <1>2, OnceKept

LEMMA CompleteOnce ==
    ASSUME TypeOK, LockInv, OnceInv, NEW d \in Deliveries, completeFygaroTopup(d)
    PROVE  OnceInv'
<1> SUFFICES ASSUME NEW t \in Transactions PROVE OnceFor(t)'
  BY DEF OnceInv
<1>0. faults \in Nat /\ about[d] \in Transactions /\ at[d] = "complete_put"
  BY SMT DEF TypeOK, completeFygaroTopup
<1>1. /\ UNCHANGED <<about, payLock, sends, unanswered, remembered>>
      /\ at'[d] = "credited"
      /\ \A x \in Deliveries \ {d} : at'[x] = at[x]
  BY DEF completeFygaroTopup, untouched, redisVars, TypeOK
<1>2. /\ undone \subseteq undone'
      /\ \A x \in Transactions \ {about[d]} : row'[x] = row[x]
      /\ \/ row'[about[d]].status = "completed" /\ UNCHANGED faults
         \/ row' = row /\ faults' = faults + 1
  <2> DEFINE new == [status |-> "completed", owned |-> TRUE, refused |-> FALSE]
  <2>1. \/ Put(about[d], found[d], new) /\ UNCHANGED faults
        \/ UNCHANGED <<row, undone>> /\ faults' = faults + 1
    BY DEF completeFygaroTopup, Upsert
  <2>2. CASE Put(about[d], found[d], new) /\ UNCHANGED faults
    <3>1. row \in [Transactions -> Rows]
      BY DEF TypeOK
    <3>2. row' = [row EXCEPT ![about[d]] = applyUpdateGuards(row[about[d]], found[d], new)]
      BY <2>2 DEF Put
    <3>3. applyUpdateGuards(row[about[d]], found[d], new).status = "completed"
      BY DEF applyUpdateGuards, Furthest
    <3>4. QED BY <1>0, <2>2, <3>1, <3>2, <3>3, PutUndoes
  <2>3. QED BY <2>1, <2>2
<1>3. ASSUME Guarded(t), faults' <= 1 PROVE Guarded(t)'
  <2>1. CASE t \in remembered  BY <1>1, <2>1 DEF Guarded
  <2>2. ASSUME NEW x \in Deliveries, about[x] = t, at[x] = "remember" PROVE Guarded(t)'
    BY <1>0, <1>1, <2>2 DEF Guarded
  <2>3. CASE /\ faults > 0
             /\ row[t].status = "completed"
             /\ \A x \in Deliveries : about[x] = t => at[x] \notin {"credit", "sending"}
    <3>1. faults' > 0 /\ row'[t].status = "completed"
      BY SMT, <1>0, <1>2, <2>3
    <3>2. QED BY <1>1, <2>3, <3>1 DEF Guarded
  <2>4. CASE /\ faults > 0
             /\ payLock[t] \in Deliveries
             /\ at[payLock[t]] \in {"complete", "complete_put"}
             /\ \A x \in Deliveries : about[x] = t /\ at[x] \in Crediting => payLock[t] = x
    <3>1. UNCHANGED faults /\ row'[about[d]].status = "completed"
      BY SMT, <1>0, <1>2, <1>3, <2>4
    <3>2. CASE t = about[d]
      <4>1. payLock[t] = d
        BY <1>0, <2>4, <3>2 DEF Crediting
      <4>2. \A x \in Deliveries : about'[x] = t => at'[x] \notin {"credit", "sending"}
        BY <1>1, <2>4, <4>1 DEF Crediting
      <4>3. QED BY <2>4, <3>1, <3>2, <4>2 DEF Guarded
    <3>3. CASE t # about[d]
      <4>1. payLock[t] # d
        BY <3>3 DEF LockInv
      <4>2. QED BY <1>1, <2>4, <3>1, <3>3, <4>1 DEF Guarded
    <3>4. QED BY <3>2, <3>3
  <2>5. QED BY <1>3, <2>1, <2>2, <2>3, <2>4 DEF Guarded
<1>4. QED BY <1>1, <1>2, <1>3, OnceKept

LEMMA CrashOnce ==
    ASSUME TypeOK, LockInv, OnceInv, NEW d \in Deliveries, Crash(d)
    PROVE  OnceInv'
<1> SUFFICES ASSUME NEW t \in Transactions PROVE OnceFor(t)'
  BY DEF OnceInv
<1>0. /\ faults \in Nat /\ about[d] \in Transactions
      /\ sends[t] \in Nat /\ unanswered[t] \in Nat
  <2>1. at[d] # "idle" /\ faults \in 0 .. MaxFaults
    BY DEF TypeOK, Crash
  <2>2. about[d] \in Transactions /\ sends[t] \in Nat /\ unanswered[t] \in Nat
    BY <2>1 DEF TypeOK
  <2>3. faults \in Nat
    BY SMT, <2>1
  <2>4. QED BY <2>2, <2>3
<1>1. /\ UNCHANGED <<about, sends, remembered, row, undone>>
      /\ faults' = faults + 1
      /\ \A x \in Deliveries \ {d} : at'[x] = at[x]
      /\ unanswered' = IF at[d] = "remember" THEN [unanswered EXCEPT ![about[d]] = @ + 1]
                       ELSE unanswered
  BY DEF Crash, TypeOK
<1>2. CASE at[d] = "remember" /\ t = about[d]
  <2>1. unanswered'[t] = unanswered[t] + 1
    BY <1>1, <1>2 DEF TypeOK
  <2>2. QED BY SMT, <1>0, <1>1, <2>1 DEF OnceInv, OnceFor
<1>3. CASE ~(at[d] = "remember" /\ t = about[d])
  <2>1. unanswered'[t] = unanswered[t]
    BY <1>1, <1>3 DEF TypeOK
  <2>2. ASSUME Guarded(t), faults' <= 1 PROVE Guarded(t)'
    <3>1. faults = 0
      BY SMT, <1>0, <1>1, <2>2
    <3>2. CASE t \in remembered  BY <1>1, <3>2 DEF Guarded
    <3>3. ASSUME NEW x \in Deliveries, about[x] = t, at[x] = "remember" PROVE Guarded(t)'
      BY <1>1, <1>3, <3>3 DEF Guarded
    <3>4. QED BY SMT, <2>2, <3>1, <3>2, <3>3 DEF Guarded
  <2>3. QED BY <1>1, <2>1, <2>2, OnceKept
<1>4. QED BY <1>2, <1>3

LEMMA DeliveryOnce ==
    ASSUME TypeOK, LockInv, OnceInv, NEW d \in Deliveries, Delivery(d)
    PROVE  OnceInv'
<1> USE DEF checkoutVars, redisVars, ghosts, settled, untouched, inert
<1>0. /\ DeliveryTypes
      /\ at[d] # "idle" => about[d] \in Transactions
      /\ payLock \in [Transactions -> Deliveries \cup {NoOne, "stale"}]
  BY DEF TypeOK, DeliveryTypes
<1>a. ASSUME UNCHANGED <<sends, unanswered, remembered, undone, row>>,
             faults' \in {faults, faults + 1},
             \A x \in Transactions : payLock[x] \in Deliveries \ {d} => payLock'[x] = payLock[x],
             \A x \in Deliveries \ {d} : at'[x] = at[x] /\ about'[x] = about[x],
             at[d] \notin {"remember", "complete_put"},
             at[d] = "complete" => at'[d] = "complete_put" /\ UNCHANGED <<payLock, about>>,
             at'[d] \in Crediting =>
                /\ about'[d] = about[d]
                /\ at[d] \in Crediting \/ payLock[about[d]] \notin Deliveries,
             at'[d] \in {"credit", "sending"} =>
                \/ at[d] \in {"credit", "sending"}
                \/ row[about[d]].status # "completed"
                \/ faults' = faults + 1
      PROVE  OnceInv'
  BY <1>a, QuietOnce
<1>1. ASSUME NEW x \in Transactions, Deliver(d, x) PROVE OnceInv'
  BY <1>0, <1>1, <1>a DEF Deliver, DeliveryTypes, Crediting
<1>2. CASE \/ Redeliver(d) \/ findBridgeTransferRequest(d) \/ StampReceived(d) \/ lookupIntent(d)
           \/ HoldUnattributed(d) \/ RefuseOnce(d)
  BY <1>0, <1>2, <1>a DEF Redeliver, findBridgeTransferRequest, StampReceived, recordOutcome,
       lookupIntent, HoldUnattributed, RefuseOnce, ClaimDedupe, Crediting, DeliveryTypes
<1>3. CASE \/ releaseAuthorizedHold(d, "release_held", "held")
           \/ releaseAuthorizedHold(d, "release_failed", "failed")
           \/ redeemIntent(d, "redeem_refused", "mark")
           \/ redeemIntent(d, "redeem_credited", "announce")
  BY <1>0, <1>3, <1>a DEF releaseAuthorizedHold, redeemIntent, Crediting, DeliveryTypes
<1>4. CASE Gate(d) \/ CheckCredited(d) \/ readFygaroTopupCompletion(d) \/ StampCredited(d)
           \/ creditFygaroTopup(d)
  BY <1>0, <1>4, <1>a DEF Gate, CheckCredited, readFygaroTopupCompletion, StampCredited,
       recordOutcome, creditFygaroTopup, GiveUp, Crediting, DeliveryTypes
<1>5. CASE lockPaymentIdempotencyKey(d)
  <2>1. /\ at[d] = "lock"
        /\ UNCHANGED <<sends, unanswered, remembered, undone, row>>
        /\ faults' \in {faults, faults + 1}
    BY <1>5 DEF lockPaymentIdempotencyKey
  <2>2. CASE /\ payLock[about[d]] = NoOne
             /\ payLock' = [payLock EXCEPT ![about[d]] = d]
             /\ Go(d, "completion")
             /\ UNCHANGED about
    <3>1. /\ at'[d] = "completion" /\ \A x \in Deliveries \ {d} : at'[x] = at[x]
          /\ payLock[about[d]] \notin Deliveries
          /\ \A x \in Transactions : payLock[x] \in Deliveries => payLock'[x] = payLock[x]
      BY <1>0, <2>2, NoOneAssumption DEF DeliveryTypes
    <3>2. QED BY <1>a, <2>1, <2>2, <3>1 DEF Crediting
  <2>3. CASE Answer(d)
    <3>1. /\ at'[d] = "idle"
          /\ \A x \in Deliveries \ {d} : at'[x] = at[x] /\ about'[x] = about[x]
          /\ \A x \in Transactions : payLock[x] \in Deliveries \ {d} => payLock'[x] = payLock[x]
      BY <1>0, <2>3 DEF DeliveryTypes
    <3>2. QED BY <1>a, <2>1, <3>1 DEF Crediting
  <2>4. QED BY <1>5, <2>2, <2>3 DEF lockPaymentIdempotencyKey
<1>6. CASE Announce(d) \/ StampAndAnswer(d)
  BY <1>0, <1>6, <1>a DEF Announce, StampAndAnswer, recordOutcome, Crediting, DeliveryTypes
<1>7. CASE writeFygaroTopupRequest(d) \/ markFygaroTopupNotCredited(d)
  <2>1. /\ UNCHANGED <<sends, unanswered, remembered, payLock, about>>
        /\ faults' \in {faults, faults + 1}
        /\ at[d] \in {"audit_put", "mark_put"}
        /\ at'[d] \in {"received", "retry", "held"}
        /\ \A x \in Deliveries \ {d} : at'[x] = at[x]
    BY <1>0, <1>7 DEF writeFygaroTopupRequest, markFygaroTopupNotCredited, DeliveryTypes
  <2>2. UNCHANGED <<row, undone>> \/ \E status, new : Put(about[d], status, new)
    BY <1>7 DEF writeFygaroTopupRequest, markFygaroTopupNotCredited, Upsert
  <2>3. /\ undone \subseteq undone'
        /\ \A x \in Transactions :
              row[x].status = "completed" /\ x \notin undone' => row'[x].status = "completed"
    BY <1>0, <2>1, <2>2, PutUndoes
  <2>4. QED BY <2>1, <2>3, QuietOnce DEF Crediting
<1>8. QED
  BY <1>1, <1>2, <1>3, <1>4, <1>5, <1>6, <1>7, SendingOnce, RememberOnce, CompleteOnce, CrashOnce
     DEF Delivery, paymentHandler

LEMMA NextOnce == TypeOK /\ LockInv /\ OnceInv /\ [Next]_vars => OnceInv'
<1>1. TypeOK /\ LockInv /\ OnceInv /\ Next => OnceInv'
  BY NextCases, RequestOnce, PaymentOnce, DeliveryOnce
<1>2. OnceInv /\ UNCHANGED vars => OnceInv'
  BY DEF OnceInv, OnceFor, Guarded, vars, redisVars, ghosts
<1>3. QED BY <1>1, <1>2

\* A captured payment is credited once: with at most one failure of a lock, a
\* store or a server, IBEX is asked for a second credit only when the answer to
\* the first was lost, or when a late upsert took the completion of the row back.
\* The cache of the send's key, its lock, the completed row and the credit lock
\* stand in for each other.
THEOREM PaymentsAreCreditedOnce == Spec => []CreditedOnce
<1>1. TypeOK /\ OnceInv => CreditedOnce
  <2>1. SUFFICES ASSUME TypeOK, OnceInv, NEW t \in Transactions
                 PROVE  sends[t] <= 1 + unanswered[t] \/ t \in undone \/ faults > 1
    BY DEF CreditedOnce
  <2>2. sends[t] \in Nat /\ unanswered[t] \in Nat
    BY <2>1 DEF TypeOK
  <2>3. sends[t] <= unanswered[t] \/ sends[t] = 1 + unanswered[t] \/ t \in undone \/ faults > 1
    BY <2>1 DEF OnceInv, OnceFor
  <2>4. QED BY SMT, <2>2, <2>3
<1>2. QED
  BY InitTyped, InitLocks, InitOnce, NextTyped, NextLocks, NextOnce, <1>1, PTL DEF Spec

=============================================================================
