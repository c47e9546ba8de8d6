--------------------------- MODULE FygaroHoldProofs ---------------------------
(***************************************************************************)
(* The allowance a checkout holds: what a delivery knows of its capture and *)
(* of its link, when it has decided to give the hold back, and so that a    *)
(* payment that was decided no longer holds any, unless something failed on *)
(* the way.  With the invariants of FygaroTopupProofs this completes the    *)
(* inductive invariant.                                                     *)
(***************************************************************************)
EXTENDS FygaroTopupProofs

\* A leaf goes to Zenon; the leaves that need arithmetic, records or updated
\* functions name SMT.
USE Zenon

USE DEF Go, Next1, Move, Fault, NoFault, Answer, AskAgain

-----------------------------------------------------------------------------
(* Captured payments and what is known of them                             *)

\* A request moves its own checkout, and takes no link back that a customer was
\* given. A link is given out by its own request, or again while its record is open.
LEMMA RequestMoves ==
    ASSUME TypeOK, NEW c \in Checkouts, Request(c)
    PROVE  /\ \A x \in Checkouts \ {c} : step'[x] = step[x]
           /\ offered \subseteq offered'
           /\ \A x \in offered' \ offered :
                 \/ x = c /\ step[c] = "reread"
                 \/ intent[x].state = "open"
<1>0. step \in [Checkouts -> Steps]
  BY DEF TypeOK
<1>1. CASE Begin(c) \/ ReadHistory(c) \/ ReadReservations(c)
  BY <1>0, <1>1 DEF Begin, ReadHistory, ReadReservations
<1>2. CASE refuseOpenCheckout(c)
  BY <1>0, <1>2 DEF refuseOpenCheckout
<1>3. CASE saveIntent(c) \/ SaveRecord(c) \/ releaseIntentReservation(c)
  BY <1>0, <1>3 DEF saveIntent, SaveRecord, releaseIntentReservation
<1>4. CASE ReReadReservations(c)
  BY <1>0, <1>4 DEF ReReadReservations, Issue
<1>5. CASE Abandon(c) \/ Expire(c)
  BY <1>0, <1>5 DEF Abandon, Expire, checkoutVars
<1>6. QED BY <1>1, <1>2, <1>3, <1>4, <1>5 DEF Request, Authorise

\* A delivery stays with its payment until it is answered.
LEMMA DeliveryKeeps ==
    ASSUME TypeOK, NEW d \in Deliveries, Redeliver(d) \/ paymentHandler(d) \/ Crash(d)
    PROVE  /\ at[d] # "idle"
           /\ at'[d] = "idle" \/ about'[d] = about[d]
           /\ \A x \in Deliveries \ {d} :
                 /\ at'[x] = at[x] /\ about'[x] = about[x]
                 /\ seen'[x] = seen[x] /\ found'[x] = found[x]
           /\ UNCHANGED <<rounds, capture, byHand>>
           /\ faults' \in {faults, faults + 1}
<1> USE DEF checkoutVars, redisVars, ghosts, settled, untouched, inert, DeliveryTypes
<1>0. DeliveryTypes
  BY DEF TypeOK
<1>1. CASE \/ Redeliver(d) \/ findBridgeTransferRequest(d) \/ StampReceived(d) \/ lookupIntent(d)
           \/ HoldUnattributed(d) \/ RefuseOnce(d)
  BY <1>0, <1>1 DEF Redeliver, findBridgeTransferRequest, StampReceived, recordOutcome,
       lookupIntent, HoldUnattributed, RefuseOnce, ClaimDedupe
<1>2. CASE \/ releaseAuthorizedHold(d, "release_held", "held")
           \/ releaseAuthorizedHold(d, "release_failed", "failed")
           \/ redeemIntent(d, "redeem_refused", "mark")
           \/ redeemIntent(d, "redeem_credited", "announce")
  BY <1>0, <1>2 DEF releaseAuthorizedHold, redeemIntent
<1>3. CASE Gate(d) \/ CheckCredited(d) \/ readFygaroTopupCompletion(d) \/ StampCredited(d)
           \/ creditFygaroTopup(d)
  BY <1>0, <1>3 DEF Gate, CheckCredited, readFygaroTopupCompletion, StampCredited,
       recordOutcome, creditFygaroTopup, GiveUp
<1>4. CASE lockPaymentIdempotencyKey(d) \/ Announce(d) \/ StampAndAnswer(d)
  BY <1>0, <1>4 DEF lockPaymentIdempotencyKey, Announce, StampAndAnswer, recordOutcome
<1>5. CASE writeFygaroTopupRequest(d) \/ markFygaroTopupNotCredited(d) \/ completeFygaroTopup(d)
  BY <1>0, <1>5 DEF writeFygaroTopupRequest, markFygaroTopupNotCredited, completeFygaroTopup,
       Forget
<1>6. CASE Send(d) \/ Remember(d) \/ Crash(d)
  BY <1>0, <1>6 DEF Send, GiveUp, Remember, Crash, Forget
<1>7. QED BY <1>1, <1>2, <1>3, <1>4, <1>5, <1>6 DEF paymentHandler

LEMMA InitCapture == Init => CaptureInv
BY SMT DEF Init, CaptureInv, NoCapture

LEMMA NextCapture == TypeOK /\ CaptureInv /\ [Next]_vars => CaptureInv'
<1> SUFFICES ASSUME TypeOK, CaptureInv, [Next]_vars PROVE CaptureInv'
  OBVIOUS
<1>1. ASSUME NEW c \in Checkouts, Request(c) PROVE CaptureInv'
  <2>1. UNCHANGED <<capture, rounds, at, about>>
    BY <1>1, RequestWrites DEF deliveryVars
  <2>2. QED BY <1>1, <2>1, RequestMoves DEF CaptureInv
<1>2. ASSUME NEW t \in Transactions, Payment(t) PROVE CaptureInv'
  <2>1. UNCHANGED <<offered, rounds, at, about>>
    BY <1>2 DEF Payment, Pay, LockRunsOut, LockLost, HandCredit, checkoutVars
  <2>2. CASE UNCHANGED capture
    BY <2>1, <2>2 DEF CaptureInv
  <2>3. CASE Pay(t)
    BY SMT, <2>1, <2>3 DEF Pay, CaptureInv, TypeOK
  <2>4. QED BY <1>2, <2>2, <2>3 DEF Payment, LockRunsOut, LockLost, HandCredit
<1>3. ASSUME NEW d \in Deliveries, Delivery(d) PROVE CaptureInv'
  <2>1. UNCHANGED <<offered, capture>>
    BY <1>3, DeliveryGivesBack
  <2>2. ASSUME NEW t \in Transactions, Deliver(d, t) PROVE CaptureInv'
    <3>1. /\ rounds'[t] > 0 /\ capture[t] # NoCapture
          /\ \A x \in Transactions \ {t} : rounds'[x] = rounds[x]
          /\ at[d] = "idle" /\ about'[d] = t
          /\ \A x \in Deliveries \ {d} : at'[x] = at[x] /\ about'[x] = about[x]
      BY SMT, <2>2 DEF Deliver, TypeOK
    <3>2. \A x \in Deliveries : at[x] # "idle" => about[x] \in Transactions
      BY DEF TypeOK
    <3>3. QED BY SMT, <2>1, <3>1, <3>2 DEF CaptureInv
  <2>3. CASE Redeliver(d) \/ paymentHandler(d) \/ Crash(d)
    BY <2>1, <2>3, DeliveryKeeps DEF CaptureInv
  <2>4. QED BY <1>3, <2>2, <2>3 DEF Delivery
<1>4. CASE UNCHANGED vars
  BY <1>4 DEF vars, checkoutVars, CaptureInv
<1>5. QED BY <1>1, <1>2, <1>3, <1>4, NextCases

LEMMA InitRecord == Init => RecordInv
BY SMT, NoOneAssumption DEF Init, RecordInv, NoRecord, Opening, Informed

LEMMA RequestRecord ==
    ASSUME TypeOK, RecordInv, NEW c \in Checkouts, Request(c)
    PROVE  RecordInv'
<1> SUFFICES ASSUME faults' = 0 PROVE RecordInv'
  BY DEF RecordInv
<1>1. /\ UNCHANGED <<capture, at, about, seen, payLock>>
      /\ faults = 0
  BY SMT, RequestWrites DEF deliveryVars, TypeOK
<1>2. \A x \in Checkouts : intent[x] # NoRecord => intent'[x] # NoRecord
  BY SMT, RequestWrites DEF TypeOK, Opening, NoRecord
<1>3. step'[c] = "reread" => intent'[c] # NoRecord
  <2>0. step \in [Checkouts -> Steps] /\ intent \in [Checkouts -> Records] /\ ~Fault
    BY SMT, <1>1 DEF TypeOK
  <2>1. CASE Begin(c) \/ ReadHistory(c) \/ ReadReservations(c) \/ refuseOpenCheckout(c)
    BY <2>0, <2>1 DEF Begin, ReadHistory, ReadReservations, refuseOpenCheckout
  <2>2. CASE SaveRecord(c)
    BY SMT, <2>0, <2>2 DEF SaveRecord, Opening, NoRecord
  <2>3. CASE saveIntent(c) \/ ReReadReservations(c) \/ releaseIntentReservation(c)
    BY <2>0, <2>3 DEF saveIntent, ReReadReservations, Issue, releaseIntentReservation
  <2>4. CASE Abandon(c)
    BY <2>0, <2>4 DEF Abandon
  <2>5. CASE Expire(c)
    BY <1>1, <1>2, <2>5 DEF Expire, checkoutVars, RecordInv
  <2>6. QED BY <2>1, <2>2, <2>3, <2>4, <2>5 DEF Request, Authorise
<1>4. \A x \in Checkouts \ {c} : step'[x] = step[x]
  BY RequestMoves
<1>5. \A x \in Checkouts \cap offered' : intent[x] # NoRecord
  <2>1. \A x : intent[x].state = "open" => intent[x] # NoRecord
    BY SMT DEF NoRecord
  <2>2. QED BY <1>1, <2>1, RequestMoves DEF RecordInv
<1>6. QED BY <1>1, <1>2, <1>3, <1>4, <1>5 DEF RecordInv, Link

LEMMA PaymentRecord ==
    ASSUME TypeOK, CaptureInv, RecordInv, NEW t \in Transactions, Payment(t)
    PROVE  RecordInv'
<1> SUFFICES ASSUME faults' = 0 PROVE RecordInv'
  BY DEF RecordInv
<1>1. /\ UNCHANGED <<step, offered, intent, at, about, seen>>
      /\ faults = 0
  BY SMT DEF Payment, Pay, LockRunsOut, LockLost, HandCredit, TypeOK, checkoutVars, redisVars
<1>2. \A x \in Transactions : payLock'[x] # "stale"
  BY SMT, <1>1, NoOneAssumption DEF Payment, Pay, LockRunsOut, LockLost, HandCredit, TypeOK, redisVars,
       RecordInv
<1>3. \A d \in Deliveries : at[d] # "idle" => capture'[about[d]] = capture[about[d]]
  <2>1. \A d \in Deliveries :
           at[d] # "idle" => about[d] \in Transactions /\ capture[about[d]] # NoCapture
    BY SMT DEF CaptureInv, TypeOK
  <2>2. \A x \in Transactions : capture[x] # NoCapture => capture'[x] = capture[x]
    BY DEF Payment, Pay, LockRunsOut, LockLost, HandCredit, TypeOK
  <2>3. QED BY <2>1, <2>2
<1>4. QED BY <1>1, <1>2, <1>3 DEF RecordInv, Link, Informed

\* The records a delivery writes are outcomes of its payment, and "credited" only
\* after a credit or the sign of one.
LEMMA DeliveryStamps ==
    ASSUME TypeOK, NEW d \in Deliveries, Delivery(d), NEW c \in Checkouts, intent'[c] # intent[c]
    PROVE  /\ intent'[c] # NoRecord
           /\ intent'[c].state = "credited" =>
                 intent'[c].tx = about[d] /\ at[d] \in {"credited", "again"}
<1> USE DEF checkoutVars, redisVars, ghosts, settled, untouched, inert
<1>1. ASSUME NEW state \in OutcomeStates, recordOutcome(d, state)
      PROVE  intent'[c] = [state |-> state, tx |-> about[d]]
  BY <1>1 DEF recordOutcome, mergeIntentOutcome, TypeOK
<1>2. \A state \in OutcomeStates : [state |-> state, tx |-> about[d]] # NoRecord
  BY DEF OutcomeStates, NoRecord
<1>3. CASE StampReceived(d)
  BY SMT, <1>1, <1>2, <1>3 DEF StampReceived, OutcomeStates
<1>4. CASE StampCredited(d)
  BY SMT, <1>1, <1>2, <1>4 DEF StampCredited, OutcomeStates
<1>5. CASE StampAndAnswer(d)
  BY SMT, <1>1, <1>2, <1>5 DEF StampAndAnswer, OutcomeStates
<1>6. CASE \/ \E x \in Transactions : Deliver(d, x)
           \/ Redeliver(d) \/ findBridgeTransferRequest(d) \/ lookupIntent(d)
           \/ HoldUnattributed(d) \/ RefuseOnce(d)
  BY <1>6 DEF Deliver, Redeliver, findBridgeTransferRequest, lookupIntent, HoldUnattributed,
       RefuseOnce, ClaimDedupe
<1>7. CASE \/ releaseAuthorizedHold(d, "release_held", "held")
           \/ releaseAuthorizedHold(d, "release_failed", "failed")
           \/ redeemIntent(d, "redeem_refused", "mark")
           \/ redeemIntent(d, "redeem_credited", "announce")
  BY <1>7 DEF releaseAuthorizedHold, redeemIntent
<1>8. CASE \/ Gate(d) \/ CheckCredited(d) \/ readFygaroTopupCompletion(d) \/ creditFygaroTopup(d)
           \/ lockPaymentIdempotencyKey(d) \/ Announce(d)
  BY <1>8 DEF Gate, CheckCredited, readFygaroTopupCompletion, creditFygaroTopup,
       lockPaymentIdempotencyKey, Announce
<1>9. CASE \/ writeFygaroTopupRequest(d) \/ markFygaroTopupNotCredited(d)
           \/ completeFygaroTopup(d) \/ Send(d) \/ Remember(d) \/ Crash(d)
  BY <1>9 DEF writeFygaroTopupRequest, markFygaroTopupNotCredited, completeFygaroTopup, Send,
       Remember, Crash
<1>10. QED
  BY <1>3, <1>4, <1>5, <1>6, <1>7, <1>8, <1>9 DEF Delivery, paymentHandler

\* Without a failure a delivery knows the record of its link once it has looked
\* it up, and a lock is free or held.
LEMMA DeliveryKnows ==
    ASSUME TypeOK, CaptureInv, RecordInv, NEW d \in Deliveries, Delivery(d), faults = 0,
           faults' = 0
    PROVE  /\ at'[d] \in Informed /\ Link(d) # NoOne => seen'[d] # NoRecord
           /\ \A t \in Transactions : payLock'[t] # "stale"
<1> USE DEF checkoutVars, redisVars, ghosts, settled, untouched, inert
<1>0. /\ DeliveryTypes
      /\ payLock \in [Transactions -> Deliveries \cup {NoOne, "stale"}]
      /\ \A t \in Transactions : payLock[t] # "stale"
      /\ at[d] \in Informed /\ Link(d) # NoOne => seen[d] # NoRecord
  BY DEF TypeOK, DeliveryTypes, RecordInv
<1> USE DEF DeliveryTypes, Informed
<1>1. CASE \/ \E x \in Transactions : Deliver(d, x)
           \/ Redeliver(d) \/ findBridgeTransferRequest(d) \/ StampReceived(d)
  BY <1>0, <1>1 DEF Deliver, Redeliver, findBridgeTransferRequest, StampReceived
<1>2. CASE lookupIntent(d)
  <2>1. Link(d) # NoOne => intent[Link(d)] # NoRecord
    <3>1. about[d] \in Transactions
      BY <1>2 DEF lookupIntent, TypeOK
    <3>2. Link(d) # NoOne => Link(d) \in Checkouts \cap offered
      BY SMT, <3>1 DEF CaptureInv, Link, TypeOK, CaptureOf
    <3>3. QED BY <3>2 DEF RecordInv
  <2>2. Link(d) # NoOne => seen'[d] = intent[Link(d)]
    BY SMT, <1>0, <1>2 DEF lookupIntent
  <2>3. UNCHANGED payLock
    BY <1>2 DEF lookupIntent
  <2>4. QED BY <1>0, <2>1, <2>2, <2>3
<1>3. CASE \/ HoldUnattributed(d) \/ RefuseOnce(d) \/ Gate(d) \/ CheckCredited(d)
           \/ readFygaroTopupCompletion(d) \/ creditFygaroTopup(d)
  BY <1>0, <1>3 DEF HoldUnattributed, RefuseOnce, ClaimDedupe, Gate, CheckCredited,
       readFygaroTopupCompletion, creditFygaroTopup, GiveUp
<1>4. CASE \/ releaseAuthorizedHold(d, "release_held", "held")
           \/ releaseAuthorizedHold(d, "release_failed", "failed")
           \/ redeemIntent(d, "redeem_refused", "mark")
           \/ redeemIntent(d, "redeem_credited", "announce")
  BY <1>0, <1>4 DEF releaseAuthorizedHold, redeemIntent
<1>5. CASE lockPaymentIdempotencyKey(d) \/ Announce(d) \/ StampAndAnswer(d)
  BY SMT, <1>0, <1>5, NoOneAssumption DEF lockPaymentIdempotencyKey, Announce, StampAndAnswer
<1>6. CASE \/ writeFygaroTopupRequest(d) \/ markFygaroTopupNotCredited(d)
           \/ completeFygaroTopup(d) \/ StampCredited(d)
  BY <1>0, <1>6 DEF writeFygaroTopupRequest, markFygaroTopupNotCredited, completeFygaroTopup,
       StampCredited
<1>7. CASE Send(d) \/ Remember(d) \/ Crash(d)
  BY SMT, <1>0, <1>7 DEF Send, GiveUp, Remember, Crash
<1>8. QED
  BY <1>1, <1>2, <1>3, <1>4, <1>5, <1>6, <1>7 DEF Delivery, paymentHandler

LEMMA DeliveryRecord ==
    ASSUME TypeOK, CaptureInv, RecordInv, NEW d \in Deliveries, Delivery(d)
    PROVE  RecordInv'
<1> SUFFICES ASSUME faults' = 0 PROVE RecordInv'
  BY DEF RecordInv
<1>1. /\ faults = 0
      /\ \A x \in Deliveries \ {d} : /\ at'[x] = at[x] /\ about'[x] = about[x]
                                     /\ seen'[x] = seen[x]
      /\ at'[d] \in Informed => about'[d] = about[d]
  <2>1. CASE \E t \in Transactions : Deliver(d, t)
    BY SMT, <2>1 DEF Deliver, TypeOK, Informed
  <2>2. CASE Redeliver(d) \/ paymentHandler(d) \/ Crash(d)
    BY SMT, <2>2, DeliveryKeeps DEF TypeOK, Informed
  <2>3. QED BY <2>1, <2>2 DEF Delivery
<1>2. UNCHANGED <<step, offered, capture>>
  BY DeliveryGivesBack
<1>3. \A c \in Checkouts : intent[c] # NoRecord => intent'[c] # NoRecord
  BY DeliveryStamps
<1>4. /\ at'[d] \in Informed /\ Link(d) # NoOne => seen'[d] # NoRecord
      /\ \A t \in Transactions : payLock'[t] # "stale"
  BY <1>1, DeliveryKnows
<1>5. \A x \in Deliveries :
         at'[x] \in Informed /\ capture'[about'[x]].intent # NoOne => seen'[x] # NoRecord
  BY <1>1, <1>2, <1>4 DEF RecordInv, Link
<1>6. QED BY <1>1, <1>2, <1>3, <1>4, <1>5 DEF RecordInv, Link

LEMMA NextRecord == TypeOK /\ CaptureInv /\ RecordInv /\ [Next]_vars => RecordInv'
<1>1. TypeOK /\ CaptureInv /\ RecordInv /\ Next => RecordInv'
  BY NextCases, RequestRecord, PaymentRecord, DeliveryRecord
<1>2. RecordInv /\ UNCHANGED vars => RecordInv'
  BY DEF RecordInv, Link, vars, checkoutVars, redisVars
<1>3. QED BY <1>1, <1>2

-----------------------------------------------------------------------------
(* Holds are given back                                                    *)

\* Without a failure a delivery that is to give a hold back goes on towards it or
\* does.
LEMMA DeliveryReturns ==
    ASSUME TypeOK, TypeOK', CaptureInv, RecordInv, NEW d \in Deliveries,
           Redeliver(d) \/ paymentHandler(d) \/ Crash(d), at[d] \in Returning, faults = 0, faults' = 0
    PROVE  \/ at'[d] \in Returning /\ about'[d] = about[d]
           \/ Link(d) \notin holds'
<1> USE DEF checkoutVars, redisVars, ghosts, settled, untouched, inert
<1>0. DeliveryTypes
  BY DEF TypeOK, DeliveryTypes
<1>1. /\ Link(d) # NoOne => Link(d) \in Checkouts /\ intent[Link(d)] # NoRecord
      /\ NoOne \notin holds'
  <2>1. about[d] \in Transactions
    BY DEF Returning, TypeOK
  <2>2. Link(d) # NoOne => Link(d) \in Checkouts \cap offered
    BY SMT, <2>1 DEF CaptureInv, Link, TypeOK, CaptureOf
  <2>3. NoOne \notin holds'
    BY NoOneAssumption DEF TypeOK
  <2>4. QED BY <2>2, <2>3 DEF RecordInv
<1>2. CASE \/ releaseAuthorizedHold(d, "release_held", "held")
           \/ releaseAuthorizedHold(d, "release_failed", "failed")
  <2>1. at[d] \in Informed
    BY <1>2 DEF releaseAuthorizedHold, Informed
  <2>2. Link(d) # NoOne => seen[d] # NoRecord
    BY <2>1 DEF RecordInv
  <2>3. Link(d) # NoOne => holds' = holds \ {Link(d)}
    BY SMT, <1>2, <2>2 DEF releaseAuthorizedHold
  <2>4. QED BY <1>1, <2>3
<1>3. CASE \/ redeemIntent(d, "redeem_refused", "mark")
           \/ redeemIntent(d, "redeem_credited", "announce")
  <2>1. Link(d) # NoOne => holds' = holds \ {Link(d)}
    BY SMT, <1>1, <1>3 DEF redeemIntent
  <2>2. QED BY <1>1, <2>1
<1>4. CASE findBridgeTransferRequest(d) \/ completeFygaroTopup(d)
  BY <1>0, <1>4 DEF findBridgeTransferRequest, completeFygaroTopup, Returning, DeliveryTypes
<1>5. CASE Remember(d) \/ StampCredited(d)
  BY <1>0, <1>5 DEF Remember, GiveUp, StampCredited, Returning, DeliveryTypes
<1>6. CASE \/ Redeliver(d) \/ StampReceived(d) \/ lookupIntent(d) \/ HoldUnattributed(d)
           \/ RefuseOnce(d)
  BY <1>6 DEF Redeliver, StampReceived, lookupIntent, HoldUnattributed, RefuseOnce, ClaimDedupe,
       Returning
<1>7. CASE Gate(d) \/ CheckCredited(d) \/ readFygaroTopupCompletion(d)
  BY <1>7 DEF Gate, CheckCredited, readFygaroTopupCompletion, Returning
<1>8. CASE \/ creditFygaroTopup(d) \/ Send(d) \/ lockPaymentIdempotencyKey(d) \/ Announce(d)
           \/ StampAndAnswer(d) \/ writeFygaroTopupRequest(d) \/ markFygaroTopupNotCredited(d)
  BY <1>8 DEF creditFygaroTopup, Send, lockPaymentIdempotencyKey, Announce, StampAndAnswer,
       writeFygaroTopupRequest, markFygaroTopupNotCredited, Returning
<1>9. CASE Crash(d)
  BY SMT, <1>9 DEF Crash
<1>10. QED BY <1>2, <1>3, <1>4, <1>5, <1>6, <1>7, <1>8, <1>9 DEF paymentHandler

\* A hold is taken only by the request of its checkout, before its link can go out.
LEMMA RequestHolds ==
    ASSUME NEW c \in Checkouts, Request(c)
    PROVE  holds' \subseteq holds \/ (step[c] = "save" /\ holds' \subseteq holds \cup {c})
<1>1. CASE Begin(c) \/ ReadHistory(c) \/ ReadReservations(c) \/ refuseOpenCheckout(c)
  BY <1>1 DEF Begin, ReadHistory, ReadReservations, refuseOpenCheckout
<1>2. CASE \/ saveIntent(c) \/ SaveRecord(c) \/ ReReadReservations(c)
           \/ releaseIntentReservation(c)
  BY <1>2 DEF saveIntent, SaveRecord, ReReadReservations, releaseIntentReservation
<1>3. CASE Abandon(c) \/ Expire(c)
  BY <1>3 DEF Abandon, Expire
<1>4. QED BY <1>1, <1>2, <1>3 DEF Request, Authorise

\* Without a failure, what was handed back stays so.
LEMMA RequestHandsBack ==
    ASSUME TypeOK, LinkInv, CaptureInv, NEW c \in Checkouts, Request(c)
    PROVE  HandedBack \subseteq HandedBack'
<1>1. UNCHANGED <<rounds, capture, at, about>>
  BY RequestWrites DEF deliveryVars
<1>2. \A t \in Transactions : capture[t].intent \notin holds => capture[t].intent \notin holds'
  <2>1. step[c] = "save" => c \notin offered
    BY DEF LinkInv, Offerable, Decided
  <2>2. \A t \in Transactions : step[c] = "save" => capture[t].intent # c
    BY <2>1, NoOneAssumption DEF CaptureInv
  <2>3. QED BY <2>2, RequestHolds
<1>3. QED BY <1>1, <1>2 DEF HandedBack

LEMMA PaymentHandsBack ==
    ASSUME TypeOK, CaptureInv, NEW t \in Transactions, Payment(t)
    PROVE  HandedBack \subseteq HandedBack'
<1>1. UNCHANGED <<rounds, holds, at, about>>
  BY DEF Payment, Pay, LockRunsOut, LockLost, HandCredit, redisVars
<1>2. \A x \in Transactions : rounds[x] > 0 => capture'[x] = capture[x]
  BY SMT DEF Payment, Pay, LockRunsOut, LockLost, HandCredit, TypeOK, CaptureInv
<1>3. QED BY <1>1, <1>2 DEF HandedBack

LEMMA DeliveryHandsBack ==
    ASSUME TypeOK, TypeOK', CaptureInv, RecordInv, NEW d \in Deliveries, Delivery(d), faults = 0,
           faults' = 0
    PROVE  HandedBack \subseteq HandedBack'
<1> SUFFICES ASSUME NEW t \in Transactions, t \in HandedBack PROVE t \in HandedBack'
  BY DEF HandedBack
<1>1. UNCHANGED capture /\ holds' \subseteq holds
  BY DeliveryGivesBack
<1>2. ASSUME NEW x \in Transactions, Deliver(d, x) PROVE t \in HandedBack'
  <2>1. /\ rounds'[t] > 0
        /\ at[d] = "idle"
        /\ \A y \in Deliveries \ {d} : at'[y] = at[y] /\ about'[y] = about[y]
    BY SMT, <1>2 DEF Deliver, TypeOK, HandedBack
  <2>2. QED BY <1>1, <2>1 DEF HandedBack, Returning
<1>3. CASE Redeliver(d) \/ paymentHandler(d) \/ Crash(d)
  <2>1. CASE capture[t].intent \notin holds
    BY <1>1, <1>3, <2>1, DeliveryKeeps DEF HandedBack
  <2>2. ASSUME NEW y \in Deliveries, about[y] = t, at[y] \in Returning PROVE t \in HandedBack'
    <3>1. CASE y # d
      BY SMT, <1>1, <1>3, <2>2, <3>1, DeliveryKeeps DEF HandedBack
    <3>2. CASE y = d
      <4>1. \/ at'[d] \in Returning /\ about'[d] = about[d]
            \/ Link(d) \notin holds'
        BY <1>3, <2>2, <3>2, DeliveryReturns
      <4>2. rounds'[t] > 0
        BY <1>3, DeliveryKeeps DEF HandedBack
      <4>3. QED BY <1>1, <2>2, <3>2, <4>1, <4>2 DEF HandedBack, Link
    <3>3. QED BY <3>1, <3>2
  <2>3. QED BY <2>1, <2>2 DEF HandedBack
<1>4. QED BY <1>2, <1>3 DEF Delivery

LEMMA InitHeld == Init => HeldInv
BY SMT DEF Init, HeldInv, NoRow, NoRecord, Opening

LEMMA RequestHeld ==
    ASSUME TypeOK, LinkInv, CaptureInv, HeldInv, NEW c \in Checkouts, Request(c)
    PROVE  HeldInv'
<1> SUFFICES ASSUME faults' = 0 PROVE HeldInv'
  BY DEF HeldInv
<1>1. /\ faults = 0
      /\ UNCHANGED <<dedupe, reported, row, rounds, at, about, seen, found>>
  BY SMT, RequestWrites DEF deliveryVars, ghosts, TypeOK
<1>2. \A x \in Checkouts : intent'[x].state = "credited" => intent'[x] = intent[x]
  BY SMT, RequestWrites DEF TypeOK, Opening
<1>3. UNCHANGED Undecided
  BY <1>1 DEF Undecided
<1>4. HandedBack \subseteq HandedBack'
  BY RequestHandsBack
<1>5. QED BY <1>1, <1>2, <1>3, <1>4 DEF HeldInv

LEMMA PaymentHeld ==
    ASSUME TypeOK, CaptureInv, HeldInv, NEW t \in Transactions, Payment(t)
    PROVE  HeldInv'
<1> SUFFICES ASSUME faults' = 0 PROVE HeldInv'
  BY DEF HeldInv
<1>1. /\ faults = 0
      /\ UNCHANGED <<dedupe, reported, intent, rounds, at, about, seen, found>>
  <2>1. /\ faults' \in {faults, faults + 1}
        /\ UNCHANGED <<dedupe, reported, intent, rounds, at, about, seen, found>>
    BY DEF Payment, Pay, LockRunsOut, LockLost, HandCredit, ghosts, redisVars
  <2>2. faults \in 0..MaxFaults
    BY DEF TypeOK
  <2>3. faults = 0
    BY SMT, <2>1, <2>2
  <2> QED BY <2>1, <2>3
<1>2. \A x \in Transactions : row'[x].status = "completed" =>
                              row[x].status = "completed" \/ x \in reported
  BY DEF Payment, Pay, LockRunsOut, LockLost, HandCredit, Put, TypeOK
<1>3. UNCHANGED Undecided
  BY <1>1 DEF Undecided
<1>4. HandedBack \subseteq HandedBack'
  BY PaymentHandsBack
<1>5. QED BY <1>1, <1>2, <1>3, <1>4 DEF HeldInv

\* What the invariant needs of a step of a delivery.
LEMMA DeliversHeld ==
    ASSUME TypeOK, HeldInv, NEW d \in Deliveries, faults = 0, UNCHANGED <<rounds, byHand>>,
           HandedBack \subseteq HandedBack',
           \A x \in Deliveries \ {d} :
              /\ at'[x] = at[x] /\ about'[x] = about[x]
              /\ seen'[x] = seen[x] /\ found'[x] = found[x],
           at'[d] = "idle" \/ about'[d] = about[d],
           at[d] # "idle",
           dedupe' \cup reported' \subseteq dedupe \cup reported \cup HandedBack',
           \A t \in Transactions : row'[t].status = "completed" =>
                                   row[t].status = "completed" \/ t \in HandedBack',
           \A c \in Checkouts : intent'[c].state = "credited" =>
                                intent'[c] = intent[c] \/ intent'[c].tx \in HandedBack',
           seen'[d].state = "credited" =>
              seen'[d] = seen[d] \/ \E c \in Checkouts : seen'[d] = intent[c],
           found'[d] = "completed" => about'[d] \in HandedBack,
           at'[d] \in Deciding \cup Returning \cup {"idle"} \/ about[d] \in HandedBack,
           \/ at[d] \notin Deciding
           \/ at'[d] \in Deciding
           \/ about[d] \in HandedBack'
           \/ \E x \in Deliveries \ {d} : about[x] = about[d] /\ at[x] \in Deciding
    PROVE  HeldInv'
<1>1. \A t \in Undecided : t \in Undecided' \cup HandedBack'
  <2> SUFFICES ASSUME NEW t \in Undecided PROVE t \in Undecided' \cup HandedBack'
    OBVIOUS
  <2>1. PICK y \in Deliveries : about[y] = t /\ at[y] \in Deciding
    BY DEF Undecided
  <2>2. t \in Transactions
    BY DEF Undecided
  <2>3. CASE y # d
    BY <2>1, <2>2, <2>3 DEF Undecided
  <2>4. CASE y = d
    BY SMT, <2>1, <2>2, <2>4 DEF Undecided, Deciding
  <2>5. QED BY <2>3, <2>4
<1>2. dedupe' \cup reported' \subseteq HandedBack'
  BY DEF HeldInv
<1>3. \A t \in Transactions : /\ row'[t].status = "completed" => t \in HandedBack'
                              /\ rounds'[t] > 0 => t \in HandedBack' \cup Undecided'
  BY <1>1 DEF HeldInv
<1>4. \A c \in Checkouts : intent'[c].state = "credited" => intent'[c].tx \in HandedBack'
  BY DEF HeldInv
<1>5. \A x \in Deliveries :
         /\ seen'[x].state = "credited" => seen'[x].tx \in HandedBack'
         /\ found'[x] = "completed" => about'[x] \in HandedBack'
         /\ at'[x] \in Deciding \cup Returning \cup {"idle"} \/ about'[x] \in HandedBack'
  BY SMT DEF HeldInv
<1>6. QED BY <1>2, <1>3, <1>4, <1>5 DEF HeldInv

\* A delivery writes the row of its payment, claims its timelock and tells ops of
\* it; what it sees is a record, what it finds is the row.
LEMMA DeliveryWrites ==
    ASSUME TypeOK, StatusInv, NEW d \in Deliveries,
           Redeliver(d) \/ paymentHandler(d) \/ Crash(d)
    PROVE  /\ \A x \in Transactions \ {about[d]} : row'[x] = row[x]
           /\ dedupe' \cup reported' \subseteq dedupe \cup reported \cup {about[d]}
           /\ seen'[d].state = "credited" =>
                 seen'[d] = seen[d] \/ \E c \in Checkouts : seen'[d] = intent[c]
           /\ found'[d] = "completed" =>
                 /\ about'[d] = about[d]
                 /\ "completed" \in {row[about[d]].status, found[d]}
<1> USE DEF checkoutVars, redisVars, ghosts, settled, untouched, inert, NoRecord, DeliveryTypes
<1>0. /\ DeliveryTypes
      /\ row \in [Transactions -> Rows]
      /\ at[d] \notin Putting => found[d] = "none"
      /\ at[d] # "idle" => Link(d) \in Checkouts \cup {NoOne}
  BY DEF TypeOK, StatusInv, Link, CaptureOf
<1>1. CASE \/ Redeliver(d) \/ findBridgeTransferRequest(d) \/ StampReceived(d) \/ lookupIntent(d)
  BY <1>0, <1>1 DEF Redeliver, findBridgeTransferRequest, StampReceived, lookupIntent, Putting
<1>2. CASE \/ releaseAuthorizedHold(d, "release_held", "held")
           \/ releaseAuthorizedHold(d, "release_failed", "failed")
           \/ redeemIntent(d, "redeem_refused", "mark")
           \/ redeemIntent(d, "redeem_credited", "announce")
  BY <1>0, <1>2 DEF releaseAuthorizedHold, redeemIntent
<1>3. CASE \/ Gate(d) \/ CheckCredited(d) \/ HoldUnattributed(d) \/ RefuseOnce(d)
  <2>1. /\ row' = row /\ found' = found
        /\ at[d] \notin Putting
        /\ seen' \in {seen, [seen EXCEPT ![d] = NoRecord]}
        /\ \/ UNCHANGED <<dedupe, reported>>
           \/ dedupe' = dedupe \cup {about[d]} /\ reported' = reported \cup {about[d]}
    BY <1>3 DEF Gate, CheckCredited, HoldUnattributed, RefuseOnce, ClaimDedupe, Putting
  <2>2. seen'[d] \in {seen[d], NoRecord}
    BY <1>0, <2>1
  <2>3. QED BY SMT, <1>0, <2>1, <2>2
<1>4. CASE \/ readFygaroTopupCompletion(d) \/ StampCredited(d) \/ creditFygaroTopup(d) \/ Send(d)
           \/ Remember(d)
  BY <1>0, <1>4 DEF readFygaroTopupCompletion, StampCredited, creditFygaroTopup, Send, GiveUp,
       Remember, Putting
<1>5. CASE lockPaymentIdempotencyKey(d) \/ Announce(d) \/ StampAndAnswer(d)
  <2>1. /\ UNCHANGED <<row, found, dedupe, reported>>
        /\ at[d] \notin Putting
        /\ seen' \in {seen, [seen EXCEPT ![d] = NoRecord]}
    BY <1>5 DEF lockPaymentIdempotencyKey, Announce, StampAndAnswer, Putting
  <2>2. seen'[d] \in {seen[d], NoRecord}
    BY <1>0, <2>1
  <2>3. QED BY SMT, <1>0, <2>1, <2>2
<1>6. CASE writeFygaroTopupRequest(d) \/ markFygaroTopupNotCredited(d) \/ completeFygaroTopup(d)
  <2>1. \A x \in Transactions \ {about[d]} : row'[x] = row[x]
    BY <1>0, <1>6 DEF writeFygaroTopupRequest, markFygaroTopupNotCredited, completeFygaroTopup,
         Upsert, Put
  <2>2. /\ UNCHANGED <<dedupe, reported>>
        /\ found'[d] = "none"
        /\ seen' \in {seen, [seen EXCEPT ![d] = NoRecord]}
    BY <1>0, <1>6 DEF writeFygaroTopupRequest, markFygaroTopupNotCredited, completeFygaroTopup,
         Forget
  <2>3. QED BY SMT, <1>0, <2>1, <2>2
<1>7. CASE Crash(d)
  BY <1>0, <1>7 DEF Crash, Forget
<1>8. QED BY <1>1, <1>2, <1>3, <1>4, <1>5, <1>6, <1>7 DEF paymentHandler

\* Without a failure, a delivery that has not decided goes on to decide, or leaves
\* a payment whose hold is in good hands.
LEMMA DeliveryDecides ==
    ASSUME TypeOK, StatusInv, LockInv, CaptureInv, RecordInv, HeldInv,
           NEW d \in Deliveries, Redeliver(d) \/ paymentHandler(d) \/ Crash(d),
           at[d] \in Deciding, faults = 0, faults' = 0
    PROVE  \/ about[d] \in HandedBack
           \/ at'[d] \in Returning /\ about'[d] = about[d]
           \/ /\ at'[d] \in Deciding
              /\ row'[about[d]].status = "completed" => row[about[d]].status = "completed"
              /\ UNCHANGED <<dedupe, reported>>
           \/ /\ at'[d] = "idle"
              /\ UNCHANGED <<row, dedupe, reported>>
              /\ \E x \in Deliveries \ {d} : about[x] = about[d] /\ at[x] \in Deciding
<1> USE DEF checkoutVars, redisVars, ghosts, settled, untouched, inert, DeliveryTypes, Deciding, Returning
<1> DEFINE t == about[d]
<1>0. /\ DeliveryTypes
      /\ t \in Transactions
      /\ row \in [Transactions -> Rows]
  BY DEF TypeOK
<1>1. /\ row[t].status = "completed" \/ t \in dedupe \/ found[d] = "completed" => t \in HandedBack
      /\ seen[d].state = "credited" => seen[d].tx \in HandedBack
  BY <1>0 DEF HeldInv
<1> HIDE DEF t
<1>2. CASE \/ Redeliver(d) \/ findBridgeTransferRequest(d) \/ StampReceived(d) \/ lookupIntent(d)
           \/ Gate(d)
  <2>1. ~Fault
    BY SMT
  <2> QED BY <1>0, <1>2, <2>1
          DEF Redeliver, findBridgeTransferRequest, StampReceived, lookupIntent, Gate, t
<1>3. CASE writeFygaroTopupRequest(d)
  <2>1. /\ at'[d] = "received"
        /\ UNCHANGED <<dedupe, reported>>
        /\ Put(t, found[d],
               [status |-> "received", owned |-> capture[t].known, refused |-> FALSE])
    BY SMT, <1>0, <1>3 DEF writeFygaroTopupRequest, Upsert, t
  <2>2. row'[t].status = "completed" => "completed" \in {row[t].status, found[d]}
    BY <1>0, <2>1 DEF Put, applyUpdateGuards, Furthest
  <2>3. QED BY <1>1, <2>1, <2>2 DEF t
<1>4. CASE HoldUnattributed(d) \/ RefuseOnce(d)
  BY SMT, <1>0, <1>1, <1>4 DEF HoldUnattributed, RefuseOnce, ClaimDedupe, t
<1>5. CASE CheckCredited(d) \/ readFygaroTopupCompletion(d)
  BY <1>0, <1>1, <1>5 DEF CheckCredited, readFygaroTopupCompletion, t
<1>6. CASE lockPaymentIdempotencyKey(d)
  <2>1. at[d] = "lock" /\ UNCHANGED <<row, dedupe, reported>>
    BY <1>6 DEF lockPaymentIdempotencyKey
  <2>2. CASE payLock[t] = NoOne
    BY SMT, <1>0, <1>6, <2>2 DEF lockPaymentIdempotencyKey, t
  <2>3. CASE payLock[t] # NoOne
    <3>1. payLock[t] \in Deliveries
      BY <1>0, <2>3 DEF TypeOK, RecordInv
    <3>2. /\ payLock[t] # d
          /\ about[payLock[t]] = t
          /\ at[payLock[t]] \in CreditPath
      BY SMT, <1>0, <2>1, <3>1 DEF LockInv, CreditPath, Crediting, Sending
    <3>3. at'[d] = "idle"
      BY SMT, <1>0, <1>6, <2>3 DEF lockPaymentIdempotencyKey, t
    <3>4. CASE at[payLock[t]] \in Deciding
      BY <2>1, <3>1, <3>2, <3>3, <3>4 DEF t
    <3>5. CASE at[payLock[t]] \in Returning
      <4>1. rounds[t] > 0
        BY <1>0 DEF CaptureInv, t
      <4>2. QED BY <1>0, <3>1, <3>2, <3>5, <4>1 DEF HandedBack, t
    <3>6. CASE at[payLock[t]] \notin Deciding \cup Returning
      BY <3>1, <3>2, <3>6 DEF HeldInv, CreditPath, Crediting, Sending, t
    <3>7. QED BY <3>4, <3>5, <3>6
  <2>4. QED BY <2>2, <2>3
<1>7. CASE creditFygaroTopup(d)
  BY <1>0, <1>7 DEF creditFygaroTopup, GiveUp, t
<1>8. CASE Send(d)
  <2>1. at'[d] \in {"remember", "pending", "release_failed"} /\ UNCHANGED about
    BY <1>0, <1>8 DEF Send, GiveUp
  <2>2. QED BY <2>1
<1>9. CASE \/ releaseAuthorizedHold(d, "release_held", "held")
           \/ releaseAuthorizedHold(d, "release_failed", "failed")
           \/ redeemIntent(d, "redeem_refused", "mark")
           \/ redeemIntent(d, "redeem_credited", "announce")
           \/ StampCredited(d) \/ Remember(d) \/ Announce(d) \/ StampAndAnswer(d)
           \/ markFygaroTopupNotCredited(d) \/ completeFygaroTopup(d)
  BY <1>9 DEF releaseAuthorizedHold, redeemIntent, StampCredited, Remember, Announce,
       StampAndAnswer, markFygaroTopupNotCredited, completeFygaroTopup
<1>10. CASE Crash(d)
  <2>1. faults' = faults + 1
    BY <1>10 DEF Crash
  <2>2. QED BY SMT, <2>1
<1> HIDE DEF Deciding, Returning, DeliveryTypes
<1>11. QED BY <1>2, <1>3, <1>4, <1>5, <1>6, <1>7, <1>8, <1>9, <1>10 DEF paymentHandler

LEMMA DeliveryHeld ==
    ASSUME TypeOK, TypeOK', StatusInv, LockInv, CaptureInv, RecordInv, HeldInv,
           NEW d \in Deliveries, Delivery(d)
    PROVE  HeldInv'
<1> SUFFICES ASSUME faults' = 0 PROVE HeldInv'
  BY DEF HeldInv
<1>1. ASSUME NEW t \in Transactions, Deliver(d, t) PROVE HeldInv'
  <2>1. /\ faults = 0
        /\ UNCHANGED <<dedupe, reported, row, intent, seen, found>>
        /\ at[d] = "idle" /\ at'[d] = "audit" /\ about'[d] = t
        /\ \A x \in Deliveries \ {d} : at'[x] = at[x] /\ about'[x] = about[x]
        /\ \A x \in Transactions \ {t} : rounds'[x] = rounds[x]
    BY <1>1 DEF Deliver, redisVars, ghosts, TypeOK
  <2>2. HandedBack \subseteq HandedBack'
    BY <2>1, DeliveryHandsBack
  <2>3. Undecided \cup {t} \subseteq Undecided'
    BY <2>1 DEF Undecided, Deciding
  <2>4. found[d] = "none"
    BY <2>1 DEF StatusInv, Putting
  <2>5. QED BY <2>1, <2>2, <2>3, <2>4 DEF HeldInv, Deciding
<1>2. CASE Redeliver(d) \/ paymentHandler(d) \/ Crash(d)
  <2>1. /\ faults = 0
        /\ at[d] # "idle" /\ about[d] \in Transactions
        /\ at'[d] = "idle" \/ about'[d] = about[d]
        /\ \A x \in Deliveries \ {d} : /\ at'[x] = at[x] /\ about'[x] = about[x]
                                       /\ seen'[x] = seen[x] /\ found'[x] = found[x]
        /\ UNCHANGED <<rounds, byHand>>
    <3>1. faults \in 0..MaxFaults /\ faults' \in {faults, faults + 1}
      BY <1>2, DeliveryKeeps DEF TypeOK
    <3>2. faults = 0
      BY SMT, <3>1
    <3>3. at[d] # "idle"
      BY <1>2, DeliveryKeeps
    <3>4. about[d] \in Transactions
      BY <3>3 DEF TypeOK
    <3> QED BY <1>2, <3>2, <3>3, <3>4, DeliveryKeeps
  <2>2. HandedBack \subseteq HandedBack'
    BY <2>1, DeliveryHandsBack
  <2>3. rounds[about[d]] > 0
    BY <2>1 DEF CaptureInv
  <2>4. at[d] \notin Deciding => about[d] \in HandedBack
    BY <2>1, <2>3 DEF HeldInv, HandedBack
  <2>5. at'[d] \in Returning /\ about'[d] = about[d] => about[d] \in HandedBack'
    BY <2>1, <2>3 DEF HandedBack
  <2>6. ASSUME NEW c \in Checkouts, intent'[c].state = "credited", intent'[c] # intent[c]
        PROVE  intent'[c].tx \in HandedBack'
    <3>1. intent'[c].tx = about[d] /\ at[d] \in {"credited", "again"}
      BY <2>6, DeliveryStamps
    <3>2. QED BY <2>2, <2>4, <3>1 DEF Deciding
  <2>7. /\ \A x \in Transactions \ {about[d]} : row'[x] = row[x]
        /\ dedupe' \cup reported' \subseteq dedupe \cup reported \cup {about[d]}
        /\ seen'[d].state = "credited" =>
              seen'[d] = seen[d] \/ \E c \in Checkouts : seen'[d] = intent[c]
        /\ found'[d] = "completed" =>
              about'[d] = about[d] /\ "completed" \in {row[about[d]].status, found[d]}
    BY <1>2, DeliveryWrites
  <2>8. found'[d] = "completed" => about'[d] \in HandedBack
    BY <2>1, <2>7 DEF HeldInv
  <2>9. /\ dedupe' \cup reported' \subseteq dedupe \cup reported \cup HandedBack'
        /\ row'[about[d]].status = "completed" =>
              row[about[d]].status = "completed" \/ about[d] \in HandedBack'
        /\ at'[d] \in Deciding \cup Returning \cup {"idle"} \/ about[d] \in HandedBack
        /\ \/ at[d] \notin Deciding
           \/ at'[d] \in Deciding
           \/ about[d] \in HandedBack'
           \/ \E x \in Deliveries \ {d} : about[x] = about[d] /\ at[x] \in Deciding
    <3>1. CASE about[d] \in HandedBack
      BY <2>2, <2>7, <3>1
    <3>2. CASE about[d] \notin HandedBack
      <4>1. at[d] \in Deciding
        BY <2>4, <3>2
      <4>2. QED BY <1>2, <2>1, <2>5, <2>7, <3>2, <4>1, DeliveryDecides
    <3>3. QED BY <3>1, <3>2
  <2>10. /\ \A x \in Transactions : row'[x].status = "completed" =>
                                    row[x].status = "completed" \/ x \in HandedBack'
         /\ \A c \in Checkouts : intent'[c].state = "credited" =>
                                 intent'[c] = intent[c] \/ intent'[c].tx \in HandedBack'
    BY <2>6, <2>7, <2>9
  <2>11. QED BY <2>1, <2>2, <2>7, <2>8, <2>9, <2>10, DeliversHeld
<1>3. QED BY <1>1, <1>2 DEF Delivery

LEMMA NextHeld ==
    /\ TypeOK /\ LinkInv /\ StatusInv /\ LockInv /\ CaptureInv /\ RecordInv /\ HeldInv
    /\ [Next]_vars
    => HeldInv'
<1> SUFFICES ASSUME TypeOK, LinkInv, StatusInv, LockInv, CaptureInv, RecordInv, HeldInv,
                    [Next]_vars
             PROVE  HeldInv'
  OBVIOUS
<1>1. TypeOK'
  BY NextTyped
<1>2. CASE Next
  BY <1>1, <1>2, NextCases, RequestHeld, PaymentHeld, DeliveryHeld
<1>3. CASE UNCHANGED vars
  <2>1. UNCHANGED <<HandedBack, Undecided, faults, dedupe, reported, row, rounds, intent, seen, found,
                    about, at>>
    BY <1>3 DEF HandedBack, Undecided, vars, checkoutVars, redisVars, ghosts
  <2>2. QED BY <2>1 DEF HeldInv
<1>4. QED BY <1>2, <1>3

-----------------------------------------------------------------------------
\* The inductive invariant of card top-ups: types, links and their holds, marks of
\* a credit, locks, what guards a credit, and the way of every hold back.
THEOREM TopupInvariant == Spec => []IInv
<1>1. Init => IInv
  BY InitTyped, InitLink, InitStatus, InitLocks, InitOnce, InitCapture, InitRecord, InitHeld
     DEF IInv
<1>2. IInv /\ [Next]_vars => IInv'
  BY NextTyped, NextLink, NextStatus, NextLocks, NextOnce, NextCapture, NextRecord, NextHeld
     DEF IInv
<1>3. QED BY <1>1, <1>2, PTL DEF Spec

\* As long as nothing failed, the allowance a link holds is given back by the time
\* its payment is answered, whichever of several overlapping deliveries answers it
\* and however (credited, refused, answered from a timelock or from a lock that
\* another delivery holds).
THEOREM HoldsAreGivenBack == Spec => []HeldOrCounted
<1>1. IInv => HeldOrCounted
  BY DEF IInv, HeldInv, HandedBack, Undecided, HeldOrCounted
<1>2. QED BY TopupInvariant, <1>1, PTL

=============================================================================
