------------------------- MODULE PaymentIdempotency --------------------------
(***************************************************************************)
(* The idempotency of payment sends: the header middleware of the GraphQL  *)
(* servers, withPaymentIdempotency around the send mutations, the redis    *)
(* cache and redlock they use, and the sends themselves, up to what IBEX   *)
(* did with the money. Every await is a step of its own.                   *)
(*                                                                         *)
(* A key of Keys stands for the pair of a sender wallet and a client's     *)
(* key, a payment for the request fingerprint. The send is the intraledger *)
(* one, which mints a new invoice each time it runs: nothing but the key   *)
(* tells a repetition from a second payment.                               *)
(***************************************************************************)
EXTENDS FiniteSets, IbexPaymentStatus

CONSTANTS
    Requests,     \* HTTP requests; a client's retry is another request
    Keys,         \* scoped idempotency keys of the payment input
    HeaderKeys,   \* values of the X-Idempotency-Key header
    Payments,     \* recipient and amount
    Asks,         \* what each request may ask for
    NoOne,        \* holds no lock, is in no cache, is no header
    MaxFaults     \* bound: redis failures, lost answers, lost locks, crashes

ASSUME KeysAssumption == Keys \cap {"blank", "too_long"} = {}

ASSUME NoOneAssumption == NoOne \notin Requests

\* lnurlPaymentSend takes no idempotency key.
ValidAsks ==
    {a \in [key : Keys \cup {"blank", "too_long"}, payment : Payments,
            header : HeaderKeys \cup {NoOne, "malformed"}, rail : {"intraledger", "lnurl"}] :
        a.rail = "lnurl" => a.key = "blank"}

ASSUME AsksAssumption == Asks \in [Requests -> SUBSET ValidAsks]

Errors == {"reuse_error", "invalid_key", "busy", "ibex_error", "http_400"}

Entries == [payment : Payments, result : PaymentSendStatus]

NoEntry == [payment |-> NoOne, result |-> "none"]

NoAsk == [key |-> "blank", payment |-> NoOne, header |-> NoOne, rail |-> "none"]

VARIABLES
    pc,          \* where each request's handler is
    ask,         \* what each request asks for
    reply,       \* what each request was answered
    result,      \* what its execute() returned
    fate,        \* what IBEX did with its send
    headerLock,  \* header keys whose timelock was taken
    lock,        \* payment-idempotency lock of each key: its holder
    cache,       \* cached outcome of each key
    sends,       \* number of sends IBEX took under each key
    lapses,      \* events after which a repetition is no longer recognised
    faults

vars == <<pc, ask, reply, result, fate, headerLock, lock, cache, sends, lapses, faults>>

Init ==
    /\ pc = [r \in Requests |-> "new"]
    /\ ask = [r \in Requests |-> NoAsk]
    /\ reply = [r \in Requests |-> "none"]
    /\ result = [r \in Requests |-> "none"]
    /\ fate = [r \in Requests |-> "none"]
    /\ headerLock = {}
    /\ lock = [k \in Keys |-> NoOne]
    /\ cache = [k \in Keys |-> NoEntry]
    /\ sends = [k \in Keys |-> 0]
    /\ lapses = [k \in Keys |-> 0]
    /\ faults = 0

-----------------------------------------------------------------------------

Keyed(r) == ask[r].key \in Keys

Holds(r) == Keyed(r) /\ lock[ask[r].key] = r

\* IBEX took the request's send, whatever becomes of it.
Sent(r) == fate[r] # "none"

\* The one who could still tell the others that the payment was sent.
Unrecorded(r) ==
    pc[r] = "persist" /\ Holds(r) /\ Sent(r) /\ result[r] \in PaymentSendStatus

GoTo(r, label) == pc' = [pc EXCEPT ![r] = label]

Answer(r, what) == GoTo(r, "done") /\ reply' = [reply EXCEPT ![r] = what]

Fault == faults < MaxFaults /\ faults' = faults + 1

Lapse(k, if) == lapses' = IF if THEN [lapses EXCEPT ![k] = @ + 1] ELSE lapses

\* A client sends a request, of which it may send another with the same key.
Submit(r) ==
    /\ pc[r] = "new"
    /\ \E a \in Asks[r] :
         /\ ask' = [ask EXCEPT ![r] = a]
         /\ GoTo(r, IF a.header # NoOne THEN "header" ELSE "wrapper")
    /\ UNCHANGED <<reply, result, fate, headerLock, lock, cache, sends, lapses, faults>>

\* idempotencyMiddleware: a header that is not one UUID, or a body that does not
\* parse, is refused. lockIdempotencyKey returns the error of a timelock it did
\* not get, because it is taken or redis failed, and the middleware does not look
\* at it. The timelock lasts an hour, longer than what is modelled.
idempotencyMiddleware(r) ==
    /\ pc[r] = "header"
    /\ \/ /\ ask[r].header = "malformed"
          /\ Answer(r, "http_400")
          /\ UNCHANGED <<headerLock, faults>>
       \/ /\ ask[r].header # "malformed"
          /\ headerLock' = headerLock \cup {ask[r].header}
          /\ GoTo(r, "wrapper")
          /\ UNCHANGED <<reply, faults>>
       \/ /\ ask[r].header # "malformed"
          /\ Fault
          /\ GoTo(r, "wrapper")
          /\ UNCHANGED <<reply, headerLock>>
    /\ UNCHANGED <<ask, result, fate, lock, cache, sends, lapses>>

\* Mutant: a cached result is replayed whatever was asked for.
ReplayAnything(r, entry) == entry.result

resolveCached(r, entry) ==
    IF entry.payment = ask[r].payment THEN entry.result ELSE "reuse_error"

\* withPaymentIdempotency up to the lock: no key, a bad key, the fast path. A
\* failing read counts as a miss.
FastPath(r) ==
    /\ pc[r] = "wrapper"
    /\ \/ /\ ask[r].key = "blank"
          /\ GoTo(r, "execute")
          /\ UNCHANGED <<reply, faults>>
       \/ /\ ask[r].key = "too_long"
          /\ Answer(r, "invalid_key")
          /\ UNCHANGED faults
       \/ /\ Keyed(r)
          /\ IF cache[ask[r].key] # NoEntry
             THEN Answer(r, resolveCached(r, cache[ask[r].key]))
             ELSE GoTo(r, "lock") /\ UNCHANGED reply
          /\ UNCHANGED faults
       \/ /\ Keyed(r)
          /\ Fault
          /\ GoTo(r, "lock")
          /\ UNCHANGED reply
    /\ UNCHANGED <<ask, result, fate, headerLock, lock, cache, sends, lapses>>

\* redlockClient.using: refused after its retries while the key is held. A redis
\* that fails looks the same.
AcquireLock(r) ==
    /\ pc[r] = "lock"
    /\ \/ /\ lock[ask[r].key] = NoOne
          /\ lock' = [lock EXCEPT ![ask[r].key] = r]
          /\ GoTo(r, "recheck")
          /\ UNCHANGED <<reply, faults>>
       \/ /\ lock[ask[r].key] # NoOne
          /\ Answer(r, "busy")
          /\ UNCHANGED <<lock, faults>>
       \/ /\ Fault
          /\ Answer(r, "busy")
          /\ UNCHANGED lock
    /\ UNCHANGED <<ask, result, fate, headerLock, cache, sends, lapses>>

\* Mutant: no second look at the cache once the lock is held.
NoRecheck(r) ==
    /\ pc[r] = "recheck"
    /\ GoTo(r, "execute")
    /\ UNCHANGED <<ask, reply, result, fate, headerLock, lock, cache, sends, lapses, faults>>

\* The second look at the cache, in the lock. A failing read that hides an
\* entry is a lapse.
Recheck(r) ==
    LET entry == cache[ask[r].key] IN
    /\ pc[r] = "recheck"
    /\ \/ /\ IF entry # NoEntry
             THEN /\ result' = [result EXCEPT ![r] = resolveCached(r, entry)]
                  /\ GoTo(r, "release")
             ELSE GoTo(r, "execute") /\ UNCHANGED result
          /\ UNCHANGED <<lapses, faults>>
       \/ /\ Fault
          /\ GoTo(r, "execute")
          /\ Lapse(ask[r].key, entry # NoEntry)
          /\ UNCHANGED result
    /\ UNCHANGED <<ask, reply, fate, headerLock, lock, cache, sends>>

\* What execute() can return and IBEX can have done by then: refused inputs
\* or a refused call; an invoice already paid; an answer that is read; an
\* error although IBEX took the send.
Outcomes(r) ==
    {<<"ibex_error", "none">>, <<"already_paid", "none">>}
        \cup (IF ask[r].rail = "lnurl" THEN LnurlAnswers ELSE InvoiceAnswers)

LostAnswers == {<<"ibex_error", "in_flight">>, <<"ibex_error", "succeeded">>}

\* The send. It is a lapse if IBEX took it and no answer came, or if it was
\* made without the lock, which the handler does not notice losing.
Execute(r) ==
    /\ pc[r] = "execute"
    /\ \E o \in Outcomes(r) \cup LostAnswers :
         /\ IF o \in LostAnswers THEN Fault ELSE UNCHANGED faults
         /\ result' = [result EXCEPT ![r] = o[1]]
         /\ fate' = [fate EXCEPT ![r] = o[2]]
         /\ IF Keyed(r) /\ o[2] # "none"
            THEN /\ sends' = [sends EXCEPT ![ask[r].key] = @ + 1]
                 /\ Lapse(ask[r].key, o \in LostAnswers \/ ~Holds(r))
            ELSE UNCHANGED <<sends, lapses>>
         /\ GoTo(r, "persist")
    /\ UNCHANGED <<ask, reply, headerLock, lock, cache>>

\* Mutant: only a success is cached, as if a pending payment could be repeated.
PersistSuccess(r) ==
    /\ pc[r] = "persist"
    /\ cache' = IF Keyed(r) /\ result[r] = "success"
                THEN [cache EXCEPT ![ask[r].key] =
                        [payment |-> ask[r].payment, result |-> result[r]]]
                ELSE cache
    /\ IF Keyed(r) THEN GoTo(r, "release") /\ UNCHANGED reply ELSE Answer(r, result[r])
    /\ UNCHANGED <<ask, result, fate, headerLock, lock, sends, lapses, faults>>

\* Mutant: a send that failed is tried again under the lock.
RetryInLock(r) ==
    /\ pc[r] = "persist"
    /\ cache' = IF Keyed(r) /\ result[r] \in PaymentSendStatus
                THEN [cache EXCEPT ![ask[r].key] =
                        [payment |-> ask[r].payment, result |-> result[r]]]
                ELSE cache
    /\ \/ result[r] \notin PaymentSendStatus /\ GoTo(r, "execute") /\ UNCHANGED reply
       \/ result[r] \in PaymentSendStatus /\ Keyed(r) /\ GoTo(r, "release") /\ UNCHANGED reply
       \/ result[r] \in PaymentSendStatus /\ ~Keyed(r) /\ Answer(r, result[r])
    /\ UNCHANGED <<ask, result, fate, headerLock, lock, sends, lapses, faults>>

\* A status is cached, an error is not. A failing write is a lapse if the
\* payment was sent and this request was still the one in charge.
Persist(r) ==
    /\ pc[r] = "persist"
    /\ \/ /\ ~Keyed(r)
          /\ Answer(r, result[r])
          /\ UNCHANGED <<cache, lapses, faults>>
       \/ /\ Keyed(r)
          /\ cache' = IF result[r] \in PaymentSendStatus
                      THEN [cache EXCEPT ![ask[r].key] =
                              [payment |-> ask[r].payment, result |-> result[r]]]
                      ELSE cache
          /\ GoTo(r, "release")
          /\ UNCHANGED <<reply, lapses, faults>>
       \/ /\ Keyed(r)
          /\ result[r] \in PaymentSendStatus
          /\ Fault
          /\ Lapse(ask[r].key, Unrecorded(r))
          /\ GoTo(r, "release")
          /\ UNCHANGED <<reply, cache>>
    /\ UNCHANGED <<ask, result, fate, headerLock, lock, sends>>

\* The finally of redlockClient.using: a release that finds its lock gone, or
\* no redis, throws, and the caller is told that the key is busy.
ReleaseLock(r) ==
    /\ pc[r] = "release"
    /\ \/ /\ Holds(r)
          /\ lock' = [lock EXCEPT ![ask[r].key] = NoOne]
          /\ Answer(r, result[r])
          /\ UNCHANGED faults
       \/ /\ ~Holds(r)
          /\ Answer(r, "busy")
          /\ UNCHANGED <<lock, faults>>
       \/ /\ Fault
          /\ Answer(r, "busy")
          /\ UNCHANGED lock
    /\ UNCHANGED <<ask, result, fate, headerLock, cache, sends, lapses>>

-----------------------------------------------------------------------------

Running == {"header", "wrapper", "lock", "recheck", "execute", "persist", "release"}

\* The server process dies. A payment it had not recorded is forgotten.
Crash(r) ==
    /\ pc[r] \in Running
    /\ Fault
    /\ GoTo(r, "dead")
    /\ IF Keyed(r) THEN Lapse(ask[r].key, Unrecorded(r)) ELSE UNCHANGED lapses
    /\ UNCHANGED <<ask, reply, result, fate, headerLock, lock, cache, sends>>

\* The lock of a holder that no longer extends it runs out: the holder is
\* gone, or redis did not take the extension. execute() ignores the signal.
LockRunsOut(k) ==
    /\ lock[k] # NoOne
    /\ IF pc[lock[k]] \in Running
       THEN Fault /\ Lapse(k, Unrecorded(lock[k]))
       ELSE UNCHANGED <<faults, lapses>>
    /\ lock' = [lock EXCEPT ![k] = NoOne]
    /\ UNCHANGED <<pc, ask, reply, result, fate, headerLock, cache, sends>>

\* The cached outcome is older than IDEMPOTENCY_TTL_SECS.
EntryRunsOut(k) ==
    /\ cache[k] # NoEntry
    /\ Fault
    /\ cache' = [cache EXCEPT ![k] = NoEntry]
    /\ Lapse(k, TRUE)
    /\ UNCHANGED <<pc, ask, reply, result, fate, headerLock, lock, sends>>

Handle(r) ==
    \/ idempotencyMiddleware(r)
    \/ FastPath(r)
    \/ AcquireLock(r)
    \/ Recheck(r)
    \/ Execute(r)
    \/ Persist(r)
    \/ ReleaseLock(r)

\* Nothing more happens once all requests are answered.
Rest ==
    /\ \A r \in Requests : pc[r] \in {"done", "dead"}
    /\ UNCHANGED vars

Next ==
    \/ \E r \in Requests : Submit(r) \/ Handle(r) \/ Crash(r)
    \/ \E k \in Keys : LockRunsOut(k) \/ EntryRunsOut(k)
    \/ Rest

Spec == Init /\ [][Next]_vars

\* A handler that is not dead goes on; redis drops a lock nobody extends.
FairSpec ==
    /\ Spec
    /\ \A r \in Requests : WF_vars(Handle(r))
    /\ \A k \in Keys : WF_vars(LockRunsOut(k) /\ pc[lock[k]] \notin Running)

-----------------------------------------------------------------------------

TypeOK ==
    /\ pc \in [Requests -> Running \cup {"new", "done", "dead"}]
    /\ ask \in [Requests -> ValidAsks \cup {NoAsk}]
    /\ reply \in [Requests -> PaymentSendStatus \cup Errors \cup {"none"}]
    /\ result \in [Requests -> PaymentSendStatus \cup Errors \cup {"none"}]
    /\ fate \in [Requests -> Fates \cup {"none"}]
    /\ headerLock \in SUBSET HeaderKeys
    /\ lock \in [Keys -> Requests \cup {NoOne}]
    /\ cache \in [Keys -> Entries \cup {NoEntry}]
    /\ sends \in [Keys -> Nat]
    /\ lapses \in [Keys -> Nat]
    /\ faults \in Nat

\* A payment is sent once per key, plus at most once for each lapse: an answer of
\* IBEX that was lost, an outcome that could not be stored or was dropped, a
\* lock or a process lost before it was. Neither the interleaving of requests,
\* nor a refused lock, nor a failing read on the fast path, nor an error that
\* moved nothing is such an event.
SendOnce == \A k \in Keys : sends[k] <= 1 + lapses[k]

PlaceInv ==
    \A r \in Requests :
        /\ pc[r] = "header" => ask[r].header # NoOne
        /\ pc[r] \in {"lock", "recheck", "release"} => Keyed(r)

HolderInv ==
    \A k \in Keys : lock[k] # NoOne =>
        /\ ask[lock[k]].key = k
        /\ pc[lock[k]] \in {"recheck", "execute", "persist", "release", "done", "dead"}
        /\ pc[lock[k]] = "execute" => sends[k] <= lapses[k]

MemoryInv ==
    \A k \in Keys :
        cache[k] = NoEntry /\ ~(lock[k] # NoOne /\ Unrecorded(lock[k]))
        => sends[k] <= lapses[k]

\* What makes SendOnce inductive: there is something to forget about a key only
\* while its outcome is cached or its holder is about to cache it (MemoryInv),
\* and a holder that is about to send has nothing to repeat (HolderInv).
SendInv == TypeOK /\ SendOnce /\ PlaceInv /\ HolderInv /\ MemoryInv

Same(r, s) == ask[s].key = ask[r].key /\ ask[s].payment = ask[r].payment

Told == {"success", "failure", "pending"}

Claims(status, f) ==
    CASE status = "success" -> f = "succeeded"
      [] status = "failure" -> f = "failed"
      [] OTHER              -> f # "none"

Backed(r, status) ==
    \E s \in Requests : (s = r \/ (Keyed(r) /\ Same(r, s))) /\ Claims(status, fate[s])

\* A status is only ever reported for the payment that was asked for, and it is
\* what happened: "success" if some request for this payment succeeded, with
\* the same key if not by itself; "failure" if one failed, "pending" if one was
\* sent.
AnswerIsTrue == \A r \in Requests : reply[r] \in Told => Backed(r, reply[r])

\* A client that is told "failure" under a key can start over with a new one:
\* without a lapse, nothing was or will be paid under the old one.
FailureIsFinal ==
    \A r, s \in Requests :
        reply[r] = "failure" /\ Keyed(r) /\ Same(r, s) /\ lapses[ask[r].key] = 0
        => fate[s] \in {"none", "failed"}

BeforeSend == {"new", "header", "wrapper", "lock", "recheck", "execute"}

FreshInv ==
    \A r \in Requests :
        /\ pc[r] \in BeforeSend => fate[r] = "none"
        /\ pc[r] = "new" => result[r] = "none" /\ reply[r] = "none"

ResultIsTrue == \A r \in Requests : result[r] \in Told => Backed(r, result[r])

MemoryIsTrue ==
    \A k \in Keys : cache[k].result \in Told =>
        \E s \in Requests :
            /\ ask[s].key = k /\ ask[s].payment = cache[k].payment
            /\ Claims(cache[k].result, fate[s])

OneSender ==
    \A r, s \in Requests :
        /\ Keyed(r) /\ ask[s].key = ask[r].key
        /\ Sent(r) /\ Sent(s)
        => sends[ask[r].key] > 0 /\ (r = s \/ lapses[ask[r].key] > 0)

\* What makes AnswerIsTrue and FailureIsFinal inductive: what is held in a
\* handler or in the cache is as true as what is answered, and without a lapse
\* one request at most was sent under a key.
AnswerInv ==
    /\ AnswerIsTrue
    /\ FreshInv
    /\ ResultIsTrue
    /\ MemoryIsTrue
    /\ OneSender

\* The lock of a key always comes free, whoever held it and however it ended.
KeyComesFree == \A k \in Keys : lock[k] # NoOne ~> lock[k] = NoOne

\* idempotencyMiddleware answers a request whose key is taken with a 409, "the
\* idempotency key already exist": one request per key reaches the resolver.
HeaderOnce ==
    \A r, s \in Requests :
        /\ r # s
        /\ ask[r].header = ask[s].header
        /\ ask[r].header # NoOne
        /\ pc[r] \notin {"new", "header"} /\ pc[s] \notin {"new", "header"}
        => {reply[r], reply[s]} \cap {"http_400", "http_409"} # {}

=============================================================================
