---------------------- MODULE PaymentIdempotencyProofs -----------------------
(***************************************************************************)
(* SendOnce, AnswerIsTrue and FailureIsFinal for any requests, keys and    *)
(* number of faults: the inductive invariants are SendInv and AnswerInv.   *)
(***************************************************************************)
EXTENDS PaymentIdempotency, TLAPS

\* A leaf goes to Zenon, which needs no types; the leaves that need arithmetic, records
\* or updated functions name SMT.
USE Zenon

\* What a send can return is a status or an error, and IBEX has done with it
\* one of the things it can do, or nothing.
LEMMA OutcomeTypes ==
    ASSUME NEW r \in Requests, NEW o \in Outcomes(r) \cup LostAnswers
    PROVE  /\ o[1] \in PaymentSendStatus \cup Errors
           /\ o[2] \in Fates \cup {"none"}
BY SMT DEF Outcomes, LostAnswers, LnurlAnswers, InvoiceAnswers, PaymentSendStatus, Errors, Fates

\* What is replayed from the cache is a status or the refusal of another payment.
LEMMA CachedTypes ==
    ASSUME TypeOK, NEW r \in Requests, Keyed(r), cache[ask[r].key] # NoEntry
    PROVE  resolveCached(r, cache[ask[r].key]) \in PaymentSendStatus \cup Errors
BY DEF TypeOK, Keyed, resolveCached, Entries, Errors

\* Every step of the handlers, the clients and redis preserves the types.
LEMMA TypeStep ==
    ASSUME SendInv, [Next]_vars
    PROVE  TypeOK'
<1> USE DEF SendInv, GoTo, Answer, Fault, Lapse
<1>1. ASSUME NEW r \in Requests, Submit(r) PROVE TypeOK'
  <2>1. PICK a \in Asks[r] : ask' = [ask EXCEPT ![r] = a]
                            /\ GoTo(r, IF a.header # NoOne THEN "header" ELSE "wrapper")
    BY <1>1 DEF Submit
  <2>2. a \in ValidAsks
    BY AsksAssumption
  <2>3. ask' \in [Requests -> ValidAsks \cup {NoAsk}]
    BY <2>1, <2>2 DEF TypeOK
  <2> QED BY <1>1, <2>1, <2>3 DEF TypeOK, Submit, Running
<1>2. ASSUME NEW r \in Requests, idempotencyMiddleware(r) PROVE TypeOK'
  <2>1. ask[r].header \in HeaderKeys \cup {"malformed"}
    BY SMT, <1>2 DEF TypeOK, PlaceInv, ValidAsks, NoAsk, idempotencyMiddleware
  <2>2. headerLock' \in SUBSET HeaderKeys
    BY <1>2, <2>1 DEF TypeOK, idempotencyMiddleware
  <2> QED BY SMT, <1>2, <2>2 DEF TypeOK, idempotencyMiddleware, Running, Errors
<1>3. ASSUME NEW r \in Requests, FastPath(r) PROVE TypeOK'
  BY SMT, <1>3, CachedTypes DEF TypeOK, FastPath, Running, Errors
<1>4. ASSUME NEW r \in Requests, AcquireLock(r) PROVE TypeOK'
  BY SMT, <1>4 DEF TypeOK, PlaceInv, AcquireLock, Running, Errors
<1>5. ASSUME NEW r \in Requests, Recheck(r) PROVE TypeOK'
  BY SMT, <1>5, CachedTypes DEF TypeOK, PlaceInv, Recheck, Running, Keyed
<1>6. ASSUME NEW r \in Requests, Execute(r) PROVE TypeOK'
  <2>1. PICK o \in Outcomes(r) \cup LostAnswers :
          /\ IF o \in LostAnswers THEN Fault ELSE UNCHANGED faults
          /\ result' = [result EXCEPT ![r] = o[1]]
          /\ fate' = [fate EXCEPT ![r] = o[2]]
          /\ IF Keyed(r) /\ o[2] # "none"
             THEN /\ sends' = [sends EXCEPT ![ask[r].key] = @ + 1]
                  /\ Lapse(ask[r].key, o \in LostAnswers \/ ~Holds(r))
             ELSE UNCHANGED <<sends, lapses>>
          /\ GoTo(r, "persist")
    BY <1>6 DEF Execute
  <2>2. /\ result' \in [Requests -> PaymentSendStatus \cup Errors \cup {"none"}]
        /\ fate' \in [Requests -> Fates \cup {"none"}]
    BY <2>1, OutcomeTypes DEF TypeOK
  <2>3. sends' \in [Keys -> Nat] /\ lapses' \in [Keys -> Nat] /\ faults' \in Nat
    BY SMT, <2>1 DEF TypeOK, Keyed
  <2> QED BY <1>6, <2>1, <2>2, <2>3 DEF TypeOK, Execute, Running
<1>7. ASSUME NEW r \in Requests, Persist(r) PROVE TypeOK'
  <2>1. CASE ~Keyed(r)
    BY <1>7, <2>1 DEF TypeOK, Persist, Running
  <2>2. CASE Keyed(r)
    <3>1. ask[r].payment \in Payments
      BY SMT, <2>2, KeysAssumption DEF TypeOK, Keyed, ValidAsks, NoAsk
    <3>2. cache' \in [Keys -> Entries \cup {NoEntry}]
      BY SMT, <1>7, <2>2, <3>1 DEF TypeOK, Persist, Keyed, Entries
    <3>3. lapses' \in [Keys -> Nat]
      BY SMT, <1>7, <2>2 DEF TypeOK, Persist, Keyed
    <3> QED BY SMT, <1>7, <2>2, <3>2, <3>3 DEF TypeOK, Persist, Running
  <2> QED BY <2>1, <2>2
<1>8. ASSUME NEW r \in Requests, ReleaseLock(r) PROVE TypeOK'
  BY SMT, <1>8 DEF TypeOK, ReleaseLock, Running, Errors, Holds, Keyed
<1>9. ASSUME NEW r \in Requests, Crash(r) PROVE TypeOK'
  BY SMT, <1>9 DEF TypeOK, Crash, Running, Keyed
<1>10. ASSUME NEW k \in Keys, LockRunsOut(k) PROVE TypeOK'
  BY SMT, <1>10 DEF TypeOK, LockRunsOut
<1>11. ASSUME NEW k \in Keys, EntryRunsOut(k) PROVE TypeOK'
  BY SMT, <1>11 DEF TypeOK, EntryRunsOut
<1>12. CASE UNCHANGED vars
  BY <1>12 DEF TypeOK, vars
<1> QED
  BY <1>1, <1>2, <1>3, <1>4, <1>5, <1>6, <1>7, <1>8, <1>9, <1>10, <1>11, <1>12
  DEF Next, Handle, Rest

-----------------------------------------------------------------------------
\* The steps of one request.

\* A step that leaves every lock, cache entry and count alone, and does not take
\* its request into or out of a place where it matters, preserves the rest.
LEMMA QuietStep ==
    ASSUME SendInv, TypeOK', NEW r \in Requests,
           pc[r] \in {"new", "header", "wrapper"},
           pc' = [pc EXCEPT ![r] = pc'[r]],
           pc'[r] # "header" \/ ask'[r].header # NoOne,
           pc'[r] \in {"lock", "recheck", "release"} => ask'[r].key \in Keys,
           \A s \in Requests \ {r} : ask'[s] = ask[s],
           UNCHANGED <<result, fate, lock, cache, sends, lapses>>
    PROVE  SendInv'
<1> USE DEF SendInv
<1>1. \A k \in Keys : lock[k] # NoOne => lock[k] # r /\ lock[k] \in Requests
  BY SMT DEF HolderInv, TypeOK
<1>2. PlaceInv'
  BY SMT DEF PlaceInv, TypeOK, Keyed
<1>3. HolderInv'
  BY SMT, <1>1 DEF HolderInv, TypeOK
<1>4. MemoryInv'
  BY <1>1 DEF MemoryInv, TypeOK, Unrecorded, Holds, Keyed, Sent
<1> QED BY <1>2, <1>3, <1>4 DEF SendOnce

\* Submit, the middleware and the fast path.
LEMMA FrontStep ==
    ASSUME SendInv, TypeOK', NEW r \in Requests,
           Submit(r) \/ idempotencyMiddleware(r) \/ FastPath(r)
    PROVE  SendInv'
<1> USE DEF GoTo, Answer
<1>1. CASE Submit(r)
  <2>1. PICK a \in Asks[r] : ask' = [ask EXCEPT ![r] = a]
                            /\ GoTo(r, IF a.header # NoOne THEN "header" ELSE "wrapper")
    BY <1>1 DEF Submit
  <2>2. ask \in [Requests -> ValidAsks \cup {NoAsk}] /\ pc \in [Requests -> Running \cup {"new", "done", "dead"}]
    BY DEF SendInv, TypeOK
  <2>3. /\ pc' = [pc EXCEPT ![r] = pc'[r]]
        /\ pc'[r] # "header" \/ ask'[r].header # NoOne
        /\ pc'[r] \notin {"lock", "recheck", "release"}
    BY <2>1, <2>2
  <2> QED BY <1>1, <2>1, <2>2, <2>3, QuietStep DEF Submit
<1>2. CASE idempotencyMiddleware(r)
  BY SMT, <1>2, QuietStep DEF idempotencyMiddleware, SendInv, TypeOK
<1>3. CASE FastPath(r)
  BY SMT, <1>3, QuietStep DEF FastPath, SendInv, TypeOK, Keyed
<1> QED BY <1>1, <1>2, <1>3

\* redlockClient.using hands the lock to one who has not sent anything yet.
LEMMA AcquireStep ==
    ASSUME SendInv, TypeOK', NEW r \in Requests, AcquireLock(r)
    PROVE  SendInv'
<1> USE DEF SendInv, GoTo, Answer
<1>1. pc[r] = "lock" /\ ask[r].key \in Keys /\ r # NoOne
  BY NoOneAssumption DEF AcquireLock, PlaceInv, Keyed
<1>2. \A k \in Keys : lock[k] # NoOne => lock[k] # r /\ lock[k] \in Requests
  BY SMT, <1>1 DEF HolderInv, TypeOK
<1>3. PlaceInv'
  BY SMT, <1>1 DEF AcquireLock, PlaceInv, TypeOK, Keyed
<1>4. HolderInv'
  BY SMT, <1>1, <1>2 DEF AcquireLock, HolderInv, TypeOK
<1>5. MemoryInv'
  BY SMT, <1>1, <1>2 DEF AcquireLock, MemoryInv, TypeOK, Unrecorded, Holds, Keyed, Sent
<1> QED BY <1>3, <1>4, <1>5 DEF SendOnce, AcquireLock

\* The second look at the cache sends nobody to execute who has something to
\* repeat, unless the read failed.
LEMMA RecheckStep ==
    ASSUME SendInv, TypeOK', NEW r \in Requests, Recheck(r)
    PROVE  SendInv'
<1> USE DEF SendInv, GoTo, Lapse
<1> DEFINE k == ask[r].key
<1>1. pc[r] = "recheck" /\ k \in Keys
  BY DEF Recheck, PlaceInv, Keyed
<1>2. PlaceInv'
  BY SMT, <1>1 DEF Recheck, PlaceInv, TypeOK, Keyed
<1>3. SendOnce'
  BY SMT, <1>1 DEF Recheck, SendOnce, TypeOK
<1>4. MemoryInv'
  BY SMT, <1>1, NoOneAssumption DEF Recheck, MemoryInv, TypeOK, Unrecorded, Holds, Keyed, Sent
<1>5. HolderInv'
  <2>1. pc'[r] = "execute" /\ lock[k] = r => sends'[k] <= lapses'[k]
    BY SMT, <1>1, NoOneAssumption DEF Recheck, TypeOK, SendOnce, MemoryInv, Unrecorded
  <2> QED BY SMT, <1>1, <2>1 DEF Recheck, HolderInv, TypeOK
<1> QED BY <1>2, <1>3, <1>4, <1>5

\* The send: by the holder of the lock it is the first since the last lapse;
\* without the lock it is a lapse.
LEMMA ExecuteStep ==
    ASSUME SendInv, TypeOK', NEW r \in Requests, Execute(r)
    PROVE  SendInv'
<1> USE DEF SendInv, GoTo, Lapse
<1> DEFINE k == ask[r].key
<1>1. PICK o \in Outcomes(r) \cup LostAnswers :
        /\ result' = [result EXCEPT ![r] = o[1]]
        /\ fate' = [fate EXCEPT ![r] = o[2]]
        /\ IF Keyed(r) /\ o[2] # "none"
           THEN /\ sends' = [sends EXCEPT ![ask[r].key] = @ + 1]
                /\ Lapse(ask[r].key, o \in LostAnswers \/ ~Holds(r))
           ELSE UNCHANGED <<sends, lapses>>
        /\ GoTo(r, "persist")
  BY DEF Execute
<1>2. o \notin LostAnswers /\ o[2] # "none" => o[1] \in PaymentSendStatus
  BY SMT DEF Outcomes, LnurlAnswers, InvoiceAnswers
<1>3. pc[r] = "execute" /\ UNCHANGED <<ask, lock, cache>>
  BY DEF Execute
<1>4. PlaceInv'
  BY SMT, <1>1, <1>3 DEF PlaceInv, TypeOK, Keyed
<1>5. \A j \in Keys : lock[j] = r => j = k
  BY NoOneAssumption DEF HolderInv
<1>6. \A j \in Keys : j # k => sends'[j] = sends[j] /\ lapses'[j] = lapses[j]
  BY SMT, <1>1 DEF TypeOK
<1>7. ASSUME k \in Keys
      PROVE  \/ sends[k] <= lapses[k] /\ lock[k] = r
             \/ sends'[k] - lapses'[k] <= sends[k] - lapses[k]
  <2>1. CASE lock[k] = r
    BY SMT, <2>1, <1>3, <1>7, NoOneAssumption DEF HolderInv
  <2>2. CASE lock[k] # r
    BY SMT, <2>2, <1>1, <1>7 DEF Holds, TypeOK, Keyed
  <2> QED BY <2>1, <2>2
<1>8. k \in Keys => /\ sends'[k] \in Nat /\ lapses'[k] \in Nat
                    /\ sends[k] \in Nat /\ lapses[k] \in Nat
                    /\ sends'[k] <= sends[k] + 1 /\ lapses'[k] >= lapses[k]
  BY SMT, <1>1 DEF TypeOK, Keyed
<1>9. SendOnce'
  BY SMT, <1>6, <1>7, <1>8 DEF SendOnce, TypeOK
<1>10. HolderInv'
  BY SMT, <1>1, <1>3, <1>5, <1>6, <1>7, <1>8 DEF HolderInv, TypeOK
<1>11. MemoryInv'
  <2> SUFFICES ASSUME NEW j \in Keys, cache[j] = NoEntry,
                      ~(lock[j] # NoOne /\ Unrecorded(lock[j])')
               PROVE  sends'[j] <= lapses'[j]
    BY <1>3 DEF MemoryInv
  <2>u. lock[j] # r /\ lock[j] # NoOne => (Unrecorded(lock[j])' <=> Unrecorded(lock[j]))
    <3>1. /\ lock[j] \in Requests \cup {NoOne}
          /\ DOMAIN pc = Requests /\ DOMAIN fate = Requests /\ DOMAIN result = Requests
      BY DEF TypeOK
    <3>2. ASSUME NEW q \in Requests, q # r
          PROVE  pc'[q] = pc[q] /\ fate'[q] = fate[q] /\ result'[q] = result[q]
      BY <3>1, <3>2, <1>1
    <3> QED BY <3>1, <3>2, <1>3 DEF Unrecorded, Holds, Keyed, Sent
  <2>1. CASE j # k
    <3>1. lock[j] # r
      BY <2>1, <1>5
    <3>2. ~(lock[j] # NoOne /\ Unrecorded(lock[j]))
      BY <3>1, <2>u
    <3> QED BY <2>1, <3>2, <1>6 DEF MemoryInv
  <2>2. CASE j = k /\ lock[k] = r
    <3>1. pc'[r] = "persist" /\ Holds(r)' /\ Holds(r) /\ r # NoOne
      BY SMT, <2>2, <1>1, <1>3, NoOneAssumption DEF TypeOK, Holds, Keyed
    <3>2. o[2] = "none" \/ o[1] \notin PaymentSendStatus
      BY <2>2, <3>1, <1>1, <1>3 DEF Unrecorded, Sent, TypeOK
    <3>3. sends[k] <= lapses[k]
      BY <2>2, <3>1, <1>3 DEF HolderInv
    <3>4. CASE o[2] = "none"
      BY <2>2, <3>3, <3>4, <1>1
    <3>5. CASE o \in LostAnswers /\ o[2] # "none"
      BY SMT, <2>2, <3>1, <3>3, <3>5, <1>1 DEF TypeOK, Holds
    <3> QED BY <3>2, <3>4, <3>5, <1>2
  <2>3. CASE j = k /\ lock[k] # r
    <3>1. ~(lock[j] # NoOne /\ Unrecorded(lock[j]))
      BY <2>3, <2>u
    <3>2. sends[k] <= lapses[k]
      BY <2>3, <3>1 DEF MemoryInv
    <3> QED BY SMT, <2>3, <3>2, <1>7, <1>8
  <2> QED BY <2>1, <2>2, <2>3
<1> QED BY <1>4, <1>9, <1>10, <1>11

\* Once the outcome is cached, or was an error, the holder is not needed to
\* remember the send; a failing write that mattered is a lapse.
LEMMA PersistStep ==
    ASSUME SendInv, TypeOK', NEW r \in Requests, Persist(r)
    PROVE  SendInv'
<1> USE DEF SendInv, GoTo, Answer, Lapse
<1> DEFINE k == ask[r].key
<1>1. /\ pc[r] = "persist" /\ pc'[r] \in {"done", "release"}
      /\ pc' = [pc EXCEPT ![r] = pc'[r]]
      /\ UNCHANGED <<ask, result, fate, lock, sends>>
  BY SMT DEF Persist, TypeOK
<1>2. PlaceInv'
  BY SMT DEF Persist, PlaceInv, TypeOK, Keyed
<1>3. \A j \in Keys : lapses'[j] \in Nat /\ lapses[j] \in Nat /\ lapses'[j] >= lapses[j]
  BY SMT DEF Persist, TypeOK, Keyed
<1>4. SendOnce'
  BY SMT, <1>1, <1>3 DEF SendOnce, TypeOK
<1>5. HolderInv'
  BY SMT, <1>1, <1>3 DEF HolderInv, TypeOK
<1>6. MemoryInv'
  <2> SUFFICES ASSUME NEW j \in Keys, cache'[j] = NoEntry,
                      ~(lock[j] # NoOne /\ Unrecorded(lock[j])')
               PROVE  sends[j] <= lapses'[j]
    BY <1>1 DEF MemoryInv
  <2>1. CASE lock[j] # r
    <3>1. ~(lock[j] # NoOne /\ Unrecorded(lock[j]))
      BY <2>1, <1>1 DEF TypeOK, Unrecorded, Holds, Keyed, Sent
    <3>2. cache[j] = NoEntry
      BY SMT DEF Persist, TypeOK, Keyed, NoEntry, PaymentSendStatus
    <3> QED BY SMT, <3>1, <3>2, <1>3 DEF MemoryInv, TypeOK
  <2>2. CASE lock[j] = r
    <3>1. j = k /\ Keyed(r) /\ Holds(r)
      BY <2>2, NoOneAssumption DEF HolderInv, Keyed, Holds
    <3>2. CASE Unrecorded(r)
      <4>1. cache' # [cache EXCEPT ![k] = [payment |-> ask[r].payment, result |-> result[r]]]
        BY SMT, <3>1, <3>2 DEF TypeOK, Unrecorded, NoEntry, PaymentSendStatus
      <4>2. lapses' = [lapses EXCEPT ![k] = @ + 1]
        BY <3>1, <3>2, <4>1 DEF Persist, Unrecorded
      <4> QED BY SMT, <3>1, <4>2 DEF SendOnce, TypeOK
    <3>3. CASE ~Unrecorded(r)
      <4>1. cache[j] = NoEntry
        BY SMT DEF Persist, TypeOK, Keyed, NoEntry, PaymentSendStatus
      <4> QED BY SMT, <2>2, <3>3, <4>1, <1>3 DEF MemoryInv, TypeOK
    <3> QED BY <3>2, <3>3
  <2> QED BY <2>1, <2>2
<1> QED BY <1>2, <1>4, <1>5, <1>6

\* Releasing the lock forgets nothing: its holder is past caching.
LEMMA ReleaseStep ==
    ASSUME SendInv, TypeOK', NEW r \in Requests, ReleaseLock(r)
    PROVE  SendInv'
<1> USE DEF SendInv, GoTo, Answer
<1>1. PlaceInv'
  BY SMT DEF ReleaseLock, PlaceInv, TypeOK, Keyed
<1>2. HolderInv'
  BY SMT, NoOneAssumption DEF ReleaseLock, HolderInv, TypeOK, Holds
<1>3. MemoryInv'
  BY SMT, NoOneAssumption DEF ReleaseLock, MemoryInv, TypeOK, Unrecorded, Holds, Keyed, Sent
<1> QED BY <1>1, <1>2, <1>3 DEF ReleaseLock, SendOnce

\* A crash forgets what its process had not cached.
LEMMA CrashStep ==
    ASSUME SendInv, TypeOK', NEW r \in Requests, Crash(r)
    PROVE  SendInv'
<1> USE DEF SendInv, GoTo, Lapse
<1>1. PlaceInv'
  BY DEF Crash, PlaceInv, TypeOK, Keyed
<1>2. \A j \in Keys : lapses'[j] \in Nat /\ lapses[j] \in Nat /\ lapses'[j] >= lapses[j]
  BY SMT DEF Crash, TypeOK, Keyed
<1>3. SendOnce' /\ HolderInv'
  BY SMT, <1>2 DEF Crash, SendOnce, HolderInv, TypeOK
<1>4. MemoryInv'
  <2> SUFFICES ASSUME NEW j \in Keys, cache[j] = NoEntry,
                      ~(lock[j] # NoOne /\ Unrecorded(lock[j])')
               PROVE  sends[j] <= lapses'[j]
    BY DEF MemoryInv, Crash
  <2>1. CASE lock[j] = r /\ Unrecorded(r)
    <3>1. ask[r].key = j /\ Keyed(r)
      BY <2>1, NoOneAssumption DEF HolderInv, Keyed
    <3> QED BY SMT, <2>1, <3>1 DEF Crash, SendOnce, TypeOK
  <2>2. CASE ~(lock[j] = r /\ Unrecorded(r))
    <3>1. ~(lock[j] # NoOne /\ Unrecorded(lock[j]))
      BY <2>2 DEF Crash, TypeOK, Unrecorded, Holds, Keyed, Sent
    <3> QED BY SMT, <3>1, <1>2 DEF MemoryInv, TypeOK
  <2> QED BY <2>1, <2>2
<1> QED BY <1>1, <1>3, <1>4

\* A lock that runs out, or a cached outcome that is dropped.
LEMMA RunOutStep ==
    ASSUME SendInv, TypeOK', NEW k \in Keys, LockRunsOut(k) \/ EntryRunsOut(k)
    PROVE  SendInv'
<1> USE DEF SendInv, Lapse
<1>1. PlaceInv'
  BY DEF LockRunsOut, EntryRunsOut, PlaceInv, Keyed
<1>2. \A j \in Keys : lapses'[j] \in Nat /\ lapses[j] \in Nat /\ lapses'[j] >= lapses[j]
  BY SMT DEF LockRunsOut, EntryRunsOut, TypeOK
<1>3. SendOnce' /\ HolderInv'
  BY SMT, <1>2 DEF LockRunsOut, EntryRunsOut, SendOnce, HolderInv, TypeOK
<1>4. CASE LockRunsOut(k)
  <2> SUFFICES ASSUME NEW j \in Keys, cache[j] = NoEntry,
                      ~(lock[j] # NoOne /\ Unrecorded(lock[j]))'
               PROVE  sends[j] <= lapses'[j]
    BY <1>1, <1>3, <1>4 DEF MemoryInv, LockRunsOut
  <2>1. CASE j = k /\ Unrecorded(lock[k])
    <3>1. pc[lock[k]] \in Running
      BY <2>1 DEF Unrecorded, Running
    <3> QED BY SMT, <2>1, <3>1, <1>4 DEF LockRunsOut, SendOnce, TypeOK
  <2>2. CASE j = k /\ ~Unrecorded(lock[k])
    BY SMT, <2>2, <1>2 DEF MemoryInv, TypeOK
  <2>3. CASE j # k
    <3>1. lock'[j] = lock[j]
      BY SMT, <2>3, <1>4 DEF LockRunsOut, TypeOK
    <3>2. lock[j] # NoOne /\ Unrecorded(lock[j]) => (lock[j] # NoOne /\ Unrecorded(lock[j]))'
      BY SMT, <2>3, <1>4 DEF LockRunsOut, HolderInv, TypeOK, Unrecorded, Holds, Keyed, Sent
    <3> QED BY SMT, <3>1, <3>2, <1>2 DEF MemoryInv, TypeOK
  <2> QED BY <2>1, <2>2, <2>3
<1>5. CASE EntryRunsOut(k)
  <2>1. MemoryInv'
    BY SMT, <1>5 DEF EntryRunsOut, MemoryInv, SendOnce, TypeOK, Unrecorded, Holds, Keyed, Sent
  <2> QED BY <2>1, <1>1, <1>3
<1> QED BY <1>4, <1>5

-----------------------------------------------------------------------------

\* SendInv is inductive: withPaymentIdempotency, the locks and the cache keep it
\* over every interleaving and fault.
THEOREM SendInvHolds == Spec => []SendInv
<1>1. Init => SendInv
  BY SMT DEF Init, SendInv, TypeOK, SendOnce, PlaceInv, HolderInv, MemoryInv, Running
<1>2. SendInv /\ [Next]_vars => SendInv'
  <2> SUFFICES ASSUME SendInv, [Next]_vars PROVE SendInv'
    OBVIOUS
  <2>1. TypeOK'
    BY TypeStep
  <2>2. CASE UNCHANGED vars
    BY <2>2 DEF SendInv, TypeOK, SendOnce, PlaceInv, HolderInv, MemoryInv, vars,
                Unrecorded, Holds, Keyed, Sent
  <2>3. ASSUME NEW r \in Requests, Submit(r) \/ Handle(r) \/ Crash(r) PROVE SendInv'
    BY <2>1, <2>3, FrontStep, AcquireStep, RecheckStep, ExecuteStep, PersistStep,
       ReleaseStep, CrashStep DEF Handle
  <2>4. ASSUME NEW k \in Keys, LockRunsOut(k) \/ EntryRunsOut(k) PROVE SendInv'
    BY <2>1, <2>4, RunOutStep
  <2> QED BY <2>2, <2>3, <2>4 DEF Next, Rest
<1> QED BY <1>1, <1>2, PTL DEF Spec

\* A key is paid once, plus once for each lapse: withPaymentIdempotency.
THEOREM PaidOncePerKey == Spec => []SendOnce
BY SendInvHolds, PTL DEF SendInv


-----------------------------------------------------------------------------
\* What the answers say.

\* paymentSendStatusOrPending says success or failure only of a payment that has
\* succeeded or failed, whatever the fields of the answer.
LEMMA InvoiceAnswersAreTrue ==
    ASSUME NEW a \in InvoiceAnswers
    PROVE  a[2] \in Fates /\ Claims(a[1], a[2])
<1>1. PICK resp \in PayInvoiceResponses :
        Describes(resp, a[2]) /\ paymentSendStatusOrPending(resp) = a[1]
  BY DEF InvoiceAnswers
<1>2. a[2] \in Fates
  BY DEF InvoiceAnswers
<1> DEFINE level == PaymentLevel(resp)
           status == paymentSendStatusFromIbex(resp)
<1>3. /\ level = "success" => a[2] = "succeeded"
      /\ level = "failure" => a[2] = "failed"
  BY SMT, <1>1, <1>2 DEF PaymentLevel, statusFromField, IbexPaymentStatusId, RECOGNISED_IDS,
                    Describes, FateId, Fates, PayInvoiceResponses
<1>4. \/ status = level
      \/ status = "failure" /\ a[2] = "failed"
      \/ status \in {"pending", "unconfirmed"}
  BY <1>1 DEF paymentSendStatusFromIbex, Describes
<1>5. a[1] = IF status \in PaymentSendStatus THEN status ELSE "pending"
  BY <1>1 DEF paymentSendStatusOrPending, OrPending
<1> HIDE DEF level, status
<1> QED
  BY <1>2, <1>3, <1>4, <1>5 DEF PaymentSendStatus, Claims, Fates

\* So with lnurlPaymentSendStatusOrPending, which also believes a settle date.
LEMMA LnurlAnswersAreTrue ==
    ASSUME NEW a \in LnurlAnswers
    PROVE  a[2] \in Fates /\ Claims(a[1], a[2])
<1>1. PICK resp \in LnurlResponses :
        DescribesLnurl(resp, a[2]) /\ lnurlPaymentSendStatusOrPending(resp) = a[1]
  BY DEF LnurlAnswers
<1>2. a[2] \in Fates
  BY DEF LnurlAnswers
<1> DEFINE level == PaymentLevel(resp)
           status == paymentSendStatusFromIbexLnurlPay(resp)
<1>3. /\ level = "success" => a[2] = "succeeded"
      /\ level = "failure" => a[2] = "failed"
  BY SMT, <1>1, <1>2 DEF PaymentLevel, statusFromField, IbexPaymentStatusId, RECOGNISED_IDS,
                    DescribesLnurl, FateId, Fates, LnurlResponses
<1>4. \/ status = level
      \/ status = "success" /\ a[2] = "succeeded"
      \/ status = "unconfirmed"
  BY <1>1 DEF paymentSendStatusFromIbexLnurlPay, DescribesLnurl
<1>5. a[1] = IF status \in PaymentSendStatus THEN status ELSE "pending"
  BY <1>1 DEF lnurlPaymentSendStatusOrPending, OrPending
<1> HIDE DEF level, status
<1> QED
  BY <1>2, <1>3, <1>4, <1>5 DEF PaymentSendStatus, Claims, Fates

\* What execute() returns is true, whichever the rail; where it is an error, or
\* nothing new was sent, it claims nothing.
LEMMA OutcomesAreTrue ==
    ASSUME NEW r \in Requests, NEW o \in Outcomes(r) \cup LostAnswers, o[1] \in Told
    PROVE  Claims(o[1], o[2])
BY SMT, InvoiceAnswersAreTrue, LnurlAnswersAreTrue DEF Outcomes, LostAnswers, Told

-----------------------------------------------------------------------------

\* What every step leaves alone: what a request asked for once it was submitted,
\* the fate of a send, and what has been counted.
Steady ==
    /\ \A s \in Requests : pc[s] # "new" => ask'[s] = ask[s] /\ pc'[s] # "new"
    /\ \A s \in Requests : Sent(s) => pc[s] # "new" /\ fate'[s] = fate[s]
    /\ \A k \in Keys : /\ sends[k] \in Nat /\ sends'[k] \in Nat /\ sends'[k] >= sends[k]
                        /\ lapses[k] \in Nat /\ lapses'[k] \in Nat /\ lapses'[k] >= lapses[k]

\* No step changes any of it.
LEMMA NextSteady ==
    ASSUME SendInv, TypeOK', AnswerInv, [Next]_vars
    PROVE  Steady
<1> USE DEF GoTo, Answer, Lapse
<1>1. /\ \A s \in Requests : Sent(s) => pc[s] \notin BeforeSend
      /\ pc \in [Requests -> Running \cup {"new", "done", "dead"}]
  BY DEF SendInv, TypeOK, AnswerInv, FreshInv, Sent
<1>2. /\ sends \in [Keys -> Nat] /\ sends' \in [Keys -> Nat]
      /\ lapses \in [Keys -> Nat] /\ lapses' \in [Keys -> Nat]
      /\ ask \in [Requests -> ValidAsks \cup {NoAsk}]
      /\ fate \in [Requests -> Fates \cup {"none"}]
  BY DEF SendInv, TypeOK
<1>3. ASSUME NEW r \in Requests, Submit(r) PROVE Steady
  BY SMT, <1>1, <1>2, <1>3 DEF Submit, Steady, Sent, BeforeSend
<1>4. ASSUME NEW r \in Requests,
             idempotencyMiddleware(r) \/ FastPath(r) \/ AcquireLock(r) \/ ReleaseLock(r)
      PROVE Steady
  <2>1. pc' = [pc EXCEPT ![r] = pc'[r]] /\ pc'[r] # "new" /\ UNCHANGED <<ask, fate, sends, lapses>>
    BY <1>1, <1>4 DEF idempotencyMiddleware, FastPath, AcquireLock, ReleaseLock
  <2> QED BY SMT, <1>1, <1>2, <2>1 DEF Steady, BeforeSend
<1>5. ASSUME NEW r \in Requests, Recheck(r) \/ Persist(r) \/ Crash(r) PROVE Steady
  <2>1. pc' = [pc EXCEPT ![r] = pc'[r]] /\ pc'[r] # "new" /\ UNCHANGED <<ask, fate, sends>>
    BY <1>1, <1>5 DEF Recheck, Persist, Crash
  <2>2. lapses' = lapses \/ lapses' = [lapses EXCEPT ![ask[r].key] = @ + 1]
    BY <1>5 DEF Recheck, Persist, Crash
  <2> QED BY SMT, <1>1, <1>2, <2>1, <2>2 DEF Steady, BeforeSend
<1>6. ASSUME NEW r \in Requests, Execute(r) PROVE Steady
  <2>1. PICK f : fate' = [fate EXCEPT ![r] = f]
    BY <1>6 DEF Execute
  <2>2. pc[r] = "execute" /\ pc' = [pc EXCEPT ![r] = "persist"] /\ UNCHANGED ask
    BY <1>6 DEF Execute
  <2>3. /\ sends' = sends \/ sends' = [sends EXCEPT ![ask[r].key] = @ + 1]
        /\ lapses' = lapses \/ lapses' = [lapses EXCEPT ![ask[r].key] = @ + 1]
    BY <1>6 DEF Execute
  <2> QED BY SMT, <1>1, <1>2, <2>1, <2>2, <2>3 DEF Steady, BeforeSend
<1>7. ASSUME NEW k \in Keys, LockRunsOut(k) \/ EntryRunsOut(k) PROVE Steady
  <2>1. UNCHANGED <<pc, ask, fate, sends>>
    BY <1>7 DEF LockRunsOut, EntryRunsOut
  <2>2. lapses' = lapses \/ lapses' = [lapses EXCEPT ![k] = @ + 1]
    BY <1>7 DEF LockRunsOut, EntryRunsOut
  <2> QED BY SMT, <1>1, <1>2, <2>1, <2>2 DEF Steady, BeforeSend
<1>8. CASE UNCHANGED vars
  BY SMT, <1>1, <1>2, <1>8 DEF Steady, vars, BeforeSend
<1> QED BY <1>3, <1>4, <1>5, <1>6, <1>7, <1>8 DEF Next, Handle, Rest

\* A step without sends keeps OneSender: requests, sends and lapses stay.
LEMMA SendersStay ==
    ASSUME OneSender, Steady, UNCHANGED <<ask, fate, sends>>
    PROVE  OneSender'
<1> SUFFICES ASSUME NEW r \in Requests, NEW s \in Requests, Keyed(r), ask[s].key = ask[r].key,
                    Sent(r), Sent(s)
             PROVE  sends'[ask[r].key] > 0 /\ (r = s \/ lapses'[ask[r].key] > 0)
  BY DEF OneSender, Keyed, Sent
<1> DEFINE k == ask[r].key
<1>1. sends[k] > 0 /\ (r = s \/ lapses[k] > 0)
  BY DEF OneSender
<1>2. lapses[k] \in Nat /\ lapses'[k] \in Nat /\ lapses'[k] >= lapses[k]
  BY DEF Steady, Keyed
<1> QED BY SMT, <1>1, <1>2

\* A step that makes no send and stores nothing in the cache keeps AnswerInv, if
\* what it returns or answers is backed.
LEMMA RelayStep ==
    ASSUME SendInv, AnswerInv, Steady, NEW r \in Requests, pc[r] # "new",
           NEW label, label # "new", pc' = [pc EXCEPT ![r] = label],
           pc[r] \in BeforeSend \/ label \notin BeforeSend,
           UNCHANGED <<ask, fate, sends, cache>>,
           NEW told, told \in Told => Backed(r, told),
           reply' = reply \/ reply' = [reply EXCEPT ![r] = told],
           result' = result \/ result' = [result EXCEPT ![r] = told]
    PROVE  AnswerInv'
<1>a. AnswerIsTrue /\ FreshInv /\ ResultIsTrue /\ MemoryIsTrue /\ OneSender
  BY DEF AnswerInv
<1>t. /\ pc'[r] = label /\ \A s \in Requests \ {r} : pc'[s] = pc[s]
      /\ \A s \in Requests : reply'[s] = reply[s] \/ (s = r /\ reply'[s] = told)
      /\ \A s \in Requests : result'[s] = result[s] \/ (s = r /\ result'[s] = told)
  BY DEF SendInv, TypeOK
<1>1. \A s \in Requests, status \in Told : Backed(s, status) => Backed(s, status)'
  BY DEF Backed, Keyed, Same
<1>2. AnswerIsTrue'
  BY <1>t, <1>1, <1>a DEF AnswerIsTrue
<1>3. ResultIsTrue'
  BY <1>t, <1>1, <1>a DEF ResultIsTrue
<1>4. FreshInv'
  BY <1>t, <1>a DEF FreshInv
<1>5. MemoryIsTrue'
  BY <1>a DEF MemoryIsTrue
<1>6. OneSender'
  BY <1>a, SendersStay
<1> QED BY <1>2, <1>3, <1>4, <1>5, <1>6 DEF AnswerInv

\* What resolveCached replays is true of the request it is replayed to.
LEMMA ReplayIsTrue ==
    ASSUME TypeOK, AnswerInv, NEW r \in Requests, Keyed(r),
           resolveCached(r, cache[ask[r].key]) \in Told
    PROVE  Backed(r, resolveCached(r, cache[ask[r].key]))
<1> DEFINE entry == cache[ask[r].key]
<1>1. entry.payment = ask[r].payment /\ resolveCached(r, entry) = entry.result
  BY DEF resolveCached, Told
<1>2. PICK s \in Requests : /\ ask[s].key = ask[r].key /\ ask[s].payment = entry.payment
                           /\ Claims(entry.result, fate[s])
  BY SMT, <1>1 DEF AnswerInv, MemoryIsTrue, Keyed
<1> QED BY <1>1, <1>2 DEF Backed, Same

\* Submit: what is asked for is new, and nobody has sent anything for it.
LEMMA SubmitKeeps ==
    ASSUME SendInv, TypeOK', AnswerInv, Steady, NEW r \in Requests, Submit(r)
    PROVE  AnswerInv'
<1>a. AnswerIsTrue /\ FreshInv /\ ResultIsTrue /\ MemoryIsTrue /\ OneSender
  BY DEF AnswerInv
<1>1. /\ pc[r] = "new" /\ \A s \in Requests \ {r} : pc'[s] = pc[s] /\ ask'[s] = ask[s]
      /\ UNCHANGED <<reply, result, fate, cache, sends, lapses>>
      /\ pc'[r] \in {"header", "wrapper"}
  BY SMT DEF Submit, GoTo, SendInv, TypeOK
<1>2. reply[r] = "none" /\ result[r] = "none" /\ fate[r] = "none"
  BY <1>1, <1>a DEF FreshInv, BeforeSend
<1>3. \A s \in Requests, status \in Told : s # r /\ Backed(s, status) => Backed(s, status)'
  <2>1. \A status \in Told : ~Claims(status, "none")
    BY SMT DEF Claims, Told
  <2> QED BY SMT, <1>1, <1>2, <2>1 DEF Backed, Keyed, Same, Claims
<1>4. AnswerIsTrue' /\ ResultIsTrue'
  BY <1>1, <1>2, <1>3, <1>a DEF AnswerIsTrue, ResultIsTrue, Told
<1>5. FreshInv'
  BY <1>1, <1>2, <1>a DEF FreshInv
<1>6. MemoryIsTrue'
  <2>1. \A status \in Told : ~Claims(status, "none")
    BY SMT DEF Claims, Told
  <2> QED BY SMT, <1>1, <1>2, <2>1, <1>a DEF MemoryIsTrue, Claims
<1>7. OneSender'
  BY <1>1, <1>2, <1>a DEF OneSender, Keyed, Sent
<1> QED BY <1>4, <1>5, <1>6, <1>7 DEF AnswerInv

\* The middleware, the cache reads, the lock and its release, and a crash.
LEMMA RelaysKeep ==
    ASSUME SendInv, TypeOK', AnswerInv, Steady, NEW r \in Requests,
           \/ idempotencyMiddleware(r) \/ FastPath(r) \/ AcquireLock(r) \/ Recheck(r)
           \/ ReleaseLock(r) \/ Crash(r)
    PROVE  AnswerInv'
<1>1. TypeOK /\ PlaceInv /\ ResultIsTrue
  BY DEF SendInv, AnswerInv
\* It moves on, and answers or returns something that is not a status, or that is backed.
<1>r. ASSUME UNCHANGED <<ask, fate, sends, cache>>, pc[r] # "new",
             NEW told, told \in Told => Backed(r, told),
             \E label : /\ GoTo(r, label) /\ label # "new"
                        /\ pc[r] \in BeforeSend \/ label \notin BeforeSend,
             reply' = reply \/ reply' = [reply EXCEPT ![r] = told],
             result' = result \/ result' = [result EXCEPT ![r] = told]
      PROVE  AnswerInv'
  BY <1>r, RelayStep DEF GoTo
<1>e. \A e \in {"http_400", "invalid_key", "busy"} : e \notin Told
  BY DEF Told
<1>p. /\ {"wrapper", "execute", "lock", "recheck", "release", "done", "dead"} \cap {"new"} = {}
      /\ {"header", "wrapper", "lock", "recheck"} \subseteq BeforeSend
      /\ {"done", "dead"} \cap BeforeSend = {}
  BY DEF BeforeSend
<1>2. CASE idempotencyMiddleware(r)
  BY <1>2, <1>e, <1>p, <1>r DEF idempotencyMiddleware, Answer
<1>3. CASE FastPath(r)
  <2>1. Keyed(r) /\ resolveCached(r, cache[ask[r].key]) \in Told =>
            Backed(r, resolveCached(r, cache[ask[r].key]))
    BY <1>1, ReplayIsTrue
  <2> QED BY <1>3, <2>1, <1>e, <1>p, <1>r DEF FastPath, Answer
<1>4. CASE AcquireLock(r)
  BY <1>4, <1>e, <1>p, <1>r DEF AcquireLock, Answer
<1>5. CASE Recheck(r)
  <2>1. resolveCached(r, cache[ask[r].key]) \in Told => Backed(r, resolveCached(r, cache[ask[r].key]))
    BY <1>1, <1>5, ReplayIsTrue DEF Recheck, PlaceInv
  <2> QED BY <1>5, <2>1, <1>p, <1>r DEF Recheck
<1>6. CASE ReleaseLock(r)
  <2>1. result[r] \in Told => Backed(r, result[r])
    BY <1>1 DEF ResultIsTrue
  <2> QED BY <1>6, <2>1, <1>e, <1>p, <1>r DEF ReleaseLock, Answer
<1>7. CASE Crash(r)
  <2>1. pc[r] # "new"
    BY <1>7 DEF Crash, Running
  <2> QED BY <1>7, <2>1, <1>e, <1>p, <1>r DEF Crash
<1> QED BY <1>2, <1>3, <1>4, <1>5, <1>6, <1>7

\* Execute: the result is true of the request's own send, which is the first
\* under its key unless there was a lapse.
LEMMA ExecuteKeeps ==
    ASSUME SendInv, TypeOK', AnswerInv, Steady, NEW r \in Requests, Execute(r)
    PROVE  AnswerInv'
<1>a. AnswerIsTrue /\ FreshInv /\ ResultIsTrue /\ MemoryIsTrue /\ OneSender
  BY DEF AnswerInv
<1>1. PICK o \in Outcomes(r) \cup LostAnswers :
        /\ result' = [result EXCEPT ![r] = o[1]]
        /\ fate' = [fate EXCEPT ![r] = o[2]]
        /\ IF Keyed(r) /\ o[2] # "none"
           THEN /\ sends' = [sends EXCEPT ![ask[r].key] = @ + 1]
                /\ Lapse(ask[r].key, o \in LostAnswers \/ ~Holds(r))
           ELSE UNCHANGED <<sends, lapses>>
  BY DEF Execute
<1>2. /\ TypeOK /\ pc[r] = "execute" /\ pc' = [pc EXCEPT ![r] = "persist"]
      /\ UNCHANGED <<ask, reply, lock, cache>>
  BY DEF Execute, GoTo, SendInv
<1>t. /\ pc'[r] = "persist" /\ fate'[r] = o[2] /\ result'[r] = o[1]
      /\ \A s \in Requests \ {r} :
             pc'[s] = pc[s] /\ fate'[s] = fate[s] /\ result'[s] = result[s]
  <2>1. DOMAIN pc = Requests /\ DOMAIN fate = Requests /\ DOMAIN result = Requests
    BY <1>2 DEF TypeOK
  <2>2. pc'[r] = "persist" /\ \A s \in Requests \ {r} : pc'[s] = pc[s]
    BY <2>1, <1>2
  <2>3. fate'[r] = o[2] /\ \A s \in Requests \ {r} : fate'[s] = fate[s]
    BY <2>1, <1>1
  <2>4. result'[r] = o[1] /\ \A s \in Requests \ {r} : result'[s] = result[s]
    BY <2>1, <1>1
  <2> QED BY <2>2, <2>3, <2>4
<1>3. fate[r] = "none" /\ \A status \in Told : ~Claims(status, "none")
  BY <1>2, <1>a DEF FreshInv, BeforeSend, Claims, Told
<1>4. \A s \in Requests, status \in Told : Backed(s, status) => Backed(s, status)'
  BY ZenonT(60), <1>2, <1>3, <1>t DEF Backed, Keyed, Same, Claims
<1>5. AnswerIsTrue'
  BY <1>2, <1>4, <1>a DEF AnswerIsTrue
<1>6. ResultIsTrue'
  <2>1. o[1] \in Told => Claims(o[1], fate'[r])
    BY <1>t, OutcomesAreTrue
  <2>2. o[1] \in Told => Backed(r, o[1])'
    BY <2>1 DEF Backed
  <2> QED BY ZenonT(60), <1>4, <1>t, <2>2, <1>a DEF ResultIsTrue
<1>7. FreshInv'
  BY SMT, <1>2, <1>t, <1>a DEF FreshInv, BeforeSend
<1>8. MemoryIsTrue'
  BY SMT, <1>2, <1>3, <1>t, <1>a DEF MemoryIsTrue, Claims
<1>9. OneSender'
  <2> SUFFICES ASSUME NEW s \in Requests, NEW t \in Requests, Keyed(s), ask[t].key = ask[s].key,
                      Sent(s)', Sent(t)'
               PROVE  sends'[ask[s].key] > 0 /\ (s = t \/ lapses'[ask[s].key] > 0)
    BY <1>2 DEF OneSender, Keyed
  <2> DEFINE k == ask[s].key
  <2>k. /\ k \in Keys /\ sends[k] \in Nat /\ sends'[k] \in Nat /\ sends'[k] >= sends[k]
        /\ lapses[k] \in Nat /\ lapses'[k] \in Nat /\ lapses'[k] >= lapses[k]
    BY DEF Steady, Keyed
  <2>1. CASE s # r /\ t # r
    <3>1. sends[k] > 0 /\ (s = t \/ lapses[k] > 0)
      BY <2>1, <1>t, <1>a DEF OneSender, Sent
    <3> QED BY SMT, <3>1, <2>k
  <2>2. CASE s = r \/ t = r
    <3>1. ask[r].key = k /\ Keyed(r) /\ o[2] # "none"
      BY <2>2, <1>t DEF Keyed, Sent
    <3>2. sends'[k] = sends[k] + 1
      <4>1. sends' = [sends EXCEPT ![k] = @ + 1]
        BY <3>1, <1>1
      <4>2. k \in DOMAIN sends
        BY <2>k, <1>2 DEF TypeOK
      <4> QED BY <4>1, <4>2
    <3>3. CASE Holds(r) /\ s # t
      <4>1. lock[k] = r /\ r # NoOne
        BY <3>1, <3>3, NoOneAssumption DEF Holds
      <4>2. sends[k] <= lapses[k]
        BY <4>1, <2>k, <1>2 DEF SendInv, HolderInv
      <4>3. PICK q \in {s, t} : q # r /\ Sent(q)
        BY <2>2, <3>3, <1>t DEF Sent
      <4>4. sends[k] > 0
        BY <4>3, <3>1, <1>a DEF OneSender, Keyed
      <4> QED BY SMT, <4>2, <4>4, <3>2, <2>k
    <3>4. CASE ~Holds(r)
      <4>1. lapses' = [lapses EXCEPT ![k] = @ + 1]
        BY <3>1, <3>4, <1>1 DEF Lapse
      <4>2. k \in DOMAIN lapses
        BY <2>k, <1>2 DEF TypeOK
      <4>3. lapses'[k] = lapses[k] + 1
        BY <4>1, <4>2
      <4> QED BY SMT, <4>3, <3>2, <2>k
    <3>5. sends'[k] > 0
      BY SMT, <3>2, <2>k
    <3> QED BY <3>3, <3>4, <3>5
  <2> QED BY <2>1, <2>2
<1> QED BY <1>5, <1>6, <1>7, <1>8, <1>9 DEF AnswerInv

\* Persist: what is cached is what the request was told, under its key and for
\* its payment.
LEMMA PersistKeeps ==
    ASSUME SendInv, TypeOK', AnswerInv, Steady, NEW r \in Requests, Persist(r)
    PROVE  AnswerInv'
<1>a. AnswerIsTrue /\ FreshInv /\ ResultIsTrue /\ MemoryIsTrue /\ OneSender
  BY DEF AnswerInv
<1>1. TypeOK /\ pc[r] = "persist" /\ UNCHANGED <<ask, result, fate, sends>>
  BY DEF Persist, SendInv
<1>p. /\ pc'[r] \in {"done", "release"}
      /\ \A s \in Requests \ {r} : pc'[s] = pc[s]
  BY <1>1 DEF Persist, GoTo, Answer, TypeOK
<1>2. \A s \in Requests, status \in Told : Backed(s, status) => Backed(s, status)'
  BY <1>1 DEF Backed, Keyed, Same
<1>3. \A s \in Requests : reply'[s] = reply[s] \/ reply'[s] = result[s]
  <2>1. DOMAIN reply = Requests
    BY <1>1 DEF TypeOK
  <2>2. reply' = reply \/ reply' = [reply EXCEPT ![r] = result[r]]
    BY DEF Persist, Answer
  <2> QED BY <2>1, <2>2
<1>4. AnswerIsTrue' /\ ResultIsTrue'
  BY <1>1, <1>2, <1>3, <1>a DEF AnswerIsTrue, ResultIsTrue
<1>5. FreshInv'
  <2>1. reply'[r] = reply[r] \/ pc'[r] # "new"
    BY <1>p
  <2>2. \A s \in Requests \ {r} : reply'[s] = reply[s]
    BY <1>1 DEF Persist, Answer, TypeOK
  <2> QED BY <1>1, <1>p, <2>2, <1>a DEF FreshInv, BeforeSend
<1>6. MemoryIsTrue'
  <2>1. CASE cache' = cache
    BY <2>1, <1>1, <1>a DEF MemoryIsTrue
  <2>2. CASE /\ Keyed(r)
             /\ cache' = [cache EXCEPT ![ask[r].key] =
                             [payment |-> ask[r].payment, result |-> result[r]]]
    <3>1. ASSUME result[r] \in Told
          PROVE  \E s \in Requests : Same(r, s) /\ Claims(result[r], fate[s])
      BY <3>1, <1>a DEF ResultIsTrue, Backed, Same
    <3>2. /\ ask[r].key \in Keys
          /\ cache'[ask[r].key] = [payment |-> ask[r].payment, result |-> result[r]]
          /\ \A k \in Keys \ {ask[r].key} : cache'[k] = cache[k]
      BY <2>2, <1>1 DEF TypeOK, Keyed
    <3>3. cache'[ask[r].key].payment = ask[r].payment /\ cache'[ask[r].key].result = result[r]
      BY SMT, <3>2
    <3> QED BY SMT, <3>1, <3>2, <3>3, <1>1, <1>a DEF MemoryIsTrue, Same
  <2> QED BY <2>1, <2>2 DEF Persist
<1>7. OneSender'
  BY <1>1, <1>a, SendersStay
<1> QED BY <1>4, <1>5, <1>6, <1>7 DEF AnswerInv

\* A lock or a cached outcome that runs out, and a step of nobody.
LEMMA OthersKeep ==
    ASSUME SendInv, TypeOK', AnswerInv, Steady,
           (\E k \in Keys : LockRunsOut(k) \/ EntryRunsOut(k)) \/ UNCHANGED vars
    PROVE  AnswerInv'
<1>a. AnswerIsTrue /\ FreshInv /\ ResultIsTrue /\ MemoryIsTrue /\ OneSender
  BY DEF AnswerInv
<1>1. TypeOK /\ UNCHANGED <<pc, ask, reply, result, fate, sends>>
  BY DEF LockRunsOut, EntryRunsOut, vars, SendInv
<1>2. \A k \in Keys : cache'[k] = cache[k] \/ cache'[k] = NoEntry
  <2>1. cache' = cache \/ \E k \in Keys : cache' = [cache EXCEPT ![k] = NoEntry]
    BY DEF LockRunsOut, EntryRunsOut, vars
  <2> QED BY <2>1, <1>1 DEF TypeOK
<1>3. AnswerIsTrue' /\ ResultIsTrue' /\ FreshInv'
  BY <1>1, <1>a DEF AnswerIsTrue, ResultIsTrue, FreshInv, Backed, Keyed, Same
<1>4. MemoryIsTrue'
  <2>1. NoEntry.result \notin Told
    BY DEF NoEntry, Told
  <2> QED BY SMT, <1>1, <1>2, <2>1, <1>a DEF MemoryIsTrue
<1>5. OneSender'
  BY <1>1, <1>a, SendersStay
<1> QED BY <1>3, <1>4, <1>5 DEF AnswerInv

\* AnswerInv holds: what withPaymentIdempotency returns, caches and replays is
\* true of a send of the same payment under the same key.
THEOREM AnswerInvHolds == Spec => []AnswerInv
<1>1. Init => AnswerInv
  BY SMT DEF Init, AnswerInv, AnswerIsTrue, FreshInv, ResultIsTrue, MemoryIsTrue, OneSender,
         Sent, Told, NoEntry
<1>2. SendInv /\ SendInv' /\ AnswerInv /\ [Next]_vars => AnswerInv'
  <2> SUFFICES ASSUME SendInv, SendInv', AnswerInv, [Next]_vars PROVE AnswerInv'
    OBVIOUS
  <2>1. TypeOK' /\ Steady
    BY NextSteady DEF SendInv
  <2> QED
    BY <2>1, SubmitKeeps, RelaysKeep, ExecuteKeeps, PersistKeeps, OthersKeep
    DEF Next, Handle, Rest
<1> QED BY <1>1, <1>2, SendInvHolds, PTL DEF Spec

\* A status that a send mutation answers is what happened to that payment.
THEOREM AnswersAreTrue == Spec => []AnswerIsTrue
BY AnswerInvHolds, PTL DEF AnswerInv

\* After a "failure" nothing is ever paid under the key, unless there was a lapse.
THEOREM FailuresAreFinal == Spec => []FailureIsFinal
<1>1. AnswerInv => FailureIsFinal
  <2> SUFFICES ASSUME AnswerInv, NEW r \in Requests, NEW s \in Requests,
                      reply[r] = "failure", Keyed(r), Same(r, s), lapses[ask[r].key] = 0,
                      Sent(s)
               PROVE  fate[s] = "failed"
    BY DEF FailureIsFinal, Sent
  <2>1. PICK q \in Requests : ask[q].key = ask[r].key /\ fate[q] = "failed"
    BY DEF AnswerInv, AnswerIsTrue, Backed, Claims, Told, Same
  <2>2. q = s
    BY SMT, <2>1 DEF AnswerInv, OneSender, Keyed, Same, Sent
  <2> QED BY <2>1, <2>2
<1> QED BY <1>1, AnswerInvHolds, PTL

=============================================================================
