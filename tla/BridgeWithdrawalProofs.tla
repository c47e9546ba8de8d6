------------------------ MODULE BridgeWithdrawalProofs ------------------------
(***************************************************************************)
(* The safety of withdrawals for any number of records, mutations,         *)
(* deliveries and faults. WithdrawalInv is inductive; SentOnce,            *)
(* CancelledIsNotSent, DeletedIsUnfunded and CompletedIsPaid follow from   *)
(* it, and so does OutcomeStays, step by step.                             *)
(***************************************************************************)
EXTENDS BridgeWithdrawal, TLAPS

\* Every step preserves the types.
LEMMA TypeStep ==
    ASSUME WithdrawalInv, [Next]_vars
    PROVE  TypeOK'
<1> USE DEF WithdrawalInv, TypeOK, Statuses, Stages, Events, Outcomes, Go, Return, Step, Answer, Settled, Dealt, Fault, NoFault, UnderWay, Unsubmitted, Awaiting, recordVars, callVars, ibexVars, bridgeVars, hookVars, jobVars
<1>1. ASSUME NEW c \in Calls, requestWithdrawal(c) PROVE TypeOK'
  BY <1>1, BoundsAssumption DEF requestWithdrawal
<1>2. ASSUME NEW c \in Calls, findPendingWithdrawalWithoutTransfer(c) PROVE TypeOK'
  BY <1>2, BoundsAssumption DEF findPendingWithdrawalWithoutTransfer
<1>3. ASSUME NEW c \in Calls, createWithdrawal(c) PROVE TypeOK'
  BY <1>3, BoundsAssumption DEF createWithdrawal
<1>4. ASSUME NEW c \in Calls, RecheckBalance(c) PROVE TypeOK'
  BY <1>4, BoundsAssumption DEF RecheckBalance
<1>5. ASSUME NEW c \in Calls, createTransfer(c) PROVE TypeOK'
  BY <1>5, BoundsAssumption DEF createTransfer
<1>6. ASSUME NEW c \in Calls, updateWithdrawalTransferId(c) PROVE TypeOK'
  BY <1>6, BoundsAssumption DEF updateWithdrawalTransferId
<1>7. ASSUME NEW c \in Calls, sendCrypto(c) PROVE TypeOK'
  BY <1>7, BoundsAssumption DEF sendCrypto
<1>8. ASSUME NEW c \in Calls, markWithdrawalSendFailed(c) PROVE TypeOK'
  BY <1>8, BoundsAssumption DEF markWithdrawalSendFailed
<1>9. ASSUME NEW c \in Calls, updateWithdrawalOnchainSend(c) PROVE TypeOK'
  BY <1>9, BoundsAssumption DEF updateWithdrawalOnchainSend
<1>10. ASSUME NEW c \in Calls, writeBridgeCashoutPending(c) PROVE TypeOK'
  BY <1>10, BoundsAssumption DEF writeBridgeCashoutPending
<1>11. ASSUME NEW c \in Calls, cancelWithdrawal(c) PROVE TypeOK'
  BY <1>11, BoundsAssumption DEF cancelWithdrawal
<1>12. ASSUME NEW c \in Calls, Crash(c) PROVE TypeOK'
  BY <1>12, BoundsAssumption DEF Crash
<1>13. ASSUME NEW c \in Calls, NEW w \in Withdrawals, initiateWithdrawal(c, w) PROVE TypeOK'
  BY <1>13, BoundsAssumption DEF initiateWithdrawal
<1>14. ASSUME NEW c \in Calls, NEW w \in Withdrawals, cancelWithdrawalRequest(c, w) PROVE TypeOK'
  BY <1>14, BoundsAssumption DEF cancelWithdrawalRequest
<1>15. ASSUME NEW w \in Withdrawals, BridgeSettles(w) PROVE TypeOK'
  BY <1>15, BoundsAssumption DEF BridgeSettles
<1>16. ASSUME NEW h \in Hooks, NEW e \in Events, transferHandler(h, e) PROVE TypeOK'
  BY <1>16, BoundsAssumption DEF transferHandler
<1>17. ASSUME NEW h \in Hooks, updateWithdrawalStatus(h) PROVE TypeOK'
  BY <1>17, BoundsAssumption DEF updateWithdrawalStatus
<1>18. ASSUME NEW h \in Hooks, FindExisting(h) PROVE TypeOK'
  BY <1>18, BoundsAssumption DEF FindExisting
<1>19. ASSUME NEW h \in Hooks, writeBridgeCashout(h) PROVE TypeOK'
  BY <1>19, BoundsAssumption DEF writeBridgeCashout
<1>20. ASSUME NEW h \in Hooks, HookCrash(h) PROVE TypeOK'
  BY <1>20, BoundsAssumption DEF HookCrash
<1>21. ASSUME reconcileBridgeAndIbexWithdrawals PROVE TypeOK'
  BY <1>21, BoundsAssumption DEF reconcileBridgeAndIbexWithdrawals
<1>22. ASSUME NEW w \in Withdrawals, deleteTransfer(w) PROVE TypeOK'
  BY <1>22, BoundsAssumption DEF deleteTransfer
<1>23. ASSUME NEW w \in Withdrawals, getTransfer(w) PROVE TypeOK'
  BY <1>23, BoundsAssumption DEF getTransfer
<1>24. ASSUME NEW w \in Withdrawals, FinaliseCompleted(w) PROVE TypeOK'
  BY <1>24, BoundsAssumption DEF FinaliseCompleted
<1>25. ASSUME PassFails PROVE TypeOK'
  BY <1>25, BoundsAssumption DEF PassFails
<1>26. ASSUME UNCHANGED vars PROVE TypeOK'
  BY <1>26, BoundsAssumption DEF vars, recordVars, callVars, ibexVars, bridgeVars, hookVars, jobVars
<1> QED
  BY <1>1, <1>2, <1>3, <1>4, <1>5, <1>6, <1>7, <1>8, <1>9, <1>10, <1>11, <1>12, <1>13, <1>14, <1>15, <1>16, <1>17, <1>18, <1>19, <1>20, <1>21, <1>22, <1>23, <1>24, <1>25, <1>26
     DEF Next, CallStep, HookStep, JobStep

\* Only updateWithdrawalTransferId submits a record, and no write takes that back.
LEMMA SubmittedStep ==
    ASSUME WithdrawalInv, [Next]_vars
    PROVE  SubmittedInv'
<1> USE DEF WithdrawalInv, TypeOK, SubmittedInv, Statuses, Outcomes, Events
<1>1. CASE UNCHANGED <<status, transferId>>
  BY <1>1
<1>2. ASSUME NEW c \in Calls, createWithdrawal(c) PROVE SubmittedInv'
  BY <1>2 DEF createWithdrawal, Go, Return, Step, Answer, Settled, Dealt, UnderWay,
         Unsubmitted, Awaiting, recordVars, callVars, ibexVars, bridgeVars, hookVars,
         jobVars
<1>3. ASSUME NEW c \in Calls, updateWithdrawalTransferId(c) PROVE SubmittedInv'
  BY <1>3 DEF updateWithdrawalTransferId, Go, Return, Step, Answer, Settled, Dealt,
         UnderWay, Unsubmitted, Awaiting, recordVars, callVars, ibexVars, bridgeVars,
         hookVars, jobVars
<1>4. ASSUME NEW c \in Calls, markWithdrawalSendFailed(c) PROVE SubmittedInv'
  BY <1>4 DEF markWithdrawalSendFailed, Go, Return, Step, Answer, Settled, Dealt,
         UnderWay, Unsubmitted, Awaiting, recordVars, callVars, ibexVars, bridgeVars,
         hookVars, jobVars
<1>5. ASSUME NEW c \in Calls, updateWithdrawalOnchainSend(c) PROVE SubmittedInv'
  BY <1>5 DEF updateWithdrawalOnchainSend, Go, Return, Step, Answer, Settled, Dealt,
         UnderWay, Unsubmitted, Awaiting, recordVars, callVars, ibexVars, bridgeVars,
         hookVars, jobVars
<1>6. ASSUME NEW c \in Calls, cancelWithdrawal(c) PROVE SubmittedInv'
  BY <1>6 DEF cancelWithdrawal, Go, Return, Step, Answer, Settled, Dealt, UnderWay,
         Unsubmitted, Awaiting, recordVars, callVars, ibexVars, bridgeVars, hookVars,
         jobVars
<1>7. ASSUME NEW h \in Hooks, updateWithdrawalStatus(h) PROVE SubmittedInv'
  BY <1>7 DEF updateWithdrawalStatus, Go, Return, Step, Answer, Settled, Dealt,
         UnderWay, Unsubmitted, Awaiting, recordVars, callVars, ibexVars, bridgeVars,
         hookVars, jobVars
<1>8. ASSUME NEW w \in Withdrawals, FinaliseCompleted(w) PROVE SubmittedInv'
  BY <1>8 DEF FinaliseCompleted, Go, Return, Step, Answer, Settled, Dealt, UnderWay,
         Unsubmitted, Awaiting, recordVars, callVars, ibexVars, bridgeVars, hookVars,
         jobVars
<1> QED
  BY <1>1, <1>2, <1>3, <1>4, <1>5, <1>6, <1>7, <1>8 DEF Next, CallStep, HookStep,
         JobStep, vars, requestWithdrawal, findPendingWithdrawalWithoutTransfer,
         RecheckBalance, createTransfer, sendCrypto, writeBridgeCashoutPending, Crash,
         initiateWithdrawal, cancelWithdrawalRequest, BridgeSettles, transferHandler,
         FindExisting, writeBridgeCashout, HookCrash, reconcileBridgeAndIbexWithdrawals,
         deleteTransfer, getTransfer, PassFails, Go, Return, Step, Answer, Settled,
         Dealt, UnderWay, Unsubmitted, Awaiting, recordVars, callVars, ibexVars,
         bridgeVars, hookVars, jobVars

\* No step of another mutation, of the webhook or of the job makes what a mutation
\* knows of its send untrue.
LEMMA CallStepKnows ==
    ASSUME WithdrawalInv, [Next]_vars
    PROVE  CallInv'
<1> USE DEF WithdrawalInv, TypeOK, CallInv, Sending, SubmittedInv, OwnInv, SendInv, Stages, Events, Outcomes
<1>1. CASE UNCHANGED <<status, transferId, at, on, sends, lost>>
  BY <1>1
<1>2. ASSUME NEW c \in Calls, requestWithdrawal(c) PROVE CallInv'
  BY <1>2 DEF requestWithdrawal, Go, Return, Step, Answer, Settled, Dealt, UnderWay,
         Unsubmitted, Awaiting, recordVars, callVars, ibexVars, bridgeVars, hookVars,
         jobVars
<1>3. ASSUME NEW c \in Calls, findPendingWithdrawalWithoutTransfer(c) PROVE CallInv'
  BY <1>3 DEF findPendingWithdrawalWithoutTransfer, Go, Return, Step, Answer, Settled,
         Dealt, UnderWay, Unsubmitted, Awaiting, recordVars, callVars, ibexVars,
         bridgeVars, hookVars, jobVars
<1>4. ASSUME NEW c \in Calls, createWithdrawal(c) PROVE CallInv'
  BY <1>4 DEF createWithdrawal, Go, Return, Step, Answer, Settled, Dealt, UnderWay,
         Unsubmitted, Awaiting, recordVars, callVars, ibexVars, bridgeVars, hookVars,
         jobVars
<1>5. ASSUME NEW c \in Calls, RecheckBalance(c) PROVE CallInv'
  BY <1>5 DEF RecheckBalance, Go, Return, Step, Answer, Settled, Dealt, UnderWay,
         Unsubmitted, Awaiting, recordVars, callVars, ibexVars, bridgeVars, hookVars,
         jobVars
<1>6. ASSUME NEW c \in Calls, createTransfer(c) PROVE CallInv'
  BY <1>6 DEF createTransfer, Go, Return, Step, Answer, Settled, Dealt, UnderWay,
         Unsubmitted, Awaiting, recordVars, callVars, ibexVars, bridgeVars, hookVars,
         jobVars
<1>7. ASSUME NEW c \in Calls, updateWithdrawalTransferId(c) PROVE CallInv'
  BY <1>7 DEF updateWithdrawalTransferId, Go, Return, Step, Answer, Settled, Dealt,
         UnderWay, Unsubmitted, Awaiting, recordVars, callVars, ibexVars, bridgeVars,
         hookVars, jobVars
<1>8. ASSUME NEW c \in Calls, sendCrypto(c) PROVE CallInv'
  BY <1>8 DEF sendCrypto, Go, Return, Step, Answer, Settled, Dealt, UnderWay,
         Unsubmitted, Awaiting, recordVars, callVars, ibexVars, bridgeVars, hookVars,
         jobVars
<1>9. ASSUME NEW c \in Calls, markWithdrawalSendFailed(c) PROVE CallInv'
  BY <1>9 DEF markWithdrawalSendFailed, Go, Return, Step, Answer, Settled, Dealt,
         UnderWay, Unsubmitted, Awaiting, recordVars, callVars, ibexVars, bridgeVars,
         hookVars, jobVars
<1>10. ASSUME NEW c \in Calls, updateWithdrawalOnchainSend(c) PROVE CallInv'
  BY <1>10 DEF updateWithdrawalOnchainSend, Go, Return, Step, Answer, Settled, Dealt,
         UnderWay, Unsubmitted, Awaiting, recordVars, callVars, ibexVars, bridgeVars,
         hookVars, jobVars
<1>11. ASSUME NEW c \in Calls, writeBridgeCashoutPending(c) PROVE CallInv'
  BY <1>11 DEF writeBridgeCashoutPending, Go, Return, Step, Answer, Settled, Dealt,
         UnderWay, Unsubmitted, Awaiting, recordVars, callVars, ibexVars, bridgeVars,
         hookVars, jobVars
<1>12. ASSUME NEW c \in Calls, cancelWithdrawal(c) PROVE CallInv'
  BY <1>12 DEF cancelWithdrawal, Go, Return, Step, Answer, Settled, Dealt, UnderWay,
         Unsubmitted, Awaiting, recordVars, callVars, ibexVars, bridgeVars, hookVars,
         jobVars
<1>13. ASSUME NEW c \in Calls, Crash(c) PROVE CallInv'
  BY <1>13 DEF Crash, Go, Return, Step, Answer, Settled, Dealt, UnderWay, Unsubmitted,
         Awaiting, recordVars, callVars, ibexVars, bridgeVars, hookVars, jobVars
<1>14. ASSUME NEW c \in Calls, NEW w \in Withdrawals, initiateWithdrawal(c, w) PROVE CallInv'
  BY <1>14 DEF initiateWithdrawal, Go, Return, Step, Answer, Settled, Dealt, UnderWay,
         Unsubmitted, Awaiting, recordVars, callVars, ibexVars, bridgeVars, hookVars,
         jobVars
<1>15. ASSUME NEW c \in Calls, NEW w \in Withdrawals, cancelWithdrawalRequest(c, w) PROVE CallInv'
  BY <1>15 DEF cancelWithdrawalRequest, Go, Return, Step, Answer, Settled, Dealt,
         UnderWay, Unsubmitted, Awaiting, recordVars, callVars, ibexVars, bridgeVars,
         hookVars, jobVars
<1>16. ASSUME NEW h \in Hooks, updateWithdrawalStatus(h) PROVE CallInv'
  BY <1>16 DEF updateWithdrawalStatus, Go, Return, Step, Answer, Settled, Dealt,
         UnderWay, Unsubmitted, Awaiting, recordVars, callVars, ibexVars, bridgeVars,
         hookVars, jobVars
<1>17. ASSUME NEW w \in Withdrawals, FinaliseCompleted(w) PROVE CallInv'
  BY <1>17 DEF FinaliseCompleted, Go, Return, Step, Answer, Settled, Dealt, UnderWay,
         Unsubmitted, Awaiting, recordVars, callVars, ibexVars, bridgeVars, hookVars,
         jobVars
<1> QED
  BY <1>1, <1>2, <1>3, <1>4, <1>5, <1>6, <1>7, <1>8, <1>9, <1>10, <1>11, <1>12, <1>13,
         <1>14, <1>15, <1>16, <1>17 DEF Next, CallStep, HookStep, JobStep, vars,
         BridgeSettles, transferHandler, FindExisting, writeBridgeCashout, HookCrash,
         reconcileBridgeAndIbexWithdrawals, deleteTransfer, getTransfer, PassFails, Go,
         Return, Step, Answer, Settled, Dealt, UnderWay, Unsubmitted, Awaiting,
         recordVars, callVars, ibexVars, bridgeVars, hookVars, jobVars

\* updateWithdrawalTransferId lets one mutation through for each record.
LEMMA OwnStep ==
    ASSUME WithdrawalInv, [Next]_vars
    PROVE  OwnInv'
<1> USE DEF WithdrawalInv, TypeOK, OwnInv, Sending, SubmittedInv, CallInv, Stages
<1>1. CASE UNCHANGED <<at, on>>
  BY <1>1
<1>2. ASSUME NEW c \in Calls, requestWithdrawal(c) PROVE OwnInv'
  BY <1>2 DEF requestWithdrawal, Go, Return, Step, Answer, Settled, Dealt, UnderWay,
         Unsubmitted, Awaiting, recordVars, callVars, ibexVars, bridgeVars, hookVars,
         jobVars
<1>3. ASSUME NEW c \in Calls, findPendingWithdrawalWithoutTransfer(c) PROVE OwnInv'
  BY <1>3 DEF findPendingWithdrawalWithoutTransfer, Go, Return, Step, Answer, Settled,
         Dealt, UnderWay, Unsubmitted, Awaiting, recordVars, callVars, ibexVars,
         bridgeVars, hookVars, jobVars
<1>4. ASSUME NEW c \in Calls, createWithdrawal(c) PROVE OwnInv'
  BY <1>4 DEF createWithdrawal, Go, Return, Step, Answer, Settled, Dealt, UnderWay,
         Unsubmitted, Awaiting, recordVars, callVars, ibexVars, bridgeVars, hookVars,
         jobVars
<1>5. ASSUME NEW c \in Calls, RecheckBalance(c) PROVE OwnInv'
  BY <1>5 DEF RecheckBalance, Go, Return, Step, Answer, Settled, Dealt, UnderWay,
         Unsubmitted, Awaiting, recordVars, callVars, ibexVars, bridgeVars, hookVars,
         jobVars
<1>6. ASSUME NEW c \in Calls, createTransfer(c) PROVE OwnInv'
  BY <1>6 DEF createTransfer, Go, Return, Step, Answer, Settled, Dealt, UnderWay,
         Unsubmitted, Awaiting, recordVars, callVars, ibexVars, bridgeVars, hookVars,
         jobVars
<1>7. ASSUME NEW c \in Calls, updateWithdrawalTransferId(c) PROVE OwnInv'
  BY <1>7 DEF updateWithdrawalTransferId, Go, Return, Step, Answer, Settled, Dealt,
         UnderWay, Unsubmitted, Awaiting, recordVars, callVars, ibexVars, bridgeVars,
         hookVars, jobVars
<1>8. ASSUME NEW c \in Calls, sendCrypto(c) PROVE OwnInv'
  BY <1>8 DEF sendCrypto, Go, Return, Step, Answer, Settled, Dealt, UnderWay,
         Unsubmitted, Awaiting, recordVars, callVars, ibexVars, bridgeVars, hookVars,
         jobVars
<1>9. ASSUME NEW c \in Calls, markWithdrawalSendFailed(c) PROVE OwnInv'
  BY <1>9 DEF markWithdrawalSendFailed, Go, Return, Step, Answer, Settled, Dealt,
         UnderWay, Unsubmitted, Awaiting, recordVars, callVars, ibexVars, bridgeVars,
         hookVars, jobVars
<1>10. ASSUME NEW c \in Calls, updateWithdrawalOnchainSend(c) PROVE OwnInv'
  BY <1>10 DEF updateWithdrawalOnchainSend, Go, Return, Step, Answer, Settled, Dealt,
         UnderWay, Unsubmitted, Awaiting, recordVars, callVars, ibexVars, bridgeVars,
         hookVars, jobVars
<1>11. ASSUME NEW c \in Calls, writeBridgeCashoutPending(c) PROVE OwnInv'
  BY <1>11 DEF writeBridgeCashoutPending, Go, Return, Step, Answer, Settled, Dealt,
         UnderWay, Unsubmitted, Awaiting, recordVars, callVars, ibexVars, bridgeVars,
         hookVars, jobVars
<1>12. ASSUME NEW c \in Calls, cancelWithdrawal(c) PROVE OwnInv'
  BY <1>12 DEF cancelWithdrawal, Go, Return, Step, Answer, Settled, Dealt, UnderWay,
         Unsubmitted, Awaiting, recordVars, callVars, ibexVars, bridgeVars, hookVars,
         jobVars
<1>13. ASSUME NEW c \in Calls, Crash(c) PROVE OwnInv'
  BY <1>13 DEF Crash, Go, Return, Step, Answer, Settled, Dealt, UnderWay, Unsubmitted,
         Awaiting, recordVars, callVars, ibexVars, bridgeVars, hookVars, jobVars
<1>14. ASSUME NEW c \in Calls, NEW w \in Withdrawals, initiateWithdrawal(c, w) PROVE OwnInv'
  BY <1>14 DEF initiateWithdrawal, Go, Return, Step, Answer, Settled, Dealt, UnderWay,
         Unsubmitted, Awaiting, recordVars, callVars, ibexVars, bridgeVars, hookVars,
         jobVars
<1>15. ASSUME NEW c \in Calls, NEW w \in Withdrawals, cancelWithdrawalRequest(c, w) PROVE OwnInv'
  BY <1>15 DEF cancelWithdrawalRequest, Go, Return, Step, Answer, Settled, Dealt,
         UnderWay, Unsubmitted, Awaiting, recordVars, callVars, ibexVars, bridgeVars,
         hookVars, jobVars
<1> QED
  BY <1>1, <1>2, <1>3, <1>4, <1>5, <1>6, <1>7, <1>8, <1>9, <1>10, <1>11, <1>12, <1>13,
         <1>14, <1>15 DEF Next, CallStep, HookStep, JobStep, vars, BridgeSettles,
         transferHandler, updateWithdrawalStatus, FindExisting, writeBridgeCashout,
         HookCrash, reconcileBridgeAndIbexWithdrawals, deleteTransfer, getTransfer,
         FinaliseCompleted, PassFails, Go, Return, Step, Answer, Settled, Dealt,
         UnderWay, Unsubmitted, Awaiting, recordVars, callVars, ibexVars, bridgeVars,
         hookVars, jobVars

\* A record is sent while it is submitted, by the mutation that owns it, and a failed
\* one is never sent again.
LEMMA SendStep ==
    ASSUME WithdrawalInv, [Next]_vars
    PROVE  SendInv'
<1> USE DEF WithdrawalInv, TypeOK, SendInv, Sending, SubmittedInv, CallInv, Statuses, Outcomes, Events
<1>1. CASE UNCHANGED <<status, transferId, sends, lost, transfer, scan>>
  BY <1>1
<1>2. ASSUME NEW c \in Calls, createWithdrawal(c) PROVE SendInv'
  BY <1>2 DEF createWithdrawal, Go, Return, Step, Answer, Settled, Dealt, UnderWay,
         Unsubmitted, Awaiting, recordVars, callVars, ibexVars, bridgeVars, hookVars,
         jobVars
<1>3. ASSUME NEW c \in Calls, createTransfer(c) PROVE SendInv'
  BY <1>3 DEF createTransfer, Go, Return, Step, Answer, Settled, Dealt, UnderWay,
         Unsubmitted, Awaiting, recordVars, callVars, ibexVars, bridgeVars, hookVars,
         jobVars
<1>4. ASSUME NEW c \in Calls, updateWithdrawalTransferId(c) PROVE SendInv'
  BY <1>4 DEF updateWithdrawalTransferId, Go, Return, Step, Answer, Settled, Dealt,
         UnderWay, Unsubmitted, Awaiting, recordVars, callVars, ibexVars, bridgeVars,
         hookVars, jobVars
<1>5. ASSUME NEW c \in Calls, sendCrypto(c) PROVE SendInv'
  BY <1>5 DEF sendCrypto, Go, Return, Step, Answer, Settled, Dealt, UnderWay,
         Unsubmitted, Awaiting, recordVars, callVars, ibexVars, bridgeVars, hookVars,
         jobVars
<1>6. ASSUME NEW c \in Calls, markWithdrawalSendFailed(c) PROVE SendInv'
  BY <1>6 DEF markWithdrawalSendFailed, Go, Return, Step, Answer, Settled, Dealt,
         UnderWay, Unsubmitted, Awaiting, recordVars, callVars, ibexVars, bridgeVars,
         hookVars, jobVars
<1>7. ASSUME NEW c \in Calls, updateWithdrawalOnchainSend(c) PROVE SendInv'
  BY <1>7 DEF updateWithdrawalOnchainSend, Go, Return, Step, Answer, Settled, Dealt,
         UnderWay, Unsubmitted, Awaiting, recordVars, callVars, ibexVars, bridgeVars,
         hookVars, jobVars
<1>8. ASSUME NEW c \in Calls, cancelWithdrawal(c) PROVE SendInv'
  BY <1>8 DEF cancelWithdrawal, Go, Return, Step, Answer, Settled, Dealt, UnderWay,
         Unsubmitted, Awaiting, recordVars, callVars, ibexVars, bridgeVars, hookVars,
         jobVars
<1>9. ASSUME NEW w \in Withdrawals, BridgeSettles(w) PROVE SendInv'
  BY <1>9 DEF BridgeSettles, Go, Return, Step, Answer, Settled, Dealt, UnderWay,
         Unsubmitted, Awaiting, recordVars, callVars, ibexVars, bridgeVars, hookVars,
         jobVars
<1>10. ASSUME NEW h \in Hooks, updateWithdrawalStatus(h) PROVE SendInv'
  BY <1>10 DEF updateWithdrawalStatus, Go, Return, Step, Answer, Settled, Dealt,
         UnderWay, Unsubmitted, Awaiting, recordVars, callVars, ibexVars, bridgeVars,
         hookVars, jobVars
<1>11. ASSUME reconcileBridgeAndIbexWithdrawals PROVE SendInv'
  BY <1>11 DEF reconcileBridgeAndIbexWithdrawals, Go, Return, Step, Answer, Settled,
         Dealt, UnderWay, Unsubmitted, Awaiting, recordVars, callVars, ibexVars,
         bridgeVars, hookVars, jobVars
<1>12. ASSUME NEW w \in Withdrawals, deleteTransfer(w) PROVE SendInv'
  BY <1>12 DEF deleteTransfer, Go, Return, Step, Answer, Settled, Dealt, UnderWay,
         Unsubmitted, Awaiting, recordVars, callVars, ibexVars, bridgeVars, hookVars,
         jobVars
<1>13. ASSUME NEW w \in Withdrawals, getTransfer(w) PROVE SendInv'
  BY <1>13 DEF getTransfer, Go, Return, Step, Answer, Settled, Dealt, UnderWay,
         Unsubmitted, Awaiting, recordVars, callVars, ibexVars, bridgeVars, hookVars,
         jobVars
<1>14. ASSUME NEW w \in Withdrawals, FinaliseCompleted(w) PROVE SendInv'
  BY <1>14 DEF FinaliseCompleted, Go, Return, Step, Answer, Settled, Dealt, UnderWay,
         Unsubmitted, Awaiting, recordVars, callVars, ibexVars, bridgeVars, hookVars,
         jobVars
<1>15. ASSUME PassFails PROVE SendInv'
  BY <1>15 DEF PassFails, Go, Return, Step, Answer, Settled, Dealt, UnderWay,
         Unsubmitted, Awaiting, recordVars, callVars, ibexVars, bridgeVars, hookVars,
         jobVars
<1> QED
  BY <1>1, <1>2, <1>3, <1>4, <1>5, <1>6, <1>7, <1>8, <1>9, <1>10, <1>11, <1>12, <1>13,
         <1>14, <1>15 DEF Next, CallStep, HookStep, JobStep, vars, requestWithdrawal,
         findPendingWithdrawalWithoutTransfer, RecheckBalance,
         writeBridgeCashoutPending, Crash, initiateWithdrawal, cancelWithdrawalRequest,
         transferHandler, FindExisting, writeBridgeCashout, HookCrash, Go, Return, Step,
         Answer, Settled, Dealt, UnderWay, Unsubmitted, Awaiting, recordVars, callVars,
         ibexVars, bridgeVars, hookVars, jobVars

\* What Bridge reported stays reported, and only it makes a record completed.
LEMMA ClaimStep ==
    ASSUME WithdrawalInv, [Next]_vars
    PROVE  ClaimInv'
<1> USE DEF WithdrawalInv, TypeOK, ClaimInv, SubmittedInv, CallInv, SendInv, Sending, Statuses, Outcomes, Events
<1>1. CASE UNCHANGED <<status, sends, transfer, paid, events, hookOn, scan>>
  BY <1>1
<1>2. ASSUME NEW c \in Calls, createWithdrawal(c) PROVE ClaimInv'
  BY <1>2 DEF createWithdrawal, Go, Return, Step, Answer, Settled, Dealt, UnderWay,
         Unsubmitted, Awaiting, recordVars, callVars, ibexVars, bridgeVars, hookVars,
         jobVars
<1>3. ASSUME NEW c \in Calls, createTransfer(c) PROVE ClaimInv'
  BY <1>3 DEF createTransfer, Go, Return, Step, Answer, Settled, Dealt, UnderWay,
         Unsubmitted, Awaiting, recordVars, callVars, ibexVars, bridgeVars, hookVars,
         jobVars
<1>4. ASSUME NEW c \in Calls, updateWithdrawalTransferId(c) PROVE ClaimInv'
  BY <1>4 DEF updateWithdrawalTransferId, Go, Return, Step, Answer, Settled, Dealt,
         UnderWay, Unsubmitted, Awaiting, recordVars, callVars, ibexVars, bridgeVars,
         hookVars, jobVars
<1>5. ASSUME NEW c \in Calls, sendCrypto(c) PROVE ClaimInv'
  BY <1>5 DEF sendCrypto, Go, Return, Step, Answer, Settled, Dealt, UnderWay,
         Unsubmitted, Awaiting, recordVars, callVars, ibexVars, bridgeVars, hookVars,
         jobVars
<1>6. ASSUME NEW c \in Calls, markWithdrawalSendFailed(c) PROVE ClaimInv'
  BY <1>6 DEF markWithdrawalSendFailed, Go, Return, Step, Answer, Settled, Dealt,
         UnderWay, Unsubmitted, Awaiting, recordVars, callVars, ibexVars, bridgeVars,
         hookVars, jobVars
<1>7. ASSUME NEW c \in Calls, updateWithdrawalOnchainSend(c) PROVE ClaimInv'
  BY <1>7 DEF updateWithdrawalOnchainSend, Go, Return, Step, Answer, Settled, Dealt,
         UnderWay, Unsubmitted, Awaiting, recordVars, callVars, ibexVars, bridgeVars,
         hookVars, jobVars
<1>8. ASSUME NEW c \in Calls, cancelWithdrawal(c) PROVE ClaimInv'
  BY <1>8 DEF cancelWithdrawal, Go, Return, Step, Answer, Settled, Dealt, UnderWay,
         Unsubmitted, Awaiting, recordVars, callVars, ibexVars, bridgeVars, hookVars,
         jobVars
<1>9. ASSUME NEW w \in Withdrawals, BridgeSettles(w) PROVE ClaimInv'
  BY <1>9 DEF BridgeSettles, Go, Return, Step, Answer, Settled, Dealt, UnderWay,
         Unsubmitted, Awaiting, recordVars, callVars, ibexVars, bridgeVars, hookVars,
         jobVars
<1>10. ASSUME NEW h \in Hooks, NEW e \in Events, transferHandler(h, e) PROVE ClaimInv'
  BY <1>10 DEF transferHandler, Go, Return, Step, Answer, Settled, Dealt, UnderWay,
         Unsubmitted, Awaiting, recordVars, callVars, ibexVars, bridgeVars, hookVars,
         jobVars
<1>11. ASSUME NEW h \in Hooks, updateWithdrawalStatus(h) PROVE ClaimInv'
  BY <1>11 DEF updateWithdrawalStatus, Go, Return, Step, Answer, Settled, Dealt,
         UnderWay, Unsubmitted, Awaiting, recordVars, callVars, ibexVars, bridgeVars,
         hookVars, jobVars
<1>12. ASSUME NEW h \in Hooks, FindExisting(h) PROVE ClaimInv'
  BY <1>12, NoOneAssumption DEF FindExisting, Go, Return, Step, Answer, Settled, Dealt, UnderWay,
         Unsubmitted, Awaiting, recordVars, callVars, ibexVars, bridgeVars, hookVars,
         jobVars
<1>13. ASSUME NEW h \in Hooks, writeBridgeCashout(h) PROVE ClaimInv'
  BY <1>13, NoOneAssumption DEF writeBridgeCashout, Go, Return, Step, Answer, Settled, Dealt, UnderWay,
         Unsubmitted, Awaiting, recordVars, callVars, ibexVars, bridgeVars, hookVars,
         jobVars
<1>14. ASSUME NEW h \in Hooks, HookCrash(h) PROVE ClaimInv'
  BY <1>14, NoOneAssumption DEF HookCrash, Go, Return, Step, Answer, Settled, Dealt, UnderWay,
         Unsubmitted, Awaiting, recordVars, callVars, ibexVars, bridgeVars, hookVars,
         jobVars
<1>15. ASSUME reconcileBridgeAndIbexWithdrawals PROVE ClaimInv'
  BY <1>15 DEF reconcileBridgeAndIbexWithdrawals, Go, Return, Step, Answer, Settled,
         Dealt, UnderWay, Unsubmitted, Awaiting, recordVars, callVars, ibexVars,
         bridgeVars, hookVars, jobVars
<1>16. ASSUME NEW w \in Withdrawals, deleteTransfer(w) PROVE ClaimInv'
  BY <1>16 DEF deleteTransfer, Go, Return, Step, Answer, Settled, Dealt, UnderWay,
         Unsubmitted, Awaiting, recordVars, callVars, ibexVars, bridgeVars, hookVars,
         jobVars
<1>17. ASSUME NEW w \in Withdrawals, getTransfer(w) PROVE ClaimInv'
  BY <1>17 DEF getTransfer, Go, Return, Step, Answer, Settled, Dealt, UnderWay,
         Unsubmitted, Awaiting, recordVars, callVars, ibexVars, bridgeVars, hookVars,
         jobVars
<1>18. ASSUME NEW w \in Withdrawals, FinaliseCompleted(w) PROVE ClaimInv'
  BY <1>18 DEF FinaliseCompleted, Go, Return, Step, Answer, Settled, Dealt, UnderWay,
         Unsubmitted, Awaiting, recordVars, callVars, ibexVars, bridgeVars, hookVars,
         jobVars
<1>19. ASSUME PassFails PROVE ClaimInv'
  BY <1>19 DEF PassFails, Go, Return, Step, Answer, Settled, Dealt, UnderWay,
         Unsubmitted, Awaiting, recordVars, callVars, ibexVars, bridgeVars, hookVars,
         jobVars
<1> QED
  BY <1>1, <1>2, <1>3, <1>4, <1>5, <1>6, <1>7, <1>8, <1>9, <1>10, <1>11, <1>12, <1>13,
         <1>14, <1>15, <1>16, <1>17, <1>18, <1>19 DEF Next, CallStep, HookStep, JobStep,
         vars, requestWithdrawal, findPendingWithdrawalWithoutTransfer, RecheckBalance,
         writeBridgeCashoutPending, Crash, initiateWithdrawal, cancelWithdrawalRequest,
         Go, Return, Step, Answer, Settled, Dealt, UnderWay, Unsubmitted, Awaiting,
         recordVars, callVars, ibexVars, bridgeVars, hookVars, jobVars

\* Initially there are no records and no sends.
LEMMA InitInv == Init => WithdrawalInv
BY BoundsAssumption, NoOneAssumption
   DEF Init, WithdrawalInv, TypeOK, SubmittedInv, CallInv, OwnInv, SendInv, ClaimInv, Sending,
       Statuses, Stages, Outcomes, Events

\* However many mutations, deliveries and passes of the reconciliation overlap, fail
\* or crash, a mutation past updateWithdrawalTransferId owns its record, knows what
\* became of the send, and whatever says that Bridge paid is right.
THEOREM WithdrawalInvHolds == Spec => []WithdrawalInv
<1>1. WithdrawalInv /\ [Next]_vars => WithdrawalInv'
  BY TypeStep, SubmittedStep, CallStepKnows, OwnStep, SendStep, ClaimStep DEF WithdrawalInv
<1> QED
  BY InitInv, <1>1, PTL DEF Spec

\* initiateWithdrawal sends the USDT of a withdrawal at most once, for any number of
\* calls and faults.
THEOREM WithdrawalSentOnce == Spec => []SentOnce
<1>1. WithdrawalInv => SentOnce
  BY DEF WithdrawalInv, SendInv, SentOnce
<1> QED
  BY WithdrawalInvHolds, <1>1, PTL

\* A withdrawal that cancelWithdrawalRequest cancelled is never sent.
THEOREM CancelledWithdrawalIsNotSent == Spec => []CancelledIsNotSent
<1>1. WithdrawalInv => CancelledIsNotSent
  BY DEF WithdrawalInv, SendInv, SubmittedInv, CancelledIsNotSent
<1> QED
  BY WithdrawalInvHolds, <1>1, PTL

\* reconcileBridgeAndIbexWithdrawals never deletes a transfer that a send IBEX
\* confirmed is to fund.
THEOREM DeletedTransferIsUnfunded == Spec => []DeletedIsUnfunded
<1>1. WithdrawalInv => DeletedIsUnfunded
  BY DEF WithdrawalInv, SendInv, DeletedIsUnfunded
<1> QED
  BY WithdrawalInvHolds, <1>1, PTL

\* A withdrawal is completed, by the webhook or by the reconciliation, only when
\* Bridge paid it out of the one send.
THEOREM CompletedWithdrawalIsPaid == Spec => []CompletedIsPaid
<1>1. WithdrawalInv => CompletedIsPaid
  BY DEF WithdrawalInv, ClaimInv, CompletedIsPaid
<1> QED
  BY WithdrawalInvHolds, <1>1, PTL

\* No step of any actor changes the status of a completed or failed withdrawal.
LEMMA OutcomeStep ==
    ASSUME WithdrawalInv, [Next]_vars
    PROVE  \A w \in Withdrawals : status[w] \in Outcomes => status'[w] = status[w]
<1> DEFINE Stays == \A w \in Withdrawals : status[w] \in Outcomes => status'[w] = status[w]
<1> USE DEF WithdrawalInv, TypeOK, SubmittedInv, CallInv, Statuses, Outcomes, Events, Sending
<1>1. CASE UNCHANGED <<status>>
  BY <1>1
<1>2. ASSUME NEW c \in Calls, createWithdrawal(c) PROVE Stays
  BY <1>2 DEF createWithdrawal, Go, Return, Step, Answer, Settled, Dealt, UnderWay,
         Unsubmitted, Awaiting, recordVars, callVars, ibexVars, bridgeVars, hookVars,
         jobVars
<1>3. ASSUME NEW c \in Calls, updateWithdrawalTransferId(c) PROVE Stays
  BY <1>3 DEF updateWithdrawalTransferId, Go, Return, Step, Answer, Settled, Dealt,
         UnderWay, Unsubmitted, Awaiting, recordVars, callVars, ibexVars, bridgeVars,
         hookVars, jobVars
<1>4. ASSUME NEW c \in Calls, markWithdrawalSendFailed(c) PROVE Stays
  BY <1>4 DEF markWithdrawalSendFailed, Go, Return, Step, Answer, Settled, Dealt,
         UnderWay, Unsubmitted, Awaiting, recordVars, callVars, ibexVars, bridgeVars,
         hookVars, jobVars
<1>5. ASSUME NEW c \in Calls, updateWithdrawalOnchainSend(c) PROVE Stays
  BY <1>5 DEF updateWithdrawalOnchainSend, Go, Return, Step, Answer, Settled, Dealt,
         UnderWay, Unsubmitted, Awaiting, recordVars, callVars, ibexVars, bridgeVars,
         hookVars, jobVars
<1>6. ASSUME NEW c \in Calls, cancelWithdrawal(c) PROVE Stays
  BY <1>6 DEF cancelWithdrawal, Go, Return, Step, Answer, Settled, Dealt, UnderWay,
         Unsubmitted, Awaiting, recordVars, callVars, ibexVars, bridgeVars, hookVars,
         jobVars
<1>7. ASSUME NEW h \in Hooks, updateWithdrawalStatus(h) PROVE Stays
  BY <1>7 DEF updateWithdrawalStatus, Go, Return, Step, Answer, Settled, Dealt,
         UnderWay, Unsubmitted, Awaiting, recordVars, callVars, ibexVars, bridgeVars,
         hookVars, jobVars
<1>8. ASSUME NEW w \in Withdrawals, FinaliseCompleted(w) PROVE Stays
  BY <1>8 DEF FinaliseCompleted, Go, Return, Step, Answer, Settled, Dealt, UnderWay,
         Unsubmitted, Awaiting, recordVars, callVars, ibexVars, bridgeVars, hookVars,
         jobVars
<1> QED
  BY <1>1, <1>2, <1>3, <1>4, <1>5, <1>6, <1>7, <1>8 DEF Next, CallStep, HookStep,
         JobStep, vars, requestWithdrawal, findPendingWithdrawalWithoutTransfer,
         RecheckBalance, createTransfer, sendCrypto, writeBridgeCashoutPending, Crash,
         initiateWithdrawal, cancelWithdrawalRequest, BridgeSettles, transferHandler,
         FindExisting, writeBridgeCashout, HookCrash, reconcileBridgeAndIbexWithdrawals,
         deleteTransfer, getTransfer, PassFails, Go, Return, Step, Answer, Settled,
         Dealt, UnderWay, Unsubmitted, Awaiting, recordVars, callVars, ibexVars,
         bridgeVars, hookVars, jobVars

\* A completed or failed withdrawal stays so: neither a late or repeated webhook, nor
\* a pass of the reconciliation that read the record before, changes its outcome.
THEOREM WithdrawalOutcomeStays == Spec => OutcomeStays
<1>1. WithdrawalInv /\ [Next]_vars =>
        [\A w \in Withdrawals : status[w] \in Outcomes => status'[w] = status[w]]_vars
  BY OutcomeStep
<1> QED
  BY WithdrawalInvHolds, <1>1, PTL DEF Spec, OutcomeStays
=============================================================================
