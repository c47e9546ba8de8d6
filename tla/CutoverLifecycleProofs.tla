------------------------ MODULE CutoverLifecycleProofs ------------------------
(***************************************************************************)
(* Proofs about CutoverLifecycle, for any accounts, runs and operators.     *)
(***************************************************************************)
EXTENDS CutoverLifecycle, TLAPS

\* A leaf goes to Zenon; the leaves that need arithmetic, records or updated
\* functions name SMT.
USE Zenon

OperatorStates == [pc : Commands, run : Runs \cup {NoRun}, todo : SUBSET (Accounts \X Coarse)]

-----------------------------------------------------------------------------
\* Type correctness.

\* A command that goes on, ends, or continues elsewhere keeps the type of the
\* operators' states.
LEMMA GoesType ==
    ASSUME TypeOK, NEW o \in Operators, NEW pc \in Commands, NEW run \in Runs \cup {NoRun},
           NEW todo \in SUBSET (Accounts \X Coarse),
           Goes(o, pc, run, todo) \/ Ends(o) \/ Continues(o, pc)
    PROVE  ops' \in [Operators -> OperatorStates]
<1>1. [pc |-> pc, run |-> run, todo |-> todo] \in OperatorStates
  BY DEF OperatorStates
<1>2. IdleOperator \in OperatorStates
  BY DEF IdleOperator, OperatorStates, Commands
<1>3. CASE Goes(o, pc, run, todo)
  BY <1>1, <1>3 DEF TypeOK, Goes, OperatorStates
<1>4. CASE Ends(o)
  BY <1>2, <1>4 DEF TypeOK, Ends, OperatorStates
<1>5. CASE Continues(o, pc)
  BY SMT, <1>5 DEF TypeOK, Continues, OperatorStates
<1> QED
  BY <1>3, <1>4, <1>5

\* The commands keep the types.
LEMMA CommandType ==
    ASSUME TypeOK, StartInv, NEW o \in Operators, Command(o)
    PROVE  TypeOK'
<1> USE DEF OperatorStates
<1>0. /\ ops[o].run \in Runs \cup {NoRun}
      /\ ops[o].todo \in SUBSET (Accounts \X Coarse)
      /\ \A t \in ops[o].todo : t[1] \in Accounts
  BY SMT DEF TypeOK
<1>a. /\ {"idle", "provision", "upsert", "start_list", "start_write", "count_review",
          "list_runnable", "complete_write", "request", "list_unresolved",
          "rollback_write", "retry"} \subseteq Commands
      /\ {"none", "not_started", "failed", "pointer_flipped", "rollback_started"} \subseteq Coarse
  BY DEF Commands, Coarse
<1>b. ASSUME NEW pc \in Commands, NEW run \in Runs \cup {NoRun},
             NEW todo \in SUBSET (Accounts \X Coarse),
             Goes(o, pc, run, todo) \/ Ends(o) \/ Continues(o, pc),
             UNCHANGED <<config, status, cash, moved, usdtWallets>>
      PROVE  TypeOK'
  BY <1>b, GoesType DEF TypeOK
<1>1. CASE Provision(o)
  <2> DEFINE missing == {a \in Accounts : cash[a] # "absent"} \ usdtWallets
  <2>1. missing \X {"none"} \in SUBSET (Accounts \X Coarse)
    BY <1>a
  <2>2. Goes(o, "provision", NoRun, missing \X {"none"})
    BY <1>1 DEF Provision
  <2>3. UNCHANGED <<config, status, cash, moved, usdtWallets>>
    BY <1>1 DEF Provision
  <2> HIDE DEF missing
  <2> QED
    BY <2>1, <2>2, <2>3, <1>a, <1>b
<1>2. CASE ProvisionWallet(o)
  <2>1. PICK d \in ops[o].todo :
          /\ usdtWallets' \in {usdtWallets, usdtWallets \cup {d[1]}}
          /\ Ends(o) \/ Goes(o, "provision", NoRun, ops[o].todo \ {d})
    BY <1>2 DEF ProvisionWallet
  <2>2. ops[o].todo \ {d} \in SUBSET (Accounts \X Coarse)
    BY <1>0
  <2>3. ops' \in [Operators -> OperatorStates]
    BY <2>1, <2>2, <1>a, GoesType
  <2>4. usdtWallets' \subseteq Accounts
    BY SMT, <2>1, <1>0 DEF TypeOK
  <2> QED
    BY <2>3, <2>4, <1>2 DEF TypeOK, ProvisionWallet
<1>3. CASE Prepare(o)
  <2>1. PICK run \in Runs, planned \in SUBSET Accounts : Goes(o, "upsert", run, planned \X {"none"})
    BY <1>3 DEF Prepare, plan
  <2>2. planned \X {"none"} \in SUBSET (Accounts \X Coarse)
    BY <1>a
  <2> QED
    BY <2>1, <2>2, <1>3, <1>a, <1>b DEF Prepare
<1>4. ASSUME NEW pc \in Commands, NEW p \in ops[o].todo, NEW new \in Coarse,
             ops[o].run \in Runs,
             \/ status' = [status EXCEPT ![ops[o].run][p[1]] = new]
             \/ status' = status,
             Ends(o) \/ Goes(o, pc, ops[o].run, ops[o].todo \ {p}),
             UNCHANGED <<config, cash, moved, usdtWallets>>
      PROVE  TypeOK'
  <2>1. ops[o].todo \ {p} \in SUBSET (Accounts \X Coarse)
    BY <1>0
  <2>2. ops' \in [Operators -> OperatorStates]
    BY <2>1, <1>0, <1>4, GoesType
  <2>3. status' \in [Runs -> [Accounts -> Coarse]]
    <3>1. p[1] \in Accounts
      BY <1>0
    <3>2. CASE status' = [status EXCEPT ![ops[o].run][p[1]] = new]
      <4> DEFINE run == ops[o].run
                 a == p[1]
      <4>1. run \in Runs /\ a \in Accounts
        BY <1>4, <3>1
      <4>2. status' = [status EXCEPT ![run][a] = new]
        BY <3>2
      <4> HIDE DEF run, a
      <4> QED
        BY <4>1, <4>2, <1>4 DEF TypeOK
    <3> QED
      BY <3>2, <1>4 DEF TypeOK
  <2> QED
    BY <2>2, <2>3, <1>4 DEF TypeOK
<1>c. ops[o].pc \notin {"idle", "provision"} => ops[o].run \in Runs
  BY DEF StartInv
<1>5. CASE Upsert(o)
  <2>1. ops[o].run \in Runs
    BY <1>5, <1>c DEF Upsert
  <2>2. PICK p \in ops[o].todo :
          /\ \/ status' = [status EXCEPT ![ops[o].run][p[1]] = "not_started"]
             \/ status' = status
          /\ Ends(o) \/ Goes(o, "upsert", ops[o].run, ops[o].todo \ {p})
    BY <1>5 DEF Upsert
  <2> QED
    BY <2>1, <2>2, <1>4, <1>5, <1>a DEF Upsert
<1>6. CASE Request(o)
  <2>1. ops[o].run \in Runs
    BY <1>6, <1>c DEF Request
  <2>2. PICK p \in ops[o].todo :
          /\ \/ status' = [status EXCEPT ![ops[o].run][p[1]] = "rollback_started"]
             \/ status' = status
          /\ Ends(o) \/ Goes(o, "request", ops[o].run, ops[o].todo \ {p})
    BY <1>6 DEF Request
  <2> QED
    BY <2>1, <2>2, <1>4, <1>6, <1>a DEF Request
<1>7. CASE Retry(o)
  <2>1. ops[o].run \in Runs
    BY <1>7, <1>c DEF Retry
  <2>2. PICK p \in ops[o].todo :
          /\ \/ status' = [status EXCEPT ![ops[o].run][p[1]] = "pointer_flipped"]
             \/ status' = status
          /\ Ends(o) \/ Goes(o, "retry", ops[o].run, ops[o].todo \ {p})
    BY <1>7 DEF Retry
  <2> QED
    BY <2>1, <2>2, <1>4, <1>7, <1>a DEF Retry
<1>8. CASE Start(o)
  <2>1. PICK run \in Runs : Goes(o, "start_list", run, {})
    BY <1>8 DEF Start
  <2> QED
    BY SMT, <2>1, <1>8, <1>a, <1>b DEF Start
<1>9. CASE Complete(o)
  <2>1. PICK run \in Runs : Goes(o, "count_review", run, {})
    BY <1>9 DEF Complete
  <2> QED
    BY SMT, <2>1, <1>9, <1>a, <1>b DEF Complete
<1>10. CASE CompleteRollback(o)
  <2>1. config.runId \in Runs \cup {NoRun}
    BY DEF TypeOK
  <2> QED
    BY SMT, <2>1, <1>10, <1>a, <1>b DEF CompleteRollback
<1>11. CASE StartList(o) \/ CountReview(o) \/ ListRunnable(o) \/ ListUnresolved(o)
  <2>1. PICK pc \in Commands : Ends(o) \/ Continues(o, pc)
    BY <1>11, <1>a DEF StartList, CountReview, ListRunnable, ListUnresolved
  <2>2. UNCHANGED <<config, status, cash, moved, usdtWallets>>
    BY <1>11 DEF StartList, CountReview, ListRunnable, ListUnresolved
  <2> QED
    BY <2>1, <2>2, <1>0, <1>b
<1>12. CASE StartWrite(o) \/ CompleteWrite(o) \/ RollbackWrite(o)
  <2>1. PICK state \in CutoverStates : updateConfig(state, ops[o].run)
    BY <1>12 DEF StartWrite, CompleteWrite, RollbackWrite, CutoverStates
  <2>2. config' \in [state : CutoverStates, runId : Runs \cup {NoRun}]
    BY <2>1, <1>0 DEF updateConfig
  <2>3. Ends(o) /\ UNCHANGED <<status, cash, moved, usdtWallets>>
    BY <1>12 DEF StartWrite, CompleteWrite, RollbackWrite
  <2>4. ops' \in [Operators -> OperatorStates]
    BY <2>3, <1>0, <1>a, GoesType
  <2> QED
    BY <2>2, <2>3, <2>4 DEF TypeOK
<1>13. CASE RequestRollback(o)
  <2>1. PICK run \in Runs, scope \in SUBSET Accounts :
          Goes(o, "request", run,
               {<<a, status[run][a]>> : a \in {b \in scope : status[run][b] \in ROLLBACKABLE_STATUSES}})
    BY <1>13 DEF RequestRollback
  <2> DEFINE todo == {<<a, status[run][a]>> :
                        a \in {b \in scope : status[run][b] \in ROLLBACKABLE_STATUSES}}
  <2>2. todo \in SUBSET (Accounts \X Coarse)
    BY SMT DEF TypeOK
  <2>3. Goes(o, "request", run, todo)
    BY <2>1
  <2> HIDE DEF todo
  <2> QED
    BY <2>2, <2>3, <1>13, <1>a, <1>b DEF RequestRollback
<1>14. CASE RetryFailed(o)
  <2>1. PICK run \in Runs, eligible \in SUBSET Accounts :
          Goes(o, "retry", run, eligible \X {"failed"})
    BY <1>14 DEF RetryFailed
  <2>2. eligible \X {"failed"} \in SUBSET (Accounts \X Coarse)
    BY <1>a
  <2> QED
    BY <2>1, <2>2, <1>14, <1>a, <1>b DEF RetryFailed
<1> QED
  BY <1>1, <1>2, <1>3, <1>5, <1>6, <1>7, <1>8, <1>9, <1>10, <1>11, <1>12, <1>13, <1>14 DEF Command

\* A worker's step, and the opening of an account, keep the types.
LEMMA WorkType ==
    ASSUME TypeOK,
           \/ \E run \in Runs, a \in Accounts : Work(run, a)
           \/ \E a \in Accounts : CreateAccount(a)
    PROVE  TypeOK'
<1>1. ASSUME NEW run \in Runs, NEW a \in Accounts, Work(run, a)
      PROVE  TypeOK'
  <2>1. PICK to \in Coarse : status' = [status EXCEPT ![run][a] = to]
    BY <1>1 DEF Work, Advance, FailForward, Rollback, Becomes, Coarse
  <2>2. status' \in [Runs -> [Accounts -> Coarse]]
    BY <2>1 DEF TypeOK
  <2>3. cash' = cash \/ \E wallet \in {"legacy", "usdt"} : CashGoesTo(a, wallet)
    BY <1>1 DEF Work, Advance, FailForward, Rollback
  <2>4. cash' \in [Accounts -> {"legacy", "usdt", "absent"}]
    BY <2>3 DEF TypeOK, CashGoesTo
  <2>5. moved' \in {moved, moved \cup {<<run, a>>}}
    BY <1>1 DEF Work, Advance, FailForward, Rollback
  <2>6. moved' \subseteq Runs \X Accounts
    BY SMT, <2>5 DEF TypeOK
  <2> QED
    BY <2>2, <2>4, <2>6, <1>1 DEF TypeOK, Work
<1>2. ASSUME NEW a \in Accounts, CreateAccount(a)
      PROVE  TypeOK'
  BY <1>2 DEF TypeOK, CreateAccount
<1> QED
  BY <1>1, <1>2

-----------------------------------------------------------------------------
\* A run that is started was prepared.

\* No step takes the last trace of a migration away: upsertMigration inserts,
\* and nothing deletes.
LEMMA MigrationsStay ==
    ASSUME TypeOK, Next, NEW r \in Runs, NEW a \in Accounts, status[r][a] # "none"
    PROVE  status'[r][a] # "none"
<1>1. CASE \E o \in Operators : Command(o)
  <2> PICK o \in Operators : Command(o)
    BY <1>1
  <2>1. \/ status' = status
        \/ \E p \in ops[o].todo, to \in {"not_started", "pointer_flipped", "rollback_started"} :
             status' = [status EXCEPT ![ops[o].run][p[1]] = to]
    BY DEF Command, Provision, ProvisionWallet, Prepare, Upsert, Start, StartList, StartWrite,
           Complete, CountReview, ListRunnable, CompleteWrite, RequestRollback, Request,
           CompleteRollback, ListUnresolved, RollbackWrite, RetryFailed, Retry
  <2>2. ASSUME NEW run, NEW b, NEW to \in {"not_started", "pointer_flipped", "rollback_started"},
               status' = [status EXCEPT ![run][b] = to]
        PROVE  status'[r][a] # "none"
    <3>1. status'[r] = IF r = run THEN [status[r] EXCEPT ![b] = to] ELSE status[r]
      BY <2>2 DEF TypeOK
    <3>2. status[r] \in [Accounts -> Coarse]
      BY DEF TypeOK
    <3> QED
      BY <3>1, <3>2
  <2> QED
    BY <2>1, <2>2
<1>2. CASE \E run \in Runs, b \in Accounts : Work(run, b)
  <2> PICK run \in Runs, b \in Accounts : Work(run, b)
    BY <1>2
  <2>1. PICK to \in Coarse \ {"none"} : status' = [status EXCEPT ![run][b] = to]
    BY DEF Work, Advance, FailForward, Rollback, Becomes, Coarse
  <2> QED
    BY <2>1 DEF TypeOK
<1>3. CASE \E b \in Accounts : CreateAccount(b)
  BY <1>3 DEF CreateAccount
<1> QED
  BY <1>1, <1>2, <1>3 DEF Next

\* A command under way names its run, and a start that is about to write has
\* seen a migration of that run.
LEMMA StartInvStep ==
    ASSUME TypeOK, StartInv, Next
    PROVE  StartInv'
<1>1. CASE ops' = ops
  BY SMT, <1>1, MigrationsStay DEF StartInv, TypeOK
<1>2. ASSUME NEW o \in Operators, Command(o)
      PROVE  StartInv'
  <2>1. \/ Ends(o)
        \/ \E pc \in Commands \ {"idle", "start_write"}, run \in Runs \cup {NoRun} : \E todo :
             Goes(o, pc, run, todo) /\ (pc # "provision" => run \in Runs)
        \/ \E pc \in Commands \ {"idle", "start_write"} :
             Continues(o, pc) /\ ops[o].run \in Runs
        \/ Continues(o, "start_write") /\ ops[o].run \in Runs /\ HasRunnable(ops[o].run)
    <3>0. ops[o].pc \notin {"idle", "provision"} => ops[o].run \in Runs
      BY DEF StartInv
    <3>1. CASE Provision(o) \/ ProvisionWallet(o)
      BY <3>1 DEF Provision, ProvisionWallet, Commands
    <3>2. CASE Prepare(o)
      BY <3>2 DEF Prepare, Commands
    <3>3. CASE Upsert(o) \/ Request(o) \/ Retry(o)
      BY <3>0, <3>3 DEF Upsert, Request, Retry, Commands
    <3>4. CASE Start(o) \/ Complete(o)
      BY <3>4 DEF Start, Complete, Commands
    <3>5. CASE CompleteRollback(o)
      BY <3>5 DEF CompleteRollback, Commands, TypeOK
    <3>6. CASE StartList(o)
      BY <3>0, <3>6 DEF StartList
    <3>7. CASE CountReview(o) \/ ListRunnable(o) \/ ListUnresolved(o)
      BY <3>0, <3>7 DEF CountReview, ListRunnable, ListUnresolved, Commands
    <3>8. CASE StartWrite(o) \/ CompleteWrite(o) \/ RollbackWrite(o)
      BY <3>8 DEF StartWrite, CompleteWrite, RollbackWrite
    <3>9. CASE RequestRollback(o)
      BY <3>9 DEF RequestRollback, Commands
    <3>10. CASE RetryFailed(o)
      BY <3>10 DEF RetryFailed, Commands
    <3> QED
      BY <1>2, <3>1, <3>2, <3>3, <3>4, <3>5, <3>6, <3>7, <3>8, <3>9, <3>10 DEF Command
  <2>2. ASSUME NEW q \in Operators, q # o
        PROVE  ops'[q] = ops[q]
    BY <2>1, <2>2 DEF Ends, Goes, Continues, TypeOK
  <2>3. ASSUME NEW q \in Operators, q # o
        PROVE  /\ ops'[q].pc \notin {"idle", "provision"} => ops'[q].run \in Runs
               /\ ops'[q].pc = "start_write" => \E a \in Accounts : status'[ops'[q].run][a] # "none"
    BY <2>2, <2>3, MigrationsStay DEF StartInv
  <2>4. /\ ops'[o].pc \notin {"idle", "provision"} => ops'[o].run \in Runs
        /\ ops'[o].pc = "start_write" => \E a \in Accounts : status'[ops'[o].run][a] # "none"
    <3>1. CASE Ends(o)
      BY <3>1 DEF Ends, IdleOperator, TypeOK
    <3>2. CASE \E pc \in Commands \ {"idle", "start_write"}, run \in Runs \cup {NoRun} : \E todo :
                 Goes(o, pc, run, todo) /\ (pc # "provision" => run \in Runs)
      BY SMT, <3>2 DEF Goes, TypeOK
    <3>3. CASE \E pc \in Commands \ {"idle", "start_write"} :
                 Continues(o, pc) /\ ops[o].run \in Runs
      BY SMT, <3>3 DEF Continues, TypeOK
    <3>4. CASE Continues(o, "start_write") /\ ops[o].run \in Runs /\ HasRunnable(ops[o].run)
      <4>1. ops'[o].pc = "start_write" /\ ops'[o].run = ops[o].run
        BY SMT, <3>4 DEF Continues, TypeOK
      <4>2. \E a \in Accounts : status[ops[o].run][a] # "none"
        BY <3>4 DEF HasRunnable
      <4> QED
        BY <4>1, <4>2, <3>4, MigrationsStay
    <3> QED
      BY <2>1, <3>1, <3>2, <3>3, <3>4
  <2> QED
    BY <2>3, <2>4 DEF StartInv
<1>3. (\E run \in Runs, a \in Accounts : Work(run, a)) \/ (\E a \in Accounts : CreateAccount(a))
        => ops' = ops
  BY DEF Work, CreateAccount
<1> QED
  BY <1>1, <1>2, <1>3 DEF Next

\* The invariant holds in every state: types, and what start relies on.
LEMMA LifecycleInvariant ==
    Spec => [](TypeOK /\ StartInv)
<1>1. Init => TypeOK /\ StartInv
  BY SMT, OldAccountsAssumption DEF Init, TypeOK, StartInv, IdleOperator, Commands, Coarse, CutoverStates
<1>2. TypeOK /\ StartInv /\ [Next]_vars => TypeOK' /\ StartInv'
  <2> SUFFICES ASSUME TypeOK, StartInv, [Next]_vars
               PROVE  TypeOK' /\ StartInv'
    OBVIOUS
  <2>1. CASE Next
    BY <2>1, CommandType, WorkType, StartInvStep DEF Next
  <2>2. CASE UNCHANGED vars
    BY SMT, <2>2 DEF vars, TypeOK, StartInv
  <2> QED
    BY <2>1, <2>2
<1> QED
  BY <1>1, <1>2, PTL DEF Spec

\* The values of the variables stay in their types, whatever the operators and
\* the workers do.
THEOREM LifecycleTypeCorrect ==
    Spec => []TypeOK
BY LifecycleInvariant, PTL

\* A cutover in progress tracks a run that has a migration: the check of
\* startPrimaryCashWalletCutover is not undone between the list and the write,
\* for any number of operators and runs.
THEOREM StartIsPrepared ==
    Spec => []StartedMeansPrepared
<1>1. Init => StartedMeansPrepared
  BY SMT DEF Init, StartedMeansPrepared
<1>2. TypeOK /\ StartInv /\ StartedMeansPrepared /\ [Next]_vars => StartedMeansPrepared'
  <2> SUFFICES ASSUME TypeOK, StartInv, StartedMeansPrepared, [Next]_vars
               PROVE  StartedMeansPrepared'
    OBVIOUS
  <2>1. CASE UNCHANGED vars
    BY <2>1 DEF vars, StartedMeansPrepared
  <2>2. CASE Next /\ config' = config
    BY <2>2, MigrationsStay DEF StartedMeansPrepared
  <2>3. ASSUME NEW o \in Operators, StartWrite(o)
        PROVE  StartedMeansPrepared'
    <3>1. /\ ops[o].run \in Runs
          /\ \E a \in Accounts : status[ops[o].run][a] # "none"
      BY <2>3 DEF StartWrite, StartInv
    <3>2. config'.runId = ops[o].run /\ status' = status
      BY <2>3 DEF StartWrite, updateConfig
    <3> QED
      BY <3>1, <3>2 DEF StartedMeansPrepared
  <2>4. ASSUME NEW o \in Operators, CompleteWrite(o) \/ RollbackWrite(o)
        PROVE  StartedMeansPrepared'
    BY SMT, <2>4 DEF CompleteWrite, RollbackWrite, updateConfig, StartedMeansPrepared
  <2>5. Next => \/ config' = config
                \/ \E o \in Operators : StartWrite(o) \/ CompleteWrite(o) \/ RollbackWrite(o)
    BY DEF Next, Work, CreateAccount,
           Command, Provision, ProvisionWallet, Prepare, Upsert, Start, StartList,
           Complete, CountReview, ListRunnable, RequestRollback, Request,
           CompleteRollback, ListUnresolved, RetryFailed, Retry
  <2> QED
    BY <2>1, <2>2, <2>3, <2>4, <2>5
<1> QED
  BY <1>1, <1>2, LifecycleInvariant, PTL DEF Spec

-----------------------------------------------------------------------------
\* Payments follow the cash.

\* A command moves no cash.  It touches the statuses that tell where the cash is
\* only by inserting a planned migration, and lists as a plan only accounts
\* whose cash is on the legacy wallet.
LEMMA CommandCash ==
    ASSUME TypeOK, StartInv, CashInv, NEW o \in Operators, Command(o)
    PROVE  CashInv'
<1>0. cash' = cash
  BY DEF Command, Provision, ProvisionWallet, Prepare, Upsert, Start, StartList, StartWrite,
         Complete, CountReview, ListRunnable, CompleteWrite, RequestRollback, Request,
         CompleteRollback, ListUnresolved, RollbackWrite, RetryFailed, Retry
<1>1. \/ status' = status
      \/ \E p \in ops[o].todo, to \in {"pointer_flipped", "rollback_started"} :
           status' = [status EXCEPT ![ops[o].run][p[1]] = to]
      \/ /\ ops[o].pc = "upsert"
         /\ \E p \in ops[o].todo :
              /\ status[ops[o].run][p[1]] = "none"
              /\ status' = [status EXCEPT ![ops[o].run][p[1]] = "not_started"]
  BY DEF Command, Provision, ProvisionWallet, Prepare, Upsert, Start, StartList, StartWrite,
         Complete, CountReview, ListRunnable, CompleteWrite, RequestRollback, Request,
         CompleteRollback, ListUnresolved, RollbackWrite, RetryFailed, Retry
<1>2. ASSUME NEW r \in Reliable, NEW a \in Accounts, OnlyRun(r, a)'
      PROVE  /\ status'[r][a] \in {"legacy_zero_verified", "complete"} => cash[a] = "usdt"
             /\ status'[r][a] \in {"not_started", "rolled_back"} => cash[a] = "legacy"
  <2>1. r \in Runs
    BY ReliableAssumption
  <2>2. ASSUME NEW run, NEW b, NEW to, status' = [status EXCEPT ![run][b] = to]
        PROVE  \A s \in Runs : status'[s][a] = IF s = run /\ a = b THEN to ELSE status[s][a]
    <3> TAKE s \in Runs
    <3>1. status'[s] = IF s = run THEN [status[s] EXCEPT ![b] = to] ELSE status[s]
      BY <2>2 DEF TypeOK
    <3>2. status[s] \in [Accounts -> Coarse]
      BY DEF TypeOK
    <3> QED
      BY <3>1, <3>2
  <2>3. CASE status' = status
    BY <1>2, <2>3 DEF CashInv, OnlyRun
  <2>6. OnlyRun(r, a)
    BY <1>2, MigrationsStay DEF OnlyRun, Next
  <2>4. CASE \E p \in ops[o].todo, to \in {"pointer_flipped", "rollback_started"} :
               status' = [status EXCEPT ![ops[o].run][p[1]] = to]
    <3> PICK p \in ops[o].todo, to \in {"pointer_flipped", "rollback_started"} :
               status' = [status EXCEPT ![ops[o].run][p[1]] = to]
      BY <2>4
    <3>1. status'[r][a] = to \/ status'[r][a] = status[r][a]
      BY SMT, <2>1, <2>2
    <3> QED
      BY <3>1, <2>6 DEF CashInv
  <2>5. ASSUME ops[o].pc = "upsert", NEW p \in ops[o].todo,
               status[ops[o].run][p[1]] = "none",
               status' = [status EXCEPT ![ops[o].run][p[1]] = "not_started"]
        PROVE  /\ status'[r][a] \in {"legacy_zero_verified", "complete"} => cash[a] = "usdt"
               /\ status'[r][a] \in {"not_started", "rolled_back"} => cash[a] = "legacy"
    <3>0. \A s \in Runs :
            status'[s][a] = IF s = ops[o].run /\ a = p[1] THEN "not_started" ELSE status[s][a]
      <4> TAKE s \in Runs
      <4>1. status'[s] = IF s = ops[o].run THEN [status[s] EXCEPT ![p[1]] = "not_started"]
                                           ELSE status[s]
        BY <2>5 DEF TypeOK
      <4>2. status[s] \in [Accounts -> Coarse]
        BY DEF TypeOK
      <4> QED
        BY <4>1, <4>2
    <3>1. CASE status'[r][a] = status[r][a]
      BY <3>1, <2>6 DEF CashInv
    <3>2. CASE a = p[1] /\ r = ops[o].run
      <4>1. ASSUME NEW s \in Runs
            PROVE  status[s][p[1]] = "none"
        <5>1. CASE s = r
          BY <5>1, <3>2, <2>5
        <5>2. CASE s # r
          BY <5>2, <3>2, <2>6 DEF OnlyRun
        <5> QED
          BY <5>1, <5>2
      <4>2. cash[a] = "legacy"
        <5>1. \A d \in ops[o].todo :
                (\A s \in Runs : status[s][d[1]] = "none") => cash[d[1]] = "legacy"
          BY <2>5 DEF CashInv
        <5>2. cash[p[1]] = "legacy"
          BY <4>1, <5>1
        <5> QED
          BY <5>2, <3>2
      <4>3. status'[r][a] = "not_started"
        BY <3>0, <3>2, <2>1
      <4> QED
        BY <4>2, <4>3
    <3> QED
      BY <3>0, <3>1, <3>2, <2>1
  <2> QED
    BY <1>1, <2>3, <2>4, <2>5
<1>3. ASSUME NEW q \in Operators, ops'[q].pc = "upsert",
             NEW p \in ops'[q].todo, \A r \in Runs : status'[r][p[1]] = "none"
      PROVE  cash[p[1]] = "legacy"
  <2>1. \/ ops[q].pc = "upsert" /\ ops'[q].run = ops[q].run /\ p \in ops[q].todo
        \/ cash[p[1]] = "legacy"
    <3>1. CASE Prepare(o)
      <4>1. PICK run \in Runs, planned \in SUBSET {a \in Accounts : cash[a] = "legacy"} :
              Goes(o, "upsert", run, planned \X {"none"})
        <5>1. ASSUME NEW found \in SUBSET Accounts
              PROVE  plan(found) \in SUBSET {a \in Accounts : cash[a] = "legacy"}
          BY DEF plan, classify
        <5>2. PICK run \in Runs, cohort \in SUBSET Accounts :
                Goes(o, "upsert", run, plan({a \in cohort : cash[a] # "absent"}) \X {"none"})
          BY <3>1 DEF Prepare
        <5> QED
          BY <5>1, <5>2
      <4> QED
        BY <4>1, <1>3 DEF Goes, TypeOK
    <3>2. CASE Upsert(o)
      <4>1. ops[o].pc = "upsert"
        BY <3>2 DEF Upsert
      <4>2. PICK d : Ends(o) \/ Goes(o, "upsert", ops[o].run, ops[o].todo \ {d})
        BY <3>2 DEF Upsert
      <4> QED
        BY SMT, <4>1, <4>2, <1>3 DEF Ends, IdleOperator, Goes, TypeOK
    <3>3. CASE ~Prepare(o) /\ ~Upsert(o)
      <4>1. \/ Ends(o)
            \/ \E pc \in Commands \ {"upsert"} : Continues(o, pc) \/ \E run, todo : Goes(o, pc, run, todo)
        BY <3>3 DEF Command, Provision, ProvisionWallet, Start, StartList, StartWrite,
             Complete, CountReview, ListRunnable, CompleteWrite, RequestRollback, Request,
             CompleteRollback, ListUnresolved, RollbackWrite, RetryFailed, Retry, Commands
      <4> QED
        BY SMT, <4>1, <1>3 DEF Ends, IdleOperator, Continues, Goes, TypeOK
    <3> QED
      BY <3>1, <3>2, <3>3
  <2>2. CASE ops[q].pc = "upsert" /\ ops'[q].run = ops[q].run /\ p \in ops[q].todo
    <3>1. ops[q].run \in Runs /\ p[1] \in Accounts
      BY <2>2 DEF StartInv, TypeOK
    <3>2. \A r \in Runs : status[r][p[1]] = "none"
      BY <3>1, <1>3, MigrationsStay DEF Next
    <3> QED
      BY <3>2, <2>2 DEF CashInv
  <2> QED
    BY <2>1, <2>2
<1> QED
  BY <1>0, <1>2, <1>3 DEF CashInv

\* A worker of the only run that tracks an account leaves a status that says
\* where it has put the cash, and touches no plan.
LEMMA WorkCash ==
    ASSUME TypeOK, StartInv, CashInv, NEW run \in Runs, NEW a \in Accounts, Work(run, a)
    PROVE  CashInv'
<1>1. /\ ops' = ops
      /\ \A b \in Accounts \ {a} : cash'[b] = cash[b]
  <2>1. cash' = cash \/ \E wallet : CashGoesTo(a, wallet)
    BY DEF Work, Advance, FailForward, Rollback
  <2> QED
    BY <2>1 DEF Work, CashGoesTo, TypeOK
<1>2. PICK to \in Coarse \ {"none"} :
        /\ status' = [status EXCEPT ![run][a] = to]
        /\ run \in Reliable /\ OnlyRun(run, a) =>
             /\ to \in {"legacy_zero_verified", "complete"} => cash'[a] = "usdt"
             /\ to \in {"not_started", "rolled_back"} => cash'[a] = "legacy"
  <2>1. CASE Advance(run, a)
    BY SMT, <2>1 DEF Advance, Becomes, CashGoesTo, CashInv, TypeOK, Coarse
  <2>2. CASE FailForward(run, a)
    BY SMT, <2>2 DEF FailForward, Becomes, Coarse
  <2>3. CASE Rollback(run, a)
    BY SMT, <2>3 DEF Rollback, Becomes, CashGoesTo, TypeOK, Coarse
  <2> QED
    BY <2>1, <2>2, <2>3 DEF Work
<1>3. /\ status'[run][a] = to
      /\ \A r \in Runs, b \in Accounts : <<r, b>> # <<run, a>> => status'[r][b] = status[r][b]
  BY <1>2 DEF TypeOK
<1>4. ASSUME NEW r \in Reliable, NEW b \in Accounts, OnlyRun(r, b)'
      PROVE  OnlyRun(r, b) /\ (b = a => r = run)
  BY <1>2, <1>3, <1>4, ReliableAssumption DEF OnlyRun
<1>5. ASSUME NEW r \in Reliable, NEW b \in Accounts, OnlyRun(r, b)'
      PROVE  /\ status'[r][b] \in {"legacy_zero_verified", "complete"} => cash'[b] = "usdt"
             /\ status'[r][b] \in {"not_started", "rolled_back"} => cash'[b] = "legacy"
  <2>1. OnlyRun(r, b) /\ (b = a => r = run)
    BY <1>4, <1>5
  <2>2. CASE b = a
    BY <2>1, <2>2, <1>2, <1>3
  <2>3. CASE b # a
    BY <2>1, <2>3, <1>1, <1>3, ReliableAssumption DEF CashInv
  <2> QED
    BY <2>2, <2>3
<1>6. ASSUME NEW o \in Operators, ops[o].pc = "upsert", NEW p \in ops[o].todo,
             \A r \in Runs : status'[r][p[1]] = "none"
      PROVE  cash'[p[1]] = "legacy"
  <2>1. p[1] \in Accounts
    BY SMT DEF TypeOK
  <2>2. p[1] # a
    BY <1>2, <1>3, <1>6
  <2>3. \A r \in Runs : status[r][p[1]] = "none"
    BY <2>1, <2>2, <1>3, <1>6
  <2> QED
    BY <2>1, <2>2, <2>3, <1>1, <1>6 DEF CashInv
<1> QED
  BY <1>1, <1>5, <1>6 DEF CashInv

\* A new account has no migration and is in no plan.
LEMMA CreateCash ==
    ASSUME TypeOK, CashInv, NEW a \in Accounts, CreateAccount(a)
    PROVE  CashInv'
<1>1. /\ cash[a] = "absent" /\ status' = status /\ ops' = ops
      /\ cash' = [cash EXCEPT ![a] = "usdt"]
  BY DEF CreateAccount
<1>2. ASSUME NEW b, cash[b] \in {"legacy", "usdt"}, b \in Accounts
      PROVE  cash'[b] = cash[b]
  BY <1>1, <1>2 DEF TypeOK
<1>3. \A o \in Operators : \A p \in ops[o].todo : p[1] \in Accounts
  BY SMT DEF TypeOK
<1> QED
  BY SMT, <1>1, <1>2, <1>3 DEF CashInv, OnlyRun

\* What the status says of the cash, and the guard's cases, give the route.
LEMMA CashGivesRoute ==
    ASSUME TypeOK, CashInv, StartedMeansPrepared
    PROVE  RouteFollowsCash
<1> SUFFICES ASSUME config.state = "in_progress", config.runId \in Reliable,
                    NEW a \in Accounts, OnlyRun(config.runId, a),
                    status[config.runId][a] \notin {"none", "legacy_zero_verified"}
             PROVE  /\ Route(a) = "usdt" => cash[a] = "usdt"
                    /\ Route(a) = "legacy_usd" => cash[a] = "legacy"
  BY DEF RouteFollowsCash
<1> DEFINE st == status[config.runId][a]
<1>1. config.runId \in Runs
  BY DEF StartedMeansPrepared
<1>2. st \in Coarse \ {"none", "legacy_zero_verified"}
  BY SMT, <1>1 DEF TypeOK
<1>3. /\ st = "complete" => cash[a] = "usdt"
      /\ st \in {"not_started", "rolled_back"} => cash[a] = "legacy"
  BY DEF CashInv
<1>4. Route(a) = "blocked" \/ Route(a) = Guard("in_progress", st)
  BY DEF Route, migrationFor
<1> HIDE DEF st
<1>5. /\ st = "complete" => Guard("in_progress", st) = "usdt"
      /\ st \in {"not_started", "rolled_back"} => Guard("in_progress", st) = "legacy_usd"
      /\ st \notin {"complete", "not_started", "rolled_back"} => Guard("in_progress", st) = "blocked"
  BY <1>2 DEF Guard, ACTIVE_STATUSES, PreMoneyStatuses, MoneyStatuses, Coarse
<1> QED
  BY <1>2, <1>3, <1>4, <1>5

\* While the cutover is in progress, evaluateCashWalletCutoverGuard routes an
\* account with a migration to the wallet that has its cash, for any number of
\* accounts, runs and operators: as long as the migrations of the run it tracks
\* do what their pipeline promises, and no other run tracks the account.
THEOREM RoutesFollowCash == Spec => []RouteFollowsCash
<1>1. Init => CashInv
  BY SMT, ReliableAssumption DEF Init, CashInv, IdleOperator
<1>2. TypeOK /\ StartInv /\ CashInv /\ [Next]_vars => CashInv'
  <2> SUFFICES ASSUME TypeOK, StartInv, CashInv, [Next]_vars
               PROVE  CashInv'
    OBVIOUS
  <2>1. CASE UNCHANGED vars
    BY <2>1 DEF vars, CashInv, OnlyRun
  <2>2. CASE Next
    BY <2>2, CommandCash, WorkCash, CreateCash DEF Next
  <2> QED
    BY <2>1, <2>2
<1>3. TypeOK /\ CashInv /\ StartedMeansPrepared => RouteFollowsCash
  BY CashGivesRoute
<1> QED
  BY <1>1, <1>2, <1>3, LifecycleInvariant, StartIsPrepared, PTL DEF Spec

=============================================================================
