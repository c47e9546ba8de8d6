-------------------------- MODULE CutoverLifecycle ---------------------------
(***************************************************************************)
(* The cutover as a whole: the config document that says whether it is      *)
(* before, in progress, complete or rolled back, and which run it tracks;   *)
(* one migration per account and run; the operators whose commands          *)
(* (prepare, start, complete, rollback-request, rollback-complete,          *)
(* retry-failed, provision-usdt-wallets) read and write these in several    *)
(* steps; the batch workers, which do not look at the config at all; and    *)
(* the route a user's operation takes.                                      *)
(*                                                                          *)
(* A migration is seen from afar here.  Each of its steps stands for a      *)
(* stretch of the pipeline that CashWalletMigration models in full.  The    *)
(* pipeline promises that a completed migration has moved the cash and the  *)
(* default wallet, that a rolled back one has returned them, and that       *)
(* rolled_back is final.  CashWalletMigration shows how each of these can   *)
(* fail; Reliable says in which runs they do not fail here.                 *)
(***************************************************************************)
EXTENDS CutoverStatus, FiniteSets

CONSTANTS
    Accounts,     \* accounts, the ones opened later included
    OldAccounts,  \* accounts that were there, on the legacy wallet, before the cutover
    Runs,         \* run ids
    NoRun,        \* config.runId is not set
    Operators,    \* concurrent invocations of the operator's commands
    Reliable      \* the runs whose migrations do what their pipeline promises

ASSUME OldAccountsAssumption == OldAccounts \subseteq Accounts
ASSUME NoRunAssumption == NoRun \notin Runs
ASSUME ReliableAssumption == Reliable \subseteq Runs

VARIABLES
    config,       \* the CashWalletCutoverConfig document
    status,       \* the status of each run's migration of each account
    cash,         \* the default cash wallet of each account, where its cash is
    moved,        \* the migrations with a recorded payment of the balance
    usdtWallets,  \* the accounts that have a USDT wallet
    ops           \* each operator's command: where it is, its run, what it has listed

vars == <<config, status, cash, moved, usdtWallets, ops>>

-----------------------------------------------------------------------------

\* The statuses told apart here: started stands for everything up to the first
\* invoice, invoice_created for the payments up to the flip.
Coarse == {"none", "not_started", "started", "invoice_created", "pointer_flipped",
           "legacy_zero_verified", "complete", "failed", "requires_operator_review", "rollback_started",
           "rolled_back"}

\* One of these stands for several statuses of the code.
Several == {"started", "invoice_created"}

Commands == {"idle", "provision", "upsert", "start_list", "start_write",
             "count_review", "list_runnable", "complete_write",
             "request", "list_unresolved", "rollback_write", "retry"}

TypeOK ==
    /\ config \in [state : CutoverStates, runId : Runs \cup {NoRun}]
    /\ status \in [Runs -> [Accounts -> Coarse]]
    /\ cash \in [Accounts -> {"legacy", "usdt", "absent"}]
    /\ moved \subseteq Runs \X Accounts
    /\ usdtWallets \subseteq Accounts
    /\ ops \in [Operators -> [pc : Commands, run : Runs \cup {NoRun},
                              todo : SUBSET (Accounts \X Coarse)]]

IdleOperator == [pc |-> "idle", run |-> NoRun, todo |-> {}]

Init ==
    /\ config = [state |-> "pre", runId |-> NoRun]
    /\ status = [r \in Runs |-> [a \in Accounts |-> "none"]]
    /\ cash = [a \in Accounts |-> IF a \in OldAccounts THEN "legacy" ELSE "absent"]
    /\ moved = {}
    /\ usdtWallets \in SUBSET OldAccounts
    /\ ops = [o \in Operators |-> IdleOperator]

-----------------------------------------------------------------------------
\* Commands.  A command that is refused, or fails, ends.

Goes(o, pc, run, todo) == ops' = [ops EXCEPT ![o] = [pc |-> pc, run |-> run, todo |-> todo]]

Ends(o) == ops' = [ops EXCEPT ![o] = IdleOperator]

Continues(o, pc) == ops' = [ops EXCEPT ![o].pc = pc]

\* updateConfig writes unconditionally.
updateConfig(state, run) == config' = [state |-> state, runId |-> run]

\* listRunnableMigrations(limit 1) finds one.
HasRunnable(run) == \E a \in Accounts : status[run][a] \notin TERMINAL_STATUSES \cup {"none"}

Count(run, s) == Cardinality({a \in Accounts : status[run][a] = s})

\* provisionPrimaryCashWalletUsdtWallets reads the config and lists the accounts
\* without a USDT wallet ...
Provision(o) ==
    /\ ops[o].pc = "idle"
    /\ config.state = "pre"
    /\ LET missing == {a \in Accounts : cash[a] # "absent"} \ usdtWallets
       IN  missing # {} /\ Goes(o, "provision", NoRun, missing \X {"none"})
    /\ UNCHANGED <<config, status, cash, moved, usdtWallets>>

\* ... and gives them one, one after the other, each of which may fail.
ProvisionWallet(o) ==
    /\ ops[o].pc = "provision"
    /\ \E d \in ops[o].todo :
         /\ usdtWallets' \in {usdtWallets, usdtWallets \cup {d[1]}}
         /\ IF ops[o].todo = {d}
            THEN Ends(o)
            ELSE Goes(o, "provision", NoRun, ops[o].todo \ {d})
    /\ UNCHANGED <<config, status, cash, moved>>

\* classifyCashWalletsForCutover.  Every account has a legacy wallet here, and
\* one of its two cash wallets is the default.
classify(a) ==
    IF a \notin usdtWallets THEN "missing_destination_usdt"
    ELSE IF cash[a] = "legacy" THEN "legacy_default" ELSE "already_usdt"

\* The preflight report: one account without a USDT wallet blocks the cohort.
canStart(found) == \A a \in found : classify(a) # "missing_destination_usdt"

\* buildPrimaryCashWalletMigrationPlan.
plan(found) == {a \in found : classify(a) = "legacy_default"}

\* preparePrimaryCashWalletCutover, of a cohort or of all accounts, up to the
\* first insertion.
Prepare(o) ==
    /\ ops[o].pc = "idle"
    /\ \E run \in Runs, cohort \in (SUBSET Accounts) \ {{}} :
         LET found == {a \in cohort : cash[a] # "absent"}
         IN  /\ canStart(found)
             /\ plan(found) # {}
             /\ Goes(o, "upsert", run, plan(found) \X {"none"})
    /\ UNCHANGED <<config, status, cash, moved, usdtWallets>>

\* Mutant: upsertMigration sets the status of a migration that exists, too.
UpsertOverwrites(o) ==
    /\ ops[o].pc = "upsert"
    /\ LET run == ops[o].run
       IN  \E p \in ops[o].todo :
             /\ status' = [status EXCEPT ![run][p[1]] = "not_started"]
             /\ IF ops[o].todo = {p}
                THEN Ends(o)
                ELSE Goes(o, "upsert", run, ops[o].todo \ {p})
    /\ UNCHANGED <<config, cash, moved, usdtWallets>>

\* upsertMigration, for one plan after the other: only inserts.
Upsert(o) ==
    /\ ops[o].pc = "upsert"
    /\ LET run == ops[o].run
       IN  \E p \in ops[o].todo :
             /\ status' = IF status[run][p[1]] = "none"
                          THEN [status EXCEPT ![run][p[1]] = "not_started"]
                          ELSE status
             /\ IF ops[o].todo = {p}
                THEN Ends(o)
                ELSE Goes(o, "upsert", run, ops[o].todo \ {p})
    /\ UNCHANGED <<config, cash, moved, usdtWallets>>

\* startPrimaryCashWalletCutover reads the config ...
Start(o) ==
    /\ ops[o].pc = "idle"
    /\ config.state \in {"pre", "rolled_back"}
    /\ \E run \in Runs : Goes(o, "start_list", run, {})
    /\ UNCHANGED <<config, status, cash, moved, usdtWallets>>

\* Mutant: no look at the migrations.
StartUnlisted(o) ==
    /\ ops[o].pc = "start_list"
    /\ Continues(o, "start_write")
    /\ UNCHANGED <<config, status, cash, moved, usdtWallets>>

\* ... then the migrations ...
StartList(o) ==
    /\ ops[o].pc = "start_list"
    /\ IF HasRunnable(ops[o].run) THEN Continues(o, "start_write") ELSE Ends(o)
    /\ UNCHANGED <<config, status, cash, moved, usdtWallets>>

\* ... and writes the config.
StartWrite(o) ==
    /\ ops[o].pc = "start_write"
    /\ updateConfig("in_progress", ops[o].run)
    /\ Ends(o)
    /\ UNCHANGED <<status, cash, moved, usdtWallets>>

\* completePrimaryCashWalletCutover counts the failed migrations ...
Complete(o) ==
    /\ ops[o].pc = "idle"
    /\ \E run \in Runs : Count(run, "failed") = 0 /\ Goes(o, "count_review", run, {})
    /\ UNCHANGED <<config, status, cash, moved, usdtWallets>>

\* ... the ones in review ...
CountReview(o) ==
    /\ ops[o].pc = "count_review"
    /\ IF Count(ops[o].run, "requires_operator_review") = 0
       THEN Continues(o, "list_runnable")
       ELSE Ends(o)
    /\ UNCHANGED <<config, status, cash, moved, usdtWallets>>

\* ... looks for one that is not finished ...
ListRunnable(o) ==
    /\ ops[o].pc = "list_runnable"
    /\ IF HasRunnable(ops[o].run) THEN Ends(o) ELSE Continues(o, "complete_write")
    /\ UNCHANGED <<config, status, cash, moved, usdtWallets>>

\* ... and writes the config, whatever it says by then.
CompleteWrite(o) ==
    /\ ops[o].pc = "complete_write"
    /\ updateConfig("complete", ops[o].run)
    /\ Ends(o)
    /\ UNCHANGED <<status, cash, moved, usdtWallets>>

\* requestPrimaryCashWalletRollback lists the candidates, one account or the
\* whole run; the ones that cannot be rolled back are skipped ...
RequestRollback(o) ==
    /\ ops[o].pc = "idle"
    /\ \E run \in Runs, scope \in {{a} : a \in Accounts} \cup {Accounts} :
         LET eligible == {a \in scope : status[run][a] \in ROLLBACKABLE_STATUSES}
         IN  eligible # {} /\ Goes(o, "request", run, {<<a, status[run][a]>> : a \in eligible})
    /\ UNCHANGED <<config, status, cash, moved, usdtWallets>>

\* ... and requests one after the other, until one has changed since.
Request(o) ==
    /\ ops[o].pc = "request"
    /\ LET run == ops[o].run
       IN  \E c \in ops[o].todo :
             \/ /\ status[run][c[1]] = c[2]
                /\ status' = [status EXCEPT ![run][c[1]] = "rollback_started"]
                /\ IF ops[o].todo = {c}
                   THEN Ends(o)
                   ELSE Goes(o, "request", run, ops[o].todo \ {c})
             \/ /\ status[run][c[1]] # c[2] \/ c[2] \in Several
                /\ Ends(o)
                /\ UNCHANGED status
    /\ UNCHANGED <<config, cash, moved, usdtWallets>>

\* completePrimaryCashWalletRollback reads the config, which must track the run ...
CompleteRollback(o) ==
    /\ ops[o].pc = "idle"
    /\ config.state # "rolled_back" /\ config.runId # NoRun
    /\ Goes(o, "list_unresolved", config.runId, {})
    /\ UNCHANGED <<config, status, cash, moved, usdtWallets>>

\* ... then looks for a migration that is not rolled back ...
ListUnresolved(o) ==
    /\ ops[o].pc = "list_unresolved"
    /\ IF \E a \in Accounts : status[ops[o].run][a] \notin {"none", "rolled_back"}
       THEN Ends(o)
       ELSE Continues(o, "rollback_write")
    /\ UNCHANGED <<config, status, cash, moved, usdtWallets>>

\* ... and writes the config.
RollbackWrite(o) ==
    /\ ops[o].pc = "rollback_write"
    /\ updateConfig("rolled_back", ops[o].run)
    /\ Ends(o)
    /\ UNCHANGED <<status, cash, moved, usdtWallets>>

\* retryFailedCashWalletMigrations lists the failed migrations without a
\* recorded payment ...
RetryFailed(o) ==
    /\ ops[o].pc = "idle"
    /\ \E run \in Runs, scope \in {{a} : a \in Accounts} \cup {Accounts} :
         LET eligible == {a \in scope : status[run][a] = "failed" /\ <<run, a>> \notin moved}
         IN  eligible # {} /\ Goes(o, "retry", run, eligible \X {"failed"})
    /\ UNCHANGED <<config, status, cash, moved, usdtWallets>>

\* ... and resumes them one after the other, skipping one that has changed: the
\* plan has set previousDefaultWalletId, so always at pointer_flipped.
Retry(o) ==
    /\ ops[o].pc = "retry"
    /\ LET run == ops[o].run
       IN  \E c \in ops[o].todo :
             /\ status' = IF status[run][c[1]] = "failed"
                          THEN [status EXCEPT ![run][c[1]] = "pointer_flipped"]
                          ELSE status
             /\ IF ops[o].todo = {c}
                THEN Ends(o)
                ELSE Goes(o, "retry", run, ops[o].todo \ {c})
    /\ UNCHANGED <<config, cash, moved, usdtWallets>>

-----------------------------------------------------------------------------
\* The workers, whichever run they are started for.

Becomes(run, a, from, to) ==
    /\ status[run][a] = from
    /\ status' = [status EXCEPT ![run][a] = to]

CashGoesTo(a, wallet) == cash' = [cash EXCEPT ![a] = wallet]

\* A step of the forward pipeline that goes well.  Nothing to move: straight to
\* the flip.  Nothing left on the legacy wallet: a retried migration of an empty
\* account passes without a flip.
Advance(run, a) ==
    \/ Becomes(run, a, "not_started", "started") /\ UNCHANGED <<cash, moved>>
    \/ /\ Becomes(run, a, "started", "invoice_created")
       /\ cash[a] = "legacy"
       /\ UNCHANGED <<cash, moved>>
    \/ /\ Becomes(run, a, "started", "pointer_flipped")
       /\ CashGoesTo(a, "usdt")
       /\ UNCHANGED moved
    \/ /\ Becomes(run, a, "invoice_created", "pointer_flipped")
       /\ CashGoesTo(a, "usdt")
       /\ moved' = moved \cup {<<run, a>>}
    \/ /\ Becomes(run, a, "pointer_flipped", "legacy_zero_verified")
       /\ run \in Reliable => cash[a] = "usdt"
       /\ UNCHANGED <<cash, moved>>
    \/ Becomes(run, a, "legacy_zero_verified", "complete") /\ UNCHANGED <<cash, moved>>

\* A step of the forward pipeline that fails: before the payments, among them
\* (the cash may have moved, and that may have been recorded), or after them.
\* The failure is marked under the lock, whatever the status: over a rollback
\* requested in between, too, and the cash may have moved unrecorded by then.
FailForward(run, a) ==
    \/ Becomes(run, a, "not_started", "failed") /\ UNCHANGED <<cash, moved>>
    \/ Becomes(run, a, "started", "failed") /\ UNCHANGED <<cash, moved>>
    \/ /\ \E to \in {"failed", "requires_operator_review"} :
             Becomes(run, a, "rollback_started", to)
       /\ CashGoesTo(a, "usdt") \/ UNCHANGED cash
       /\ UNCHANGED moved
    \/ /\ Becomes(run, a, "invoice_created", "requires_operator_review")
       /\ \/ UNCHANGED <<cash, moved>>
          \/ CashGoesTo(a, "usdt") /\ moved' \in {moved, moved \cup {<<run, a>>}}
    \/ Becomes(run, a, "pointer_flipped", "requires_operator_review") /\ UNCHANGED <<cash, moved>>
    \/ Becomes(run, a, "legacy_zero_verified", "failed") /\ UNCHANGED <<cash, moved>>

\* The rollback of one migration.  It may leave the cash where it is when the
\* payment or the flip was not recorded.  A second batch with an old list sends
\* the migration to review wherever it has come to since, rolled back included.
Rollback(run, a) ==
    /\ \/ /\ Becomes(run, a, "rollback_started", "rolled_back")
          /\ CashGoesTo(a, "legacy") \/ (run \notin Reliable /\ UNCHANGED cash)
       \/ /\ Becomes(run, a, "rollback_started", "requires_operator_review")
          /\ CashGoesTo(a, "legacy") \/ UNCHANGED cash
       \/ /\ \E from \in {"failed", "pointer_flipped", "legacy_zero_verified", "complete",
                          "rolled_back"} :
                /\ Becomes(run, a, from, "requires_operator_review")
                /\ run \in Reliable => from # "rolled_back"
          /\ UNCHANGED cash
    /\ UNCHANGED moved

\* initializeCreatedAccount: both wallets, and USDT is the default.
CreateAccount(a) ==
    /\ cash[a] = "absent"
    /\ cash' = [cash EXCEPT ![a] = "usdt"]
    /\ usdtWallets' = usdtWallets \cup {a}
    /\ UNCHANGED <<config, status, moved, ops>>

-----------------------------------------------------------------------------

Command(o) ==
    \/ Provision(o) \/ ProvisionWallet(o)
    \/ Prepare(o) \/ Upsert(o)
    \/ Start(o) \/ StartList(o) \/ StartWrite(o)
    \/ Complete(o) \/ CountReview(o) \/ ListRunnable(o) \/ CompleteWrite(o)
    \/ RequestRollback(o) \/ Request(o)
    \/ CompleteRollback(o) \/ ListUnresolved(o) \/ RollbackWrite(o)
    \/ RetryFailed(o) \/ Retry(o)

Work(run, a) ==
    /\ Advance(run, a) \/ FailForward(run, a) \/ Rollback(run, a)
    /\ UNCHANGED <<config, usdtWallets, ops>>

Next ==
    \/ \E o \in Operators : Command(o)
    \/ \E run \in Runs, a \in Accounts : Work(run, a)
    \/ \E a \in Accounts : CreateAccount(a)

Spec == Init /\ [][Next]_vars

-----------------------------------------------------------------------------
\* Routing, as resolveCashWalletPresentationForAccount and
\* resolveCashoutWalletSelection do it: the migration is looked up only while
\* the cutover is in progress, and the USDT route needs a USDT wallet.

migrationFor(a) == IF config.state = "in_progress" THEN status[config.runId][a] ELSE "none"

Route(a) ==
    LET route == Guard(config.state, migrationFor(a))
    IN  IF route = "usdt" /\ a \notin usdtWallets THEN "blocked" ELSE route

-----------------------------------------------------------------------------
\* Properties.

\* No other run tracks the account.
OnlyRun(r, a) == \A other \in Runs \ {r} : status[other][a] = "none"

\* While the cutover is in progress, an account with a migration is routed to
\* the wallet its cash is in, or blocked: whatever the operators' commands and
\* the workers do in between, evaluateCashWalletCutoverGuard does not send a
\* payment to the wallet the cash has left.  The exceptions are an account that
\* a second run tracks as well, and legacy_zero_verified, which the guard's
\* ACTIVE_STATUSES leave out.
RouteFollowsCash ==
    config.state = "in_progress" /\ config.runId \in Reliable =>
        \A a \in Accounts :
            /\ OnlyRun(config.runId, a)
            /\ status[config.runId][a] \notin {"none", "legacy_zero_verified"}
            => /\ Route(a) = "usdt" => cash[a] = "usdt"
               /\ Route(a) = "legacy_usd" => cash[a] = "legacy"

\* What RouteFollowsCash rests on: a migration's status tells where the cash is
\* at both ends of the pipeline, and a planned account has its cash on the
\* legacy wallet until a migration of it is inserted.
CashInv ==
    /\ \A r \in Reliable, a \in Accounts : OnlyRun(r, a) =>
         /\ status[r][a] \in {"legacy_zero_verified", "complete"} => cash[a] = "usdt"
         /\ status[r][a] \in {"not_started", "rolled_back"} => cash[a] = "legacy"
    /\ \A o \in Operators : ops[o].pc = "upsert" =>
         \A p \in ops[o].todo :
             (\A r \in Runs : status[r][p[1]] = "none") => cash[p[1]] = "legacy"

\* A cutover in progress tracks a run that was prepared, although prepare, start
\* and the other commands of several operators interleave.
StartedMeansPrepared ==
    config.state = "in_progress" =>
        config.runId \in Runs /\ \E a \in Accounts : status[config.runId][a] # "none"

\* What StartedMeansPrepared rests on: a command under way names a run, and a
\* start about to write has seen a migration of its run.
StartInv ==
    \A o \in Operators :
        /\ ops[o].pc \notin {"idle", "provision"} => ops[o].run \in Runs
        /\ ops[o].pc = "start_write" => \E a \in Accounts : status[ops[o].run][a] # "none"

=============================================================================
