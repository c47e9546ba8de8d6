# Formal models of the Flash backend

Flash is a banking backend: GraphQL servers, webhook servers and cron jobs around
mongo, redis, ERPNext and IBEX, the custodian that keeps the users' wallets and makes
their payments. The modules here model the parts in which money moves in several steps
over several systems, with retries, webhooks and operators in between: the cash wallet
cutover, payment idempotency, card top-ups, bank withdrawals and cashouts.

## The system and its parts

| Part | Where (under `src/src`) | State it changes | Module |
|---|---|---|---|
| Cutover: migration of one account | `app/cash-wallet-cutover/{runner,executor,handlers,worker,rollback-worker,runtime-services}.ts` | migration document, IBEX wallets, default wallet | `CashWalletMigration` |
| Cutover: run-level commands, routing | `app/cash-wallet-cutover/{prepare,lifecycle,rollback,retry-failed,provision-usdt-wallets,guard,cashout-routing}.ts` | config and migration documents | `CutoverLifecycle` |
| Payment idempotency and its locks | `app/payments/idempotency.ts`, `servers/middlewares/idempotency.ts`, `services/lock` | redis cache and locks, IBEX | `PaymentIdempotency` |
| Reading of IBEX's payment answers | `services/ibex/payment-status.ts` | none | `IbexPaymentStatus` |
| Card top-ups (Fygaro) | `app/fygaro`, `services/fygaro`, `services/frappe` | redis intents and reservations, ERPNext rows, IBEX credit | `FygaroTopup` |
| Bank withdrawals (Bridge) | `services/bridge`, `services/mongoose/bridge-accounts.ts` | withdrawal records, Bridge transfers, USDT sends, ERPNext rows | `BridgeWithdrawal` |
| Cashout offers | `app/offers`, `services/frappe/ErpNext.ts` | redis offers, ERPNext cashouts, IBEX payment | `Cashout` |
| Referral rewards, API keys, pending invoices, accounts, users, merchants, notifications, GraphQL, exporters, adapters | remaining directories | single documents, or none | not modelled |

`PROJECT.json` lists every part with its status, and for every definition the lines it
translates.

How they interact. A payment send goes through `withPaymentIdempotency`; its answer is
read by `paymentSendStatusFromIbex`. The credit of a card top-up is such a send, under
the key `fygaro:<transaction>`, and `FygaroTopup` contains the cache and the lock it
meets there. A cashout pays an invoice and reads the answer with the same operators, so
`PaymentIdempotency` and `Cashout` both extend `IbexPaymentStatus`. The cutover decides
which wallet an account's cash is on: `Cashout` sees it as a move that may happen between
any two of its steps.

In the cutover, an operator *prepares* a run, which inserts one migration document per
account on the legacy wallet; *start* sets the config to `in_progress`; batch processes
(`run-batch`) list unfinished migrations, lock one at a time in its document, and perform
one step of a fifteen-step pipeline on it. Some steps pay Lightning invoices at IBEX, and
are recorded by a separate update afterwards. *rollback-request* puts migrations into
`rollback_started` without taking the lock; rollback batches undo them; *complete* and
*rollback-complete* write the config. User operations are routed by the guard on config
and migration.

## The modules

| Module | Models |
|---|---|
| `CutoverStatus` | statuses, transition table, status sets, `evaluateCashWalletCutoverGuard` (`Guard`) |
| `CutoverAmounts` | rounding and flooring of balances, the two shortfalls |
| `CashWalletMigration` | one account's migration with any number of batch processes, the operator, the user, IBEX and time |
| `MigrationLedger` | abstract specification: payments and their records, in order |
| `MigrationTrail` | the inductive invariants of `CashWalletMigration` |
| `CutoverLifecycle` | the config, several runs and accounts, concurrent operator commands, routing |
| `IbexPaymentStatus` | the readers of `payInvoiceV2` and lnurl answers over all combinations of their fields, and what an answer can truthfully say of a payment |
| `PaymentIdempotency` | concurrent payment requests, the header middleware, the cache, the lock, the send |
| `FygaroTopup` | authorisations and payment webhooks of one account |
| `BridgeWithdrawal` | mutations, webhooks and reconciliation of withdrawals |
| `Cashout` | creation and execution of offers |
| `MC*` | instances for TLC |
| `*Proofs` | TLAPS proofs |

In all of them an action is what the code does between two awaits: one read or one write
of a shared store, or one call to another system, with the code up to the next one. A
write that is a compare-and-swap in the code (`findOneAndUpdate` with a filter) is one
atomic action with that filter as guard; a read followed by a write is two.

### CashWalletMigration

State: `mig` is the mongo document (a payment request is the id of its invoice, a
transaction id the id of the invoice it paid); `proc[w]` is a batch process: where it
is between two awaits, which kind of batch it runs, its own *copy* of the document, and
whether it saw the lock as stale when its batch began; `bal`, `invoices` are IBEX;
`default` is the account's default wallet; `user` a payment routed and not yet made;
`left` the remaining budget of environment events. `owed` is a history variable: what
the two wallets would hold together had the cutover not touched them.

A step that pays is split into *prepare* (create or refresh the invoice), *pay*,
*record*. Between any two of them the process may crash (`Crash`), get an error
(`StepFails`), get an error although the money moved (`SettledOutcome`), or be overtaken.
The guards are the code's: `transitionMigration` compares the status and not the lock,
`markMigrationFailed` compares the lock and not the status, `acquireMigrationLock`
looks at the lock only. The requests of the operator take no lock.

`StaleMeansDead` is the one assumption about time. `TRUE`: only a dead process's lock
grows older than `lock-stale-seconds`. `FALSE`: a live process can be overtaken, which
rate-limit sleeps permit: up to four of sixty seconds for each call to IBEX, against a
default of 300 s.

### CutoverLifecycle

State: `config`; `status[run][account]`, a coarser status; `cash[account]`, the wallet
its cash and its default are on; `moved`, migrations with a recorded payment;
`usdtWallets`; `ops[o]`, an operator's command between two of its database calls with
what it has listed so far. `started` stands for the statuses up to `balance_read`,
`invoice_created` for those from the first invoice to the flip; a compare-and-swap on
one of these two may fail although the coarse status has not changed (`Several`).

The pipeline is seen through its promises: complete means moved, rolled back means
returned, rolled back is final. `CashWalletMigration` shows how each can be broken, so
the constant `Reliable` names the runs whose pipeline keeps them: what the lifecycle adds
to a correct pipeline is asked of those, and the lifecycle faces the real one in the
others.

Every account has a legacy wallet here and its default is a cash wallet: the
discovery statuses `missing_legacy_usd` and `residual_legacy_usd` do not occur.

### PaymentIdempotency and IbexPaymentStatus

A request is where its handler is (`pc`), what it asks for, what its send returned, what
IBEX did with the money (`fate`) and what the client was answered. `lock` and `cache` are
redis, per key; `headerLock` is the one-hour timelock of the middleware, which nothing
releases. A cache read that fails counts as a miss, a release that fails answers `busy`
although the send was made, an error is not cached: all as in the code. `sends` counts the
sends IBEX took under a key, and `lapses` the events after which the code cannot know of
one: a lost answer, a lost lock, a failed write or a failed read inside the lock, an
expired entry, a crash between send and write.

`IbexPaymentStatus` takes every combination of the fields the code looks at
(top-level status, payment status, failure code, settle date) that IBEX can send about a
payment of a given fate (`Describes`), and the readers are translated branch by branch.
The pairs of a reading and a fate, `InvoiceAnswers` and `LnurlAnswers`, are what a send
can return to the modules that extend it.

### FygaroTopup

A checkout is the authorisation request, the link it may issue and the intent record of
that link: `step[c]` is where the request is, `holds` the reservations, `intent[c]` the
record with the outcome the payer is shown. A payment is what Fygaro captured
(`capture[t]`), its ERPNext row (`row[t]`) and the credit lock; a delivery `d` of its
webhook is where it is (`at[d]`), the record it looked up and the row it found. A handler
that answers 500 is delivered again; one that answers 200 is not. The upsert of a row is
two steps, `findBridgeTransferRequest` and the write, as in `ErpNext.ts`.

A link is payable once a customer has it (`offered`): from its own request, or from
another that `refuseOpenCheckout` offered it again while its own was still deciding. A
payment begun in the window of a link may be captured after it, as
`checkout-intent-store.ts:268` provides for. `saveIntent` is two steps, the hold and the
record. A redis that fails at a lock looks like a lock that is taken (redlock throws an
`ExecutionError` in both cases): the delivery is answered 200. A send that is pending is
taken for made.

Fees and discounts, notifications and the redemption claim of an intent (on which nothing
acts) are left out. Attribution is one fact, whether a payment names an account
(`known`); a row that ops credits for an account found by e-mail may keep the mark that
exempts it from the sum. Reasons of a refusal other than the limit are one
nondeterministic choice, because operators edit the settings between deliveries.
`overtaken`, `unanswered`, `unlanded` (the send was pending), `reported` (ops was told),
`byHand`, `stranded` (answered 200, or left under a lock, with nothing done) and `undone`
are history variables that name exceptions in the properties.

### BridgeWithdrawal

The withdrawals are those of one amount to one bank account, where requests meet. A
record has a status, and may have a transfer id and a payout id; `at[c]` and `on[c]` are a
mutation in progress, `hook[h]` a webhook delivery, `scan` the rows that a pass of the
reconciliation has read and not yet dealt with. Bridge is `transfer`, `paid` and
`events`, the events it has no 200 for and delivers again; IBEX is `balance` and `sends`.
Bridge creates one transfer per withdrawal, because the idempotency key is derived from
the record. Fees, receipts and pushes are left out, and with the pushes the timelock that
keeps a webhook from repeating them.

### Cashout

An offer is `new`, `invoiced` (IBEX made the invoice on Flash's wallet), `stored` in redis
or `gone`, with the wallet its creation selected. An execution is its place, its cashout
in ERPNext, the answer of `payInvoice`, the fate of that payment and the events it raised.
An offer is not used up by an execution. The invoice is paid at most once, and is payable
only while it has not expired and the selected wallet holds the cash: that is IBEX.
Amounts, rates, fees, e-mail and the `SkipPayment` setting of test installations are left
out.

## What is checked

Passing runs:

| Run | Instance | Shows |
|---|---|---|
| `Faults` | 2 processes, 2 crashes, 1 error, 1 lost answer, 1 expiry, 2 rollback requests, 1 retry | the inductive invariant `IInv`, which contains `TypeOK` and `MoveComesFirst` and implies `LockExclusive`; `MoveOnce`; `CompleteIsWhole`, `RolledBackIsWhole` (what the user can lose); `CompletePointsToUsdt`; `TreasuryExposure` (what they can gain); `ImplementsLedger` (refinement) and `RecordedIdsStay` |
| `Traffic` | the user pays and is paid meanwhile | `BlockedWhilePaying`, `ShortfallOnce` |
| `Overtaken` | `StaleMeansDead = FALSE` | `RecordedMeansPaid`, `RollbackIsOneWay`, `FeeOnce` survive without mutual exclusion |
| `Liveness` | `FairSpec` | `ComesToRest` |
| `Lifecycle` | 2 accounts (one opened later), 2 runs (one reliable), 2 operators | `StartedMeansPrepared`, `RouteFollowsCash` |
| `Idempotency` | 3 requests, 1 key, 2 payments, both rails, 1 fault | `SendOnce`: a second send under a key needs a lapse; `AnswerIsTrue`: a reported outcome is what happened; `FailureIsFinal`; `KeyComesFree` |
| `Topups` | 1 open link, 2 payments, 2 concurrent deliveries, 1 fault, 2 calls | `CapHolds`; `StatusIsTrue`; `HeldOrCounted`; `Attended` and `StatusSettles` (liveness) |
| `Checkouts` | 3 authorisations, 1 payment delivered up to twice besides retries, 1 fault, 3 calls | the inductive invariant `IInv` of the top-ups, which contains the types; `CreditedOnce`, `PayableIsHeld`, `IssuedWithinAllowance` |
| `Bridge` | 1 record, 2 mutations, 2 webhooks, reconciliation, 1 fault | `SentOnce`; `CancelledIsNotSent`; `DeletedIsUnfunded`; `CompletedIsPaid`; `OutcomeStays`; `SentSettles` and `AuditFollows` (liveness) |
| `Cashouts` | 1 offer, 2 executions, 2 faults | `PayoutIsBacked`; `PaidOutOnce`; `OneTrueTerminalEvent`; `PaymentIsFollowedUp` (liveness) |

`RouteFollowsCash` is about accounts with a migration of the tracked run that no other
run tracks, and exempts `legacy_zero_verified`, where it is false (below).
`CompleteIsWhole`, `RolledBackIsWhole` and `CompletePointsToUsdt` are about migrations
with a recorded move. The two amounts are what can be said for any balances and fees: a
completed migration may have cost the user the largest fee that is not reimbursed exactly
(just below `MinFixedInvoice`) and the roundings of three balances, together less than
`MinFixedInvoice + 1` micros; a rolled back one is short by at most the tolerance and what
the USDT wallet held before, which the rollback does not return, plus rounding.
`TreasuryExposure` is the other side: a migration gives the user at most the tolerance (a
reverse payment may leave that much in the USDT wallet and the top-up still fill the
legacy one) and three micros of rounding more than they are owed, and a fee that is paid
again after its invoice expired.

Runs named `V...` check one statement made by a comment or an error path of the
repository and find it violated. The findings in `PROJECT.json` quote the statements.

| Run | Statement that does not hold | Because |
|---|---|---|
| `VHeaderOnce` | a request with a used `X-Idempotency-Key` is answered 409 | `lockIdempotencyKey` returns the refusal, the middleware waits for a throw |
| `VStatusesMoveForward` | ERPNext statuses only move forward | the guard is computed on the row read before the write |

### Known limits

Where the passing properties end. Each was found with TLC by widening a run or dropping
an exception; they are listed so that nobody reads more into a property than it says.

Cutover:

* `legacy_zero_verified` is not in `ACTIVE_STATUSES` (`guard.ts:16`): a migration one step
  from complete is routed to the emptied legacy wallet, although `cashout-routing.ts:34`
  says that the guard blocks "while a migration is in-flight".
* With the config complete the migration is not looked up (`cashout-routing.ts:53`): a
  rolled back account is routed to USDT, against `guard.ts:42`.
* A rollback sees that funds moved by the recorded id (`rollback-worker.ts:189`): after a
  crash between payment and record it returns nothing.
* A crash between the reverse payment and its record, and the expiry of its invoice, make
  the resumed rollback pay twice; `rollback-worker.ts:128` says it resumes idempotently.
* A crash between the flip of the default and its record makes the second flip record
  USDT as the previous default (`runtime-services.ts:470`), which a rollback restores.
* A prepare between the check and the write of rollback-complete leaves a `not_started`
  migration under a rolled back config, against `rollback.ts:193`.
* `MoveOnce` fails if a deposit as large as the balance reaches the legacy wallet
  between a payment whose record is lost and the next attempt.
* `FeeOnce` fails after a crash between payment and record and the expiry of the
  invoice; `ShortfallOnce` after a lost answer and an expiry, or if a live process is
  overtaken (`rollback-worker.ts:309`: "never double-pay automatically").
* `CompleteIsWhole` fails if a deposit on the USDT wallet hides the fee.
* `rolled_back` is not terminal: a second rollback batch with an old list marks it for
  review (`state-machine.ts:6` calls it terminal).
* A failed migration is retried at `pointer_flipped` although nothing was flipped,
  because the plan (`planner.ts:35`) sets `previousDefaultWalletId` already, which
  `retry-failed.ts:25` reads as "pointer flipped"; an empty account then completes with
  its default on the legacy wallet. `CompletePointsToUsdt` says nothing of it: it is about
  migrations with a recorded move, which are not retried.
* An account without a migration is routed to the legacy wallet until the cutover is
  complete, also one opened with USDT as its default.

Card top-ups:

* `IssuedWithinAllowance` excepts a payment that is first counted between the reading of
  the history and the issue: `authorize-topup.ts:445` says "never over-issued".
* A request may offer the link of another again (`authorize-topup.ts:234`) before that one
  has read the reservations a second time. If it then rolls back, the link stays payable
  and its hold is gone; with a third request the allowance is over-issued, against the
  same comment. `PayableIsHeld` and `IssuedWithinAllowance` except a rolled back link.
* `Attended` excepts a crash under the credit lock: the lock outlives the crash
  (`payment.ts:1083` says the crash releases it), and a retry that meets it is answered
  200 and not delivered again.
* `Attended` also excepts a redis that fails at the credit lock (`lock/index.ts:101`,
  `payment.ts:1321`: 200 `already_processing`) or at the timelock of a refusal
  (`lock/index.ts:167`, `payment.ts:626` and `915`: 200 `already_processed`): a captured
  payment is then neither credited nor released nor reported, and not delivered again.
* Where crediting is switched off, `Attended` counts the ops feed (`payment.ts:936`) as
  being told: no alert is raised.
* A credit whose send is pending is completed and stamped `credited`
  (`credit-topup.ts:164`, `payment.ts:1237`), though it may fail in the end;
  `checkout-intent-store.ts:80` calls that amount "what actually reached the wallet".
  `StatusIsTrue` and `Attended` except it (`unlanded`).
* `CapHolds` excepts a payment that was refused, delivered again and then credited: its
  row carries the refusal and is not counted until it is completed.
* `CreditedOnce` excepts, besides lost answers, a row taken back by a stale write
  (`VStatusesMoveForward`) and two faults at once. The two reads of the send's cache do
  not fail here; what follows if they do is in `PaymentIdempotency`.

Withdrawals:

* A cancellation between `createTransfer` and `updateWithdrawalTransferId` leaves an
  unfunded transfer at Bridge; a crash between submission and send leaves the record
  `submitted` for good.
* After a lost answer to the send, the record is `send_failed` with the USDT under way:
  `DeletedIsUnfunded` excepts that, and a completion of such a record is refused forever.
* `SentSettles` excepts a failure webhook that looks the record up just after it was
  submitted, which is answered `already_terminal`.
* `AuditFollows` says that the row is written, not that it stays: an overtaken
  `writeBridgeCashoutPending` writes over it, since the guard is for top-ups only.
* The 15-minute window of the reconciliation may miss rows: a pass sees any subset.

Cashouts:

* An answer that is pending or cannot be read is submitted deliberately
  (`ValidOffer.ts:97`): without it, or with the invoice paid by another execution, the
  payout has no payment behind it. `PayoutIsBacked` and `PaidOutOnce` except exactly that.
* A lost answer of `payInvoice` raises a failure although the invoice was paid, and the
  draft is not submitted; a crash after the payment leaves a draft nobody is told of.
* The guard is consulted when the offer is made and not when it is executed.

### Bounds

Cutover: two processes give every pair of a slow or dead process and its successor, and a
forward against a rollback batch; more processes are left to the proofs. Four or five
invoices allow one of each kind and a refresh. Balances are in half-micros
(`SubPerMicro = 2`), and 41 is twenty and a half micros, so that rounding and flooring
differ. Fees of 0, 2 and 6 or 8 half-micros are none, one micro (payable, but below the
minimum of a fixed invoice, so paid through a no-amount invoice) and three or four micros
(a fixed invoice; four in `Faults`, so that a fee that is not paid back exceeds the bound
of `CompleteIsWhole`). `Bounds` caps how often each environment event happens; process steps are
not capped. `Lifecycle` has one old account and one opened later; lists of several
accounts and more runs are left to the proof.

Elsewhere `MaxFaults` bounds failures, lost answers, lost locks and crashes together.
`Idempotency`: three requests are an original, its retry and a competitor with another
payment; one fault gives each of the named lapses, and each in every place. `Topups`:
two payments of 2 on a limit of 3 cannot both be credited; `Checkouts`: two links of 2
cannot both be issued, a third request may be offered the link of the first again while
the first and the second back out, and a payment may be of another amount than its link.
`MaxCalls` bounds requests and repeated deliveries together (the first delivery of a
payment is free): three requests and one delivery with its retries, or fewer requests and
the second delivery. `Bridge`: one
record, since records of one account meet only in the unique index on pending ones, which
the proofs cover for any number; two mutations are two initiations, or one and a
cancellation. `Cashouts`: two executions of one offer; three executions, and two offers,
were checked too and take longer than a regular run should.

Processes, operators, old accounts, checkouts and deliveries are symmetric where no
liveness is checked. Deadlock is not checked where the system really stops (a settled migration,
payments all answered); it is for the lifecycle and for idempotency.

### Fairness

* `ComesToRest`: a process that has not died takes its next step (including listing
  again: a batch handles a limited number of migrations, and `complete` refuses while
  runnable ones remain, so the operator runs batches until none is left), and a lock's age
  passes the cut-off.
* `KeyComesFree`, `PaymentIsFollowedUp`: a handler that has not died goes on, and the lock
  of one that has died runs out (redlock's duration).
* `Attended`, `StatusSettles`: handlers go on; Fygaro delivers a captured payment, and
  again after a 500; stale locks run out.
* `SentSettles`, `AuditFollows`: handlers and the reconciliation go on; Bridge settles a
  funded transfer; an event without a 200 is delivered again whenever a handler is free
  (strong fairness, because a delivery competes with others for the modelled handlers,
  which in the code are not limited).

Faults, users, operators and the start of a reconciliation have no fairness.

## What is proved

With TLAPS, for every value of the constants that the named ASSUMEs admit:

| Theorem | Module | From |
|---|---|---|
| `TypeCorrect` | `CashWalletMigrationProofs` | the ASSUMEs |
| `LockIsExclusive` | `CashWalletMigrationProofs` | stated under `StaleMeansDead` |
| `RecordsAreTrue` (`RecordedMeansPaid`), `MoveIsFirst` | `CashWalletMigrationProofs` | no assumption on locks |
| `RollbackNeverTurns` (`RollbackIsOneWay`), `IInvInvariant` | `CashWalletMigrationProofs` | no assumption on locks |
| `RecordsStay` (`RecordedIdsStay`), `MigrationImplementsLedger` | `MigrationLedgerProofs` | `StaleMeansDead` |
| `PayingIsBlocked` (`BlockedWhilePaying`) | `MigrationLedgerProofs` | stated under `StaleMeansDead` |
| `CompletedPointsToUsdt` (`CompletePointsToUsdt`) | `MigrationLedgerProofs` | `StaleMeansDead` |
| `MovedOnce` (`MoveOnce`) | `MigrationLedgerProofs` | `StaleMeansDead`, no deposits on the legacy wallet |
| `ReimbursedOnce` (`FeeOnce`) | `MigrationLedgerProofs` | no invoice expires; no assumption on locks |
| `ToppedUpOnce` (`ShortfallOnce`, and the same of the reverse payment) | `MigrationLedgerProofs` | `StaleMeansDead`, no invoice expires |
| `CompletedIsWhole` (`CompleteIsWhole`), `RolledBackIsWholeAgain` (`RolledBackIsWhole`) | `MigrationLedgerProofs` | `StaleMeansDead`, no deposits |
| `ExposureIsBounded` (`TreasuryExposure`) | `MigrationLedgerProofs` | `Undisturbed`: `StaleMeansDead`, no deposits, no payment by the user, no invoice expires |
| `LifecycleTypeCorrect`, `StartIsPrepared`, `RoutesFollowCash` | `CutoverLifecycleProofs` | the ASSUMEs, any number of runs |
| `SendInvHolds`, `PaidOncePerKey` (`SendOnce`) | `PaymentIdempotencyProofs` | the ASSUMEs |
| `AnswerInvHolds`, `AnswersAreTrue` (`AnswerIsTrue`), `FailuresAreFinal` (`FailureIsFinal`) | `PaymentIdempotencyProofs` | the ASSUMEs, any answer of IBEX |
| `PayableLinksAreHeld` (`PayableIsHeld`), `CreditsAreReal` (`StatusIsTrue`), `PaymentsAreCreditedOnce` (`CreditedOnce`) | `FygaroTopupProofs` | the ASSUMEs |
| `TopupInvariant` (`IInv`), `HoldsAreGivenBack` (`HeldOrCounted`) | `FygaroHoldProofs` | the ASSUMEs |
| `WithdrawalInvHolds`, `WithdrawalSentOnce`, `CancelledWithdrawalIsNotSent`, `DeletedTransferIsUnfunded`, `CompletedWithdrawalIsPaid`, `WithdrawalOutcomeStays` | `BridgeWithdrawalProofs` | the ASSUMEs |
| `CashoutInvHolds`, `PayoutsAreBacked`, `OfferIsPaidOutOnce`, `TerminalEventsAreTrue` | `CashoutProofs` | the ASSUMEs |

The hypotheses beside the ASSUMEs are those without which the property is false, as the
known limits above show: `MoveOnce` with a deposit on the legacy wallet, `FeeOnce` and
`ShortfallOnce` with an expired invoice, `CompleteIsWhole` with a deposit that hides the
fee, `TreasuryExposure` with a payment of the user, routed before the migration began, from the
legacy wallet just before a rollback tops it up. `ExposureIsBounded` asks for more than that: with
expired invoices (run `Faults`) and with deposits TLC finds no violation, but the proof
does not cover them. In each theorem, some admitted instance reaches the state the property is about: the runs
are such instances.

The ASSUMEs are about types and ranges, but for three. `FeeLimitsAssumption`: the smallest
payable fee (2500 micros in the code) is not above the smallest fixed invoice (10000).
`NoOneAssumption` of the top-ups: the marks for "nobody" and for a lock that outlived its
holder are not names of deliveries. `CapturesAssumption`: what a payer may pay is a
capture of a known or no link.

Each proof goes action by action over an inductive invariant. The `IInv` of the migration
is also an invariant of the run `Faults`, that of the top-ups of `Checkouts`; `SendInv`,
`AnswerInv`, `WithdrawalInv`, `CashoutInv`, the types of the lifecycle and the invariants
about the money of the migration are only proved, and the runs check the properties that
follow from them.

*Migration.* The safety properties speak of the document, but a step is taken on a
process's copy. `IInv` (module `MigrationTrail`) strengthens them:

* `LockInv`: who executes holds the lock, it is not stale, and nobody has seen it stale
  (else a later acquisition would take it from a live process).
* `Trail`: in the document *and in every copy*, ids name invoices of their kind, and
  the place a process is at says what its copy holds (at `record_move` the copy's invoice
  is paid). It gives `RecordedMeansPaid` and `MoveComesFirst`, and needs no lock because
  a stale copy is caught by the status comparison.
* `OneWay`: once a rollback has begun, a forward process that holds the lock has a
  terminal copy and cannot act; this gives `RollbackIsOneWay`.
* `UpToDate`: under the lock the copy agrees with the document on everything but the
  status, which only a rollback request can have changed; with it every step is a step of
  `MigrationLedger` or a stutter.

`CashWalletMigrationProofs` looks at each action once and sums it up twice, as its *effect*
(which fields of document and copy it writes, from which place to which) and as its *deed*
(which balance and which amount it changes). From there on the proofs go by effects and
deeds, of which there are few: `IInv` is inductive, and `MigrationLedgerProofs` adds on top
of it:

* `PointerInv`: the document says flipped only when the default is the USDT wallet.
* `AmountsInv`: which amounts the document and the copies know in which status.
* `MoveInv`: the legacy wallet holds at most the recorded balance before the move is
  paid, and nothing after it until a rollback sends money back; so a second payment of
  the same amount has nothing to pay with, also through an invoice that replaced the first.
* `FeeInv`, `UndoInv`: while none expires, there is one invoice for the fee, whoever holds
  a copy of it, and under the lock one for each payment of the rollback.
* `WholeInv`: what the user is short of (`Gap`) is nothing before the move, at most the
  balance after it, at most the recorded fee and a micro and a half once the fee is read,
  and at most that micro and a half once a fee of at least `MinFixedInvoice` is paid.
* `GainInv`: how far below nothing `Gap` can get. The payments are made in their order and
  each once; the recorded fee is at most what is missing, up to a micro and a half; what a
  process is about to send back is within the tolerance of what was moved (`PurseOK`), so
  that the USDT wallet keeps at most that much of it; and what it is about to top up is
  what the legacy wallet misses, after the money was sent back.

The arithmetic of the roundings is in six lemmas (`HalfMicro`, `MultiplesOrdered`,
`WholeLegacy`, `FeeCovers`, `FeeWithin`, `TopUpWithin`).

*Lifecycle.* `StartInv` (a start about to write has seen a migration, and migrations never
vanish) and `CashInv` (for a reliable run and an account of that run only, status and cash
agree at both ends of the pipeline, and a planned account stays on the legacy wallet until
it is inserted). Both hypotheses are needed, as TLC shows.

*Idempotency.* `SendOnce` is not inductive: the send happens after the lock and the second
read. `SendInv` adds that the holder of a lock is past its acquisition and, about to send,
finds no unaccounted send under its key (`HolderInv`), and that a key which is neither
cached nor about to be by its holder has no unaccounted send (`MemoryInv`). `AnswerInv`
adds, for what is answered, that a result held in a handler or in the cache is backed by
a request for the same payment, that a request which has not reached the send has moved no
money, and that without a lapse one request at most was sent under a key (`OneSender`).

*Top-ups.* `IInv` (module `FygaroTopup`) has a part for each of the things that stand in
for each other:

* `LinkInv`: a link goes out, also to another request, once its hold is written, and what
  a request prunes had expired before it began; so a link that may still be paid keeps its
  hold, unless its own request rolls it back.
* `StatusInv`: every mark of a credit, on a row, on a record, in the cache or in the hands
  of a delivery, is the mark of a credit of that payment, or of a pending one.
* `LockInv`: the lock of a send is held exactly while it is sent; the credit lock is held
  from its acquisition to the answer, and, as long as nothing failed, by whoever credits.
* `OnceInv`: after the first answered send something stands in the way of a second
  (`Guarded`): the cached send, the delivery about to cache it, the completed row with
  nobody past the reading of it, or the holder of the credit lock about to complete it.
  One fault takes away one of these; which is why `CreditedOnce` excepts two.
* `CaptureInv`, `RecordInv`, `HeldInv`: as long as nothing failed, a delivery knows the
  record of its link, and whatever ends the handling of a payment early (a completed row, a
  claimed timelock, a credited record, a lock that another delivery holds) means that its
  hold is given back or about to be (`HandedBack`).

*Withdrawals.* `WithdrawalInv` adds that a call past `updateWithdrawalTransferId` is the
only one on its record (`OwnInv`), what each place knows of the send (`CallInv`,
`SendInv`), and that every claim that Bridge paid, in an event, a delivery or a row read by
the reconciliation, is true (`ClaimInv`).

*Cashouts.* `CashoutInv` relates the place of an execution to its draft, its answer, the
fate of its payment and its events, and says that at most one payment of an invoice is
not failed (`InvoiceInv`); the readers of `IbexPaymentStatus` enter through one lemma, that
a success is reported only of a payment that took the funds.

Only model-checked: liveness (`ComesToRest`, `KeyComesFree`, `Attended`, `StatusSettles`,
`SentSettles`, `AuditFollows`, `PaymentIsFollowedUp`), which is beyond the prover;
`CapHolds` and `IssuedWithinAllowance`, which are about sums over sets of payments and of
links, for which the prover has no induction; and `TreasuryExposure` where invoices
expire, which takes a count of the fees paid again, or others pay the user.

In the proofs of the migration, its lifecycle, the top-ups and idempotency a leaf goes to
Zenon by default (`USE Zenon`), and one that needs arithmetic, records or updated functions
names SMT: the time of the provers is spent where it is needed.

## What is not modelled, and why

The modules translate the code that moves money in several steps. That is a small part of
the implementation by lines: most of it is GraphQL types and resolvers, schema, mongoose
schemas, configuration, translations, e-mail and push texts, generated clients and
adapters, which have no state between two awaits that another actor could change. They
could be written down, but nothing could be said of them that the code does not say.

* Presentation, dashboards, previews and audits of the cutover: reads and formatting.
* Batch limits, throttling, log lines, error texts; the fields of the documents that no
  step reads.
* Two processes of the same worker id, and clock differences between hosts.
* A third wallet (BTC) as default.
* Bridge deposits, KYC and external accounts: upserts of one document per event.
* Referral rewards: one atomic claim per invite; whether an account can hold two accepted
  invites is decided elsewhere (`award-referral-reward.ts:58` checks and claims in two
  steps). API keys: single-document writes; a rotation does not look at the result of its
  compensating revocation (`rotate-api-key.ts:52`).
* Lightning and on-chain payments through LND and Bria, and the update of pending
  invoices (`update-pending-invoices.ts:154` reads `paid` from a copy made before the
  lock): their balances are in LND and in a ledger outside this repository.
* Locks on wallets, payment hashes and transactions, which guard only those.
