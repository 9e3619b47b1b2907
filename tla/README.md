# A TLA+ verification of aps-subscription-api

`aps-subscription-api` is a serverless TypeScript backend that keeps the
subscriptions of Shopify shops: it bills Shopify contracts that are due, mirrors
what Shopify and Stripe report by webhook, puts a free product on the orders of
a subscription, executes pause, resume and cancel, and sends notifications. Every
request is an invocation of its own; all shared state is in PostgreSQL (Prisma),
at Shopify, at Stripe or at Resend. Nothing is kept in memory between requests,
so two invocations meet only through rows that both read and write.

This directory holds the specifications, their TLC configurations and their
machine-checked proofs. Paths below are relative to the root of the repository
(`src/` in `PROJECT.json`).

## 1. Inventory

| Component | State it keeps | Operations | Status |
|---|---|---|---|
| Recurring billing engine `src/retry` | `BillingRetryCycle`, `BillingRetryJob`, `Subscription.status/nextBillingAt`, mirrored orders and attempts | `RetryEngineService.run`: seed, claim, inventory, payment, reconcile, retry, final action | partly: `RetryEngine` |
| Gift engine `src/gifts` | `SubscriptionGiftJob`, `SubscriptionGiftSettings`, the order at Shopify | `enqueueGiftJob`, `processShop`, `processPending`, `recoverStale`, `confirmJob`, settings `save` | partly: `GiftEngine` |
| Shopify event ingestion `src/shopify/events` | `WebhookEvent`, mirrored contract, attempts, orders, cycles, shop | `ingest`, `processEvent` for six topics, `markEventFailed` | partly: `EventIngestion` under `ContractEvents`, `BillingEvents`, `Installation` |
| Subscription lifecycle `src/services` | `SubscriptionLifecycleAction`, `Subscription.status`, status history | `execute`, `finalizeLocal` | partly: `Lifecycle` |
| Stripe events and orders `src/stripe` | `WebhookEvent`, `SubscriptionOrder` with the claim of an invoice, `Subscription.status`, `lastPaymentStatus` and their stamps | `process`, `claimInvoiceOrder`, `safeStripePatch`, order creation | partly: `LegacyBilling` |
| Subscription creation, Shopify's order webhook `src/controllers` | `Subscription`, `SubscriptionOrder`, `WebhookEvent` | `SubscriptionController.create`, `WebhookController.shopify` | partly: `LegacyBilling` |
| Notification events and summaries `src/notifications` | `NotificationEvent`, rows of `NotificationOutbox` | `emit`, `materializeSummaries` | partly: `Notifications` |
| Notification outbox | `NotificationOutbox`, `NotificationDeliveryEvent` | claim under a lease, send, retry, give up, Resend's webhook | partly: `Notifications` |
| Shop installation `src/repositories` | `Shop`: active flag, generation, dates | `installOrReactivate`, `app/uninstalled` | modelled: `Installation` |
| Admin billing reconciliation `src/shopify/reconciliation` | attempt, order, cycle, audit row | `execute` | modelled: `BillingEvents` |
| Stripe gateway | none | create and cancel a subscription | partly: a step of `LegacyBilling`, of `Lifecycle` |
| Sending domains, credentials | domain, current, pending and revoked API keys | verify, rotate, clean up | not modelled |
| Gift recovery endpoint | `SubscriptionGiftJob` | an operator resets a job | not modelled: manual |
| Mercado Pago stub, cycle contract, HTTP routes, authentication, templates | none | | not modelled: types, I/O and text |

How the parts interact:

- The **retry cron** (`vercel.json`, daily) and any manual call run
  `RetryEngineService.run`. It leases jobs for 45 s, calls the **Shopify App** over
  HTTP with 8 s of patience per call, and hands pause and cancel to the App's
  **lifecycle** endpoint. After a commit it emits **notification events**.
- The **gift cron** (`.github/workflows/subscription-gifts-cron.yml`, hourly) runs
  `recoverStale` and `processPending`; the webhook controller also triggers
  `processShop` after a billing webhook, outside its response.
- **Billing and contract webhooks** write the same subscription, cycle, order and
  attempt rows as the retry engine, and enqueue gift jobs. An uninstall
  deactivates the shop; a reinstall makes a new generation, and older gift jobs
  are never given under it. An **operator** completes billing attempts that are
  still pending, in the same rows.
- **Stripe** sends its events to the legacy endpoint until one is answered with
  200; a paid recurring invoice makes the App create an order, of which Shopify in
  turn sends an `orders/create`.
- **Notification events** of the engines and of ingestion become summaries, and the
  outbox sends them through Resend, which reports back by webhook.

What is hard here:

- leases that end before the work they protect (45 s counted from the start of a
  run that may make 25 calls of 8 s; a gift batch claimed at once and worked one
  by one), with rows then written by id whatever they became;
- answers that never come: a charge or an order edit may have happened, may yet
  happen, or never will, and the rows must not lead to a second one;
- invocations that die between two statements, and recovery by a later cron;
- status, cycle and settings read before an `await` and used after it;
- a statement or an emit that fails after the external effect;
- webhooks that are late, repeated or reordered, and that race the answer of the
  call that caused them;
- transactions that read a row, decide, and write it later at Read Committed.

The hazards are listed at their lines in `PROJECT.json`, with the properties that
would catch them going wrong.

## 2. Modules

| Module | Models | Checked by |
|---|---|---|
| `CycleBilling` | abstract: what is promised of a billing date | implemented by `RetryEngine` |
| `RetryEngine`, `RetryEngineProofs` | one subscription billed by overlapping invocations | `MCRetryEngine`, TLAPS |
| `OneGift` | abstract: what is promised of an order's gift | implemented by `GiftEngine` |
| `GiftEngine`, `GiftEngineProofs` | the gift of one order | `MCGiftEngine`, TLAPS |
| `Lifecycle`, `LifecycleProofs` | pause, resume and cancel of one subscription | `MCLifecycle`, TLAPS |
| `EventIngestion` | an event of Shopify from its delivery to its answer, whatever processing it does | the three modules that extend it |
| `ContractEvents`, `ContractEventsProofs` | the mirror of one contract | `MCContractEvents`, TLAPS |
| `BillingEvents`, `BillingEventsProofs` | the billing attempts of one cycle, composed with the engine's record and the operator's reconciliation | `MCBillingEvents`, TLAPS |
| `Installation`, `InstallationProofs` | one shop, installed and uninstalled | `MCInstallation`, TLAPS |
| `InvoiceFulfilment` | abstract: what is promised of a recurring invoice | implemented by `LegacyBilling` |
| `LegacyBilling`, `LegacyBillingProofs` | one subscription of Stripe: its creation, events, orders | `MCLegacyBilling`, TLAPS |
| `Notifications`, `NotificationsProofs` | the summaries of one window, their sending and their reports | `MCNotifications`, TLAPS |

### RetryEngine

One action per `await`: a database statement, an interactive transaction or a
call of the App. What an invocation has read stays in `worker[w]` and is written
back however stale it is.

| State | Code |
|---|---|
| `subscription`, `today` | `Subscription.status`, `nextBillingAt`; the billing dates that are due. Dates are `1..Cycles`, `advanceBillingDate` is +1 |
| `cycle[c]` | `BillingRetryCycle`: status, final action with its own lease, whether the success carried a date |
| `job[j]` | `BillingRetryJob` of cycle, kind and attempt number: status, `scheduledAt` passed, leased, `reconcileAfter` set, `reconciliationCount` |
| `orders`, `complete` | `SubscriptionOrder` and the succeeded `SubscriptionBillingAttempt` |
| `charge[j]` | the billing attempt Shopify keeps for the job's idempotency key |
| `worker[w]` | local variables and position of one invocation |

| Actions | Code |
|---|---|
| `SeedCycle`, `SeedJob` | `seed` |
| `Claim`, `ReadJob`, `SkipJob`, `CallInventory`, `CallPayment` | `run`, `processClaimedJob`, `callApp` |
| `InventorySucceeded`, `PaymentSucceeded`, `IncompleteSuccess`, `HandleUncertain`, `ReopeningRefused`, `FailOrReschedule`, `HandleWorkerException` | the methods of those names |
| `ReadFinalAction`, `ClaimFinalAction`, `LifecycleDone`, `LifecycleFailed`, `FinalizeCycle` | `recoverFinalActions`, `executeFinalAction` |
| `RecordBillingAttempt`, `ContractWebhook` | the billing and contract branches of ingestion |
| `Settle`, `LeaseLapses`, `FinalLeaseLapses`, `TimePasses`, `Crash` | Shopify, deadlines, the platform |

Shopify is modelled by what the engine relies on: an idempotency key has one
billing attempt, which is none, pending, declined or charged. A call may get its
true answer, an incomplete one, or none, and may have had its effect in every
case. The partial unique index `BillingRetryJob_one_actionable_kind_per_cycle_key`
is part of the model (`OtherOpen`): it refuses the write of a late worker that
would reopen a job whose successor is open, and the refusal ends its invocation.
`AppMayReject` adds a 4xx that says failed of an attempt that is not; the runs and the
charge theorems leave it off (section 6).

`CycleBilling` is the abstract specification, without jobs, workers and leases: of one
date attempts are asked for in turn, the next only after those before it were declined
for good; what is booked as paid was charged, or is of an attempt the engine did not
make; one final action is decided, and carried out. The mapping reads `charge` as
Shopify's record of the payment jobs, `booked` as the mirrored orders, `paid` as the
cycles that are succeeded, `action` and `done` as `finalAction` and its status. The
engine may recognise a booked date as paid again after its final action (`Recognise`):
`seed` does so when it finds the order's attempt.

### GiftEngine

One job, because an order has exactly one (`shopId, orderKey`). A worker is the
decision itself and not the request that started it: the 12 s deadline only stops
waiting for it.

| State | Code |
|---|---|
| `job` | `SubscriptionGiftJob`; `variant # NoVariant` is also `commitIntentPersistedAt`; deadlines are Booleans |
| `shop`, `settings`, `sweep` | installation active; what the settings say of this order; the second statement of a disabling `save` still to run |
| `order` | open or closed at Shopify, its free lines, the edits whose answer was lost and that Shopify will yet apply |
| `worker[w]` | position and reads of one decision or recovery |
| `exposed` | ghost: which of the `Exposures` has happened (section 3) |

| Actions | Code |
|---|---|
| `Enqueue`, `Claim`, `Read` | `enqueueGiftJob`, `claimJobs`, `processClaimedJob` |
| `CheckShop` .. `PersistIntent` | `runGiftDecision` |
| `EditOrder`, `Commit*`, `MarkUncertain`, `ScopeMissing`, `Close`, `Requeue` | `applyGiftToOrder`, `handleUserErrors`, `terminal`, `requeueOrFail` |
| `RecoverStale` .. `MarkReviewed` | `recoverStale`, `confirmJob` |
| `Disable`, `SkipPending`, `ChangeSchedule` | settings `save` |
| `StatementFails`, `Crash`, `LeaseLapses`, `TimePasses`, `ApplyComing`, ... | faults, deadlines, Shopify |

`begin`, `addVariant` and `addLineItemDiscount` touch only a draft and are one
step, `EditOrder`. A rejected promise that is returned without `await` is not
caught by the `try` around it: `StatementFails` sends it to the batch's catch,
and the awaited writes of COMMITTED and UNCERTAIN to `requeueOrFail`.

`OneGift` is the abstract specification, in words of the order only: an attempt is
announced while there is no gift and none to come; one at a time may then add a gift, at
once or when Shopify gets to it; and the word of the job is *given* only of a gift that
is there, *open* or *refused* only when there is none, none to come, and nobody trying.
The mapping reads `given` and `coming` from the order, `trying` as a worker between its
intent and the answer to its commit, and the word from the job's status. It also shows
what the properties of one state do not: an attempt may overtake a refusal that the
settings wrote meanwhile (`Try` from *refused*), and a gift that was confirmed may be
doubted again by a late recovery, but never denied (`Say`). The promise is kept until it
is broken off (`kept`), which the mapping reads as the first exposure; of what follows
it says nothing.

A lease ends at any time, whoever works under it: the engine leases a batch once for 45 s
and decides its jobs one after the other. `recoverStale` reads at most 20 long uncertain
jobs, in no stated order; `FindUncertain` finds the one job there is. With more than 20
of them the same 20 may be read each time until they are confirmed or reviewed, and one
job may wait: `GiftConfirmed` is about a shop with no such backlog.

### Lifecycle

Requests of customers, merchants and the retry engine, cut at their awaits. Each
has read the subscription's status at its start and, later, the record of its key;
both are used however stale.

| State | Code |
|---|---|
| `subscription`, `gateway` | `Subscription.status`, `Subscription.gateway` |
| `record[k]` | `SubscriptionLifecycleAction` of idempotency key `k`; `stale`: `updatedAt` is more than 60 s back |
| `external`, `applied`, `coming` | the gateway: its status, what it has carried out for which key, what it will yet carry out |
| `request[w]` | position and reads of one `execute`; `current`: the record still has the `updatedAt` that was read |
| `overrun` | ghost: keys whose call has outlasted the 60 s of their record |

| Actions | Code |
|---|---|
| `Begin`, `Lookup`, `CheckPending`, `Create`, `CreateRefused`, `Reread`, `Recover` | `execute` up to the claim of its record |
| `Call`, `Mark`, `RecordFailure` | `executeShopify`, `executeStripe` and the `try` around them |
| `FinalizeLocal` | `finalizeLocal`: one transaction |
| `Crash` | the invocation dies, or a statement fails, after which `execute` writes nothing more |
| `Age`, `ApplyComing`, `Expire`, `Webhook` | 60 s pass; the gateway; its webhooks |

The gateway refuses any action on an ended contract except a second cancel. A call may
have its effect and no answer, now or later. A call to Shopify is aborted after 8 s, so
its record never goes stale while it is held; one to Stripe may take any time (`Age`).
The index `SubscriptionLifecycleAction_one_pending_per_subscription_key` is part of
`Create`.

### EventIngestion

Every topic is taken in by the same steps: `Deliver`, `CreateEvent`, `RereadEvent`,
then a transaction, which the extending module begins and completes, then a
notification and the 200. `MarkEventFailed` makes the row unprocessed again whoever
else has processed it meanwhile. The sender repeats an event until it hears a 200,
may not hear it, and sends events in any order. `IngestionMove` says all that a step of
an extending module may do to this part of the state; the proofs rest on it.

| State | Code |
|---|---|
| `row[e]` | `WebhookEvent`: absent, `processed = false` (open), `processed = true` (done) |
| `owed` | what the sender has no 200 for |
| `worker[w]` | position and event of one `ingest` |

### ContractEvents

The transaction is Read Committed: `BeginTransaction` reads the mirror into
`read[w]`, `CommitTransaction` decides by what was read and writes what it finds.

| State | Code |
|---|---|
| `sub` | `Subscription.status`, `shopifyRevisionId` (0: none) and the active `SubscriptionLine`s |
| `origin` | the first `SubscriptionOrder` and the `FIRST_ORDER` gift job |
| `history`, `told` | `SubscriptionStatusHistory`, notifications emitted |
| `overlap` | ghost: have two transactions ever overlapped |

`ShouldApply` is `shouldApplyShopifyContractEvent`, `UpsertContract` and
`UpdateContract` are `upsertContract` and `updateContract` with `syncContractLines`.

### BillingEvents

| State | Code |
|---|---|
| `attempt[a]` | `SubscriptionBillingAttempt`: status, `reconciliationStatus` complete |
| `orders`, `gifts`, `history`, `audits` | the rows `recordBillingAttempt` and the operator write |
| `cycle` | `BillingRetryCycle.status`: none, open, succeeded, or finalized (which stands for skipped too) |
| `old` | attempts whose order is older than `enqueueGiftJob` accepts |
| `told` | notifications |
| `body[w]`, `existed[w]` | is the delivered event enriched; did the transaction find the attempt |

| Actions | Code |
|---|---|
| `BeginTransaction`, `RecordBillingAttempt`, `RefusedByUniqueness` | `recordBillingAttempt`, cut at its look-up |
| `Emit` | what `processEvent` emits after its commit |
| `EngineSeeds`, `EngineRecords`, `EngineActs` | what `seed`, `paymentSucceeded` and `executeFinalAction` write to these rows |
| `OrderAges` | an order passes the age up to which a gift job is made |
| `Reconcile` | `executeTransaction`; serializable, so one step |

The engine may take its three steps at any time of a cycle there is: `RetryEngine` says
when it does, and here every moment is allowed. `executeFinalAction` writes *finalized*
or *skipped* over whatever the cycle has become, a success included, so no success of a
cycle is for good; what lasts is that a cycle which was paid is not open again
(`Settled`). A gift job is made by `RecordOrder` unless the order is too old by then.

### Installation

Time passes only where dates are compared. The world beside the row says whether
the App is installed at Shopify, and which calls and events are still on their way.

| State | Code |
|---|---|
| `shop` | `isActive`, `installationGeneration`, `lastInstalledAt`, `lastUninstalledAt` |
| `captured[w]` | the generation a transaction of `app/uninstalled` has read |
| `installed`, `happened`, `trigger`, `calls`, `coming` | Shopify: installed, uninstallations with their `triggeredAt`, calls of `/install` made and not arrived |
| `crossed` | ghost: has a call found the row active with an uninstallation outstanding, or come after one |

### LegacyBilling

| State | Code |
|---|---|
| `creation`, `stripe` | where `SubscriptionController.create` stands; the subscription at Stripe |
| `sub` | `status`, `lastPaymentStatus`, `lastGatewayStatusEventAt`, `lastGatewayPaymentEventAt` |
| `order[i]` | `SubscriptionOrder` of an invoice; `stalled`: `processing` with a claim older than 60 s |
| `made` | the App's orders, one for an invoice |
| `processed`, `owed`, `ignored` | `WebhookEvent.processed`; events without a 200; events answered before the row existed |
| `linked` | orders that their `orders/create` has linked to the subscription |
| `overlap`, `contested` | ghosts: invocations have overlapped; invoices whose claim was lost while the App was at work |

| Actions | Code |
|---|---|
| `CreateContract`, `CreateAtGateway`, `CreateRow`, `CreationFails` | `SubscriptionController.create` |
| `Receive`, `FindEvent`, `ReadOrder`, `Write`, `WriteRefused`, `AnswerEvent` | `StripeEventProcessor.process` |
| `ClaimGoesOn`, `ClaimRefused`, `ClaimExpires` | `claimInvoiceOrder` |
| `CreateShopifyOrder` | `AppShopifyRecurringOrderService.create` |
| `LinkOrder` | `handleOrderCreate`: the link of an order that is not known, in one step; it serves the statement `OneRowPerShopifyOrder`, which TLC refutes (section 3) |
| `Break` | a 500 or a death, at any await |

`InvoiceFulfilment` is the abstract specification: an invoice is *ordered*, then
*recorded*, then *settled*, each at most once and for good. The mapping reads
`ordered` as `made`, `recorded` as the invoices whose row has an order, and
`settled` as those of which a success was answered with 200 after it was read.

### Notifications

| State | Code |
|---|---|
| `occurred`, `included` | `NotificationEvent`, those with `includedInOutboxId` |
| `summary` | the transaction of `materializeSummaries` under its advisory lock |
| `outbox[k]` | the row of idempotency key `k`: the summary of the window, or the supplement made of the events `k` |
| `worker[w]` | position and reads of one `claimAndSend` |
| `accepted` | Resend: idempotency keys with the mail that was accepted first |
| `report[k, t]` | where Resend's webhook of type `t` stands |
| `late`, `crossed` | ghosts: events joined a row that was no longer pending; reports or sendings of a row crossed |

| Actions | Code |
|---|---|
| `Emit`, `BeginSummary`, `CommitSummary`, `AbortSummary` | `NotificationEventService` |
| `Claim`, `ReadJob`, `GiveUp`, `Send`, `RecordAnswer`, `LeaseExpires` | `NotificationOutboxService` |
| `ReadReported`, `StoreReport` | `ResendWebhookService.handle` |

## 3. Runs

| Run | Instance | Question | Result |
|---|---|---|---|
| `RetrySafety` | 2 workers, 1 date, 1 payment retry, 2 reconciliations, a failed emit | may overlapping invocations charge twice, mirror a false order, lose a chain or act twice; does the engine implement `CycleBilling` | holds, 1.63 M states |
| `RetryRecovery` | 1 worker, every kind of fault once, fairness | does every job end and every final action happen after a crash, a failed emit, outside payments and changes | holds, 17 k states |
| `RetryPaidCycle` | 1 worker, 1 outside payment | is a succeeded cycle left alone | violated |
| `GiftSafety` | 2 workers, 2 variants, 3 attempts, leases that end at any time, 2 crashes, 2 failed statements, 2 GraphQL errors | may an order get two gifts, a gift be forgotten or be invented; does the engine implement `OneGift` | holds until an exposure, 668 k states |
| `GiftFaults` | 1 worker, 2 attempts, a crash, a failed statement, GraphQL errors, fairness | is everything decided and confirmed, and the number of gifts bounded | holds, 54 k states |
| `LifecycleKeys` | 2 requests, 1 key, either gateway, calls to Stripe of any length, 1 death, fairness | is one request at a time at the gateway, is a recorded success real and final, is everything settled | holds, 270 k states |
| `ContractOrder` | 2 workers, 4 events, 1 fault, fairness | does what was acknowledged survive, and does the mirror end as the last revision has it | holds, 308 k states |
| `BillingAttempts` | 2 workers, an attempt that fails and one that succeeds, engine with its final action, operator, orders that grow old, 1 fault, fairness | is an acknowledged success complete, is only the truth told, is what is audited paid | holds, 692 k states |
| `Reinstallation` | 2 workers, 2 uninstallations, 3 calls, 1 fault, fairness | does a late uninstallation leave a new installation alone, and is none lost | holds, 120 k states |
| `LateUninstall` | the same, without fairness | the same, whatever the reinstallation found | violated |
| `LegacyOrders` | 2 workers, 4 events, 1 invoice, 1 fault, fairness | do the handlers implement `InvoiceFulfilment`, one at a time, does nothing go back or revive, and is every paid invoice fulfilled | holds, 777 k states |
| `SummaryMail` | 2 senders, 2 events, 2 attempts, 2 faults | is every event told once and as its row says, and do reports stand | holds, 944 k states |

Bounds, and why they are enough. Two workers: all races are about a lease that ended, or
a row that was read before another wrote it, so one worker that is late and one that
took over; a third repeats the role of the second. One billing date: jobs, orders and
final actions of different dates share only `nextBillingAt`. One payment retry gives two
idempotency keys for the same cycle, the least with which it can be charged twice; the
inventory chain fails at once, which lets both chains exhaust concurrently. Two
reconciliations distinguish the first, the last and the one after. Two variants, one of
them also bought by the customer, are what `confirmJob` must tell apart. Three attempts
are the schema's default; two are enough where faults are counted. Requests under
different keys meet only in the index of pending records and in the subscription's
status, so the record properties need one key (two keys at Stripe without deaths, 3.9 M states
without liveness, gave the same result). Contract events are a creation, a pause, a
cancellation, each of a later revision and with other lines, and one without a revision
that says active: every case of `shouldApplyShopifyContractEvent` is met in every order.
Billing events of different attempts share the cycle only: one attempt that fails and
one that succeeds meet both kinds of notification and every writer of the cycle. Two
uninstallations let the first be late by a whole installation. A payment that fails and
the unpaid subscription that follows, which ends it here, then the payment that succeeds
and the active subscription that follows, stamped in this order and delivered in any,
meet both stamps of a Stripe subscription in both directions: the later *active* meets a
row that has ended (`Terminal`), the late end meets a row that has a later stamp
(`StatusStale`), and so with the payments. They also meet each way to lose or take over
a claim; invoices do not interact but through the payment stamp. Two events make a
summary, a row that is joined, and a supplement. `MaxFaults` and `MaxCrashes` bound each
disturbance, `MaxCalls` the calls of `/install`; larger ad hoc instances (two faults of
each kind in `RetryRecovery`) gave the same results. `GiftSafety` has a `CONSTRAINT`: it
checks the step by which an exposure happens, and looks no further, since every property
it checks but the types excepts what follows; `GiftFaults` and the proofs go on from
there. The symmetry used is of workers (and of nothing where liveness is checked).
`CHECK_DEADLOCK FALSE` everywhere: a cycle that is finished, a decided job, an event
that is answered has nothing left to do, and no request need come.

Fairness. An invocation continues until it ends or dies (weak fairness of its steps; a
`Crash` or any other fault is never fair). The cron runs for ever and reads the oldest
rows first, so a job that is due again and again is claimed (strong fairness of
`Claim`). Leases, claims, backoffs and the 30 minutes of `recoverStale` pass. Shopify
(through the App) and Stripe send an event again until it is answered with 200 (strong
fairness of `Receive`, since all invocations may be busy; in `LegacyBilling` only of the
payments that succeed, on which alone the liveness there rests); of a billing event one
of the repetitions is enriched by the App, for otherwise a success stays pending by
design. A call of `/install` that was made arrives. Final actions assume that the App
answers a lifecycle call that is repeated for ever; gift decisions assume it of
Shopify's queries. Nothing is assumed about the answers to a payment. A lifecycle caller
that got no final answer repeats its request under the same key, as
`recoverFinalActions` does with the key it recorded; without that, nothing in the code
ends a pending record.

### Properties with a proviso

Some properties hold only as far as the code's locking goes. The model records, in a
variable that no guard of the code reads, that the unprotected case has occurred, and
the property excepts it; TLC refutes each of them without its proviso.

| Proviso | Excepts | Why the code does not protect it |
|---|---|---|
| `exposed`: `"rival"` (`GiftEngine`) | a job that is claimed again while a worker still decides about it | the lease is of a whole batch and of 45 s, a decision of any length, and `processClaimedJob` checks neither status, token nor lease |
| `exposed`: `"unrecorded"` | the statement fails that writes the answer to a commit | the `catch` around the commit requeues the job as if nothing had been added |
| `exposed`: `"misread"` | a commit is answered with 200 and top-level GraphQL errors | only `userErrors` are looked at; concerns `CommittedHasGift` and `ImplementsOneGift` |
| `overrun` (`Lifecycle`) | a call to Stripe that outlasts the 60 s of its record | the record is taken over by age alone; the call has only the SDK's limits |
| `overlap` (`ContractEvents`) | two transactions of one contract in progress at once | Read Committed, no row lock: the later commit writes what it decided by an older read |
| `overlap` (`LegacyBilling`) | two invocations of one subscription at once | the subscription is read at the start of `process`, the patch computed from that |
| `contested` | a claim of an invoice lost while the App was at work | the take-over after 60 s, and the order row that follows any later event |
| `crossed` (`Installation`) | a call of `/install` that finds the row still active | that branch leaves `lastInstalledAt` as it was (run `LateUninstall`) |
| `late` | events that join a row already claimed | the advisory lock orders summaries, not senders |
| `crossed` (`Notifications`) | two reports, or a report and a sending, of one mail | the rank is compared before the transaction, and a sender writes by id |

An exposure needs more than the end of a lease: a decision that outlasts its lease, or a
statement that fails elsewhere, is part of what is checked and proved.

Where overlapping is left in (`SuccessIsComplete`, `ToldIsRecorded`, `AuditedIsPaid`,
`OneFulfiller`, `ToldOnce`, `SuccessIsReal`, `ImplementsFulfilment`), uniqueness
constraints, the claim or the idempotency key are what protects.

### What the violations show

- **RetryPaidCycle.** `seed` skips a cycle that is succeeded, but
  `processClaimedJob` does not look at it: a webhook that records a payment
  between the seed and the claim is followed by a charge.
- **LateUninstall.** The shop is uninstalled and installed again before the
  `app/uninstalled` is processed. `/install` finds the row active, writes the token
  and leaves generation and `lastInstalledAt`; the event then meets every condition
  of the update and deactivates the shop. The test of that name gives the row the
  newer date that this path does not write.

### Other statements that TLC refutes

These are definitions that no run checks, or checks only with a proviso. Each states
what a comment, header or test of the repository says, and TLC refutes it with the
configuration named and the changes given.

| Definition | Configuration | What happens |
|---|---|---|
| `RetryEngine!FinalActionKeepsTerminal` (`retry-engine.service.test.ts:56`) | `RetryPaidCycle`, `FailureAction <- AlwaysCancel`, `Faults = {"contract"}` | `executeFinalAction` decides with the status read before the claim and the App call and updates by id: a contract that expired meanwhile becomes cancelled |
| `GiftEngine!AtMostOneGift` (`subscription-gift-engine.ts:8`) | `GiftSafety`, `Sheltered` without `"unrecorded"` | the `catch` around the commit also catches the failure of the UPDATE that follows it and requeues the job; the next attempt adds a second gift |
| `GiftEngine!AtMostOneGift` (`subscription-gift-engine.ts:5-6`) | `GiftSafety`, `Sheltered` without `"rival"`, `Faults = {}` | `processClaimedJob` reads the row by id and checks neither status, token nor lease: the later jobs of a slow batch are decided although another invocation has taken them over |
| `Lifecycle!TerminalStays` | `LifecycleKeys`, `Keys = {k1, k2}`, `MaxCrashes = 0` | `finalizeLocal` updates by id: a pause that Stripe confirmed before the subscription ended turns it into a paused one; the check for pending actions of other keys does not see an `external_succeeded` record |
| `ContractEvents!EndedStaysEnded` (`shopify-event.service.test.ts:53`) | `ContractOrder`, `MaxFaults = 0` | a transaction that read the mirror before the cancellation is committed writes active after it |
| `ContractEvents!FirstOrderRecorded` (`full-cycle-test-plan.md:13`) | `ContractOrder`, `MaxFaults = 0` | an update of a later revision is faster, the creation is dropped as old, and with it the first order and its gift |
| `LegacyBilling!OneRowPerShopifyOrder` (`WebhookController.ts:219`) | `LegacyOrders`, `MaxFaults = 0` | `orders/create` is faster than the write of the order's id, and links the order a second time |

`GiftSafety` therefore states what does hold: everything, until one of the two.

## 4. Proofs

`RetryEngineProofs` proves, for every set of workers, number of dates, retry
policy, set of faults and number of faults:

| Theorem | Statement |
|---|---|
| `TypeCorrect` | `Spec => []TypeOK` |
| `HandOverCorrect` | `Spec => []EveryJobHandsOver` |
| `FinalActionCorrect` | `Spec => FinalActionRecordedOnce` |
| `OneChargeCorrect` | `ASSUME ~AppMayReject`: `Spec => []AtMostOneCharge` |
| `OrdersCorrect` | `ASSUME ~AppMayReject`: `Spec => []OrdersMatchCharges` |
| `ImplementsBillingCorrect` | `ASSUME ~AppMayReject`: `Spec => ImplementsBilling` |

The argument. None of these is inductive, since what matters happens between a
worker's read and its write. The invariant therefore says what a worker may
believe:

- `HeldJobsExist`: whoever holds a job, or is about to write it, holds one that exists;
- `AnswersHold`: an answer that a worker carries is still true of Shopify (a failure:
  the attempt is declined for good or was never made; a success: it is charged).
  Attempts only go from none to pending to declined or charged, which is why a
  stale answer stays true;
- `ChargesInTurn`: a job with attempt number n + 1 exists only once attempt n was
  declined, hence two attempts that took money cannot coexist;
- `OrdersPaid`: a mirrored order of the engine is of a charged attempt;
- `HandedOver`, `SeedsInventory`, `ActionNeedsFinal`: what must exist beside a row that has ended.

`ImplementsBillingCorrect` is the refinement, action by action. A call of the App asks
or settles, and is in turn by `ChargesInTurn`; a payment that is recorded was charged by
`AnswersHold`. That a decision is the first, and that what is carried out was decided,
needs two facts more: a cycle with a final status has an action (`FinalNeedsAction`), and
so does the cycle of every worker that is about to claim or finish one, however stale its
copy (`FinalizersKnow`). The theorem gives `FinalActionRecordedOnce` again where the App
rejects only what is closed; `FinalActionCorrect` needs no such assumption.

For the gift engine, `GiftEngineProofs` proves for every set of workers and variants,
any number of attempts and any number of the faults allowed:

| Theorem | Statement |
|---|---|
| `TypeCorrect` | `Spec => []TypeOK` |
| `OneGiftCorrect` | `Spec => []AtMostOneGift` |
| `NotForgottenCorrect` | `Spec => []NoGiftForgotten` |
| `CommittedCorrect` | `Spec => []CommittedHasGift` |
| `AttemptsCorrect` | `Spec => []GiftsWithinAttempts` |
| `ImplementsOneGiftCorrect` | `Spec => ImplementsOneGift` |

None assumes anything of the faults or of how long a decision takes; what the
properties except are the exposures of section 3, which only grow. Until there is one,
the invariant says that one worker at a time is
between claim and result (`SoleGiver`); that its job is leased or no longer PENDING,
and followed up by recovery once it is past the intent (`GiverHolds`); and that a
worker which pushes while there is a gift, or one to come, is the one that made it,
on its way to record it (`GiftEnds`). For `CommittedHasGift` it is enough that who is
about to write COMMITTED has seen, or made, a line (`Backed`), and that lines stay.
`AttemptsCorrect` allows statements to fail: its invariant gives every edit the number
of the intent behind it, each number once (`Numbered`), and says what the count of a
requeue and the attempts left are worth at each place (`Counted`); the gifts are then
injected into `1 .. attempts`.

The refinement of `OneGift` needs to know, besides these invariants, that nobody decides
about a job that recovery is after (`Undecided`: its status is still PENDING, or SKIPPED
by the settings), and that a recovery which will write has the job to itself
(`Unrivalled`): it begins with a job untouched for 30 minutes, by when every worker that
was at the order has ended, or with the worker whose own commit got no answer. Then an
intent is a `Try`, a commit an `Add` or a `GiveUp`, a confirmation or a terminal write a
`Say` whose guards are `CommittedHasGift` and `NoGiftForgotten`. All three exposures must
break the promise off: GraphQL errors alone make the word *given* untrue.

For the lifecycle service, `LifecycleProofs` proves for every set of requests, keys
and gateways and any number of deaths:

| Theorem | Statement |
|---|---|
| `TypeCorrect` | `Spec => []TypeOK` |
| `OneHolderCorrect` | `Spec => []OneHolder` |
| `SuccessCorrect` | `Spec => []SuccessIsReal` |
| `ConfirmedCorrect` | `Spec => ConfirmedStays` |

They hold of Shopify, where no call outlasts 60 s, without any exception, and of Stripe
up to the first call that does (`SuccessIsReal` also after it). The invariant `Inv` adds
what makes a holder safe: a record is of the action that its requests ask for
(`RecordsOwn`); of a key that was not overrun, whoever is at the gateway has its
record in progress and fresh (`HoldersInProgress`), so that no recovery can pass
`Recoverable`; whoever is about to recover still has the row it read, or its compare
and swap will fail (`ReadersCurrent`); whoever writes to the subscription has a
record of success (`FinalizersConfirmed`).

For the events of Shopify every step is, to the ingestion's part of the state, one
`IngestionMove` or none; what that does to the types is proved once (`MoveType`) and
repeated at the head of the three modules that extend `EventIngestion`.

| Module | Theorem | Statement |
|---|---|---|
| `ContractEventsProofs` | `TypeCorrect` | `Spec => []TypeOK` |
| | `AcknowledgedApplied` | `Spec => []AcknowledgedIsApplied` |
| | `MirrorNeverBack` | `Spec => NeverBack` |
| `BillingEventsProofs` | `TypeCorrect` | `Spec => []TypeOK` |
| | `AcknowledgedComplete` | `Spec => []SuccessIsComplete` |
| | `ToldRecorded` | `Spec => []ToldIsRecorded` |
| | `AuditedPaid` | `Spec => []AuditedIsPaid` |
| `InstallationProofs` | `TypeCorrect` | `Spec => []TypeOK` |
| | `InactiveCorrect` | `Spec => []InactiveIsUninstalled` |

The invariant of the contract events (`MirrorInv`) says, as long as no two
transactions have overlapped, that the one in progress has read the row as it is, and
that every event which is processed, about to be answered, or answered has been
reached: its revision is not above the mirror's, or the contract has ended. The heart
of it is `CommitForward`: an event that is applied to the row as it is moves it
forward, and one that is refused had nothing new to say. The invariant of the billing
events (`Recorded`) needs no such proviso: orders and gift jobs are never taken back, an
order that was too old stays so, and no writer reopens a cycle that is settled (the
engine's final action may only finalize it), so what was complete when a transaction
committed is complete when it is answered.

The invariant of the installation (`IInv`, which TLC checks on the instance of
`Reinstallation`) is a history of the row. No more installations are written or under
way than were asked for (`Arrived`, part of the types); only events that happened are
known, and an active row has no date of uninstallation (`Known`). An uninstallation that
was answered has left the row inactive, or came before the present installation
(`Answered`). An invocation that captured a generation which is no longer the row's was
overtaken by that installation, or finds the row inactive (`Overtaken`); this is the
condition of the `updateMany` in `Deactivate`. Hence, while no call has crossed an
uninstallation and none is under way, an installed shop is active since after its last
uninstallation (`Settled`), which is the property.

`LegacyBillingProofs` proves, for any events, invoices, invocations and faults:

| Theorem | Statement |
|---|---|
| `TypeCorrect` | `Spec => []TypeOK` |
| `SingleFulfiller` | `Spec => []OneFulfiller` |
| `RowNeverBack` | `Spec => NeverBack` |
| `FulfilmentImplemented` | `Spec => ImplementsFulfilment` |

Its invariant: who is at the App holds the claim of the invoice, or has lost it
(`ClaimHeld`); what is written of an order was made before (`OrderFirst`) and what is
processed is written (`WrittenFirst`); without overlap the row read is the row stored
(`ReadIsStored`). The last theorem is the refinement: initial states map to initial
states, and `StepImplements` maps every step under the invariant to a step of
`InvoiceFulfilment` or to a stutter, by one lemma for each of its three actions.

`NotificationsProofs` proves, for any senders, events, types of report and faults:

| Theorem | Statement |
|---|---|
| `TypeCorrect` | `Spec => []TypeOK` |
| `OnceCorrect` | `Spec => []ToldOnce` |
| `ExactCorrect` | `Spec => []ToldExactly` |
| `ReportsCorrect` | `Spec => []ReportStands` |

The rows partition what is included, a supplement holding the events of its key
(`Rows`), and what the transaction of a summary has read is good enough when it
commits (`SummaryHolds`): the row it creates is still missing, since a supplement of
the same events would make them included. A sender's copy of its row, and what Resend
has accepted, are part of that row and equal to it unless events came late (`Held`,
`Sent`). A report that has not crossed another finds nobody at its row, and what was
applied is never outranked by what is there (`Ranked`): a row with such a status
cannot be claimed again.

In every module each part is preserved by every action, from the type invariant and
the parts before it; the proofs have one step per action or per group of actions that
write the same things. The only assumptions are those on the constants, named in the
modules (`ConstantsAssumption`, `GiftAssumption`, `LifecycleAssumption`,
`IngestionAssumption`, `ContractAssumption`, `BillingAssumption`, `InstallationAssumption`,
`LegacyAssumption`, `NotificationAssumption`), and those a theorem states.

Three theorems are refinements (`FulfilmentImplemented`, `ImplementsBillingCorrect`,
`ImplementsOneGiftCorrect`). Every safety property that a passing run checks is now a
theorem. Only model-checked are the liveness properties (`EveryJobFinishes`,
`EveryFinalActionDone`, `EveryActionSettles`, `EveryJobDecided`, `GiftConfirmed`,
`MirrorConverges`, `EveryEventAnswered`, `ShopConverges`, `EveryPaidInvoiceFulfilled`),
which are out of the prover's reach. `FinalActionRecordedOnce` and `CommittedHasGift`
are the reverse: theorems that no run states by itself, since `ImplementsBilling` and
`ImplementsOneGift`, which the runs check, imply them.

## 5. What could be added

Nothing else in this repository has a protocol of the weight of those modelled; what
would extend the models, in the order of what it would show:

1. Abstract specifications of the lifecycle service, the outbox and the mirror of a
   contract, after the pattern of the three there are.
2. Several billing dates whose successes arrive out of order, for `nextBillingAt`.
3. `CredentialRotation`: a key that is activated while another is cleaned up.
4. Notifications that are sent at once, to several recipients, and the choice of a
   sending domain.
5. The endpoint by which an operator resets a gift job.

## 6. What is abstracted or left out

- **AppMayReject.** `callApp` takes every 4xx other than a timeout for a failure,
  also as the answer to a reconcile. Whether the App can answer so about an attempt
  that charges is not visible in this repository, so the runs and theorems assume
  that it does not, and say so.
- **GraphQL errors at the commit** are modelled (fault `graphql`); `CommittedHasGift`
  and `ImplementsOneGift` except what follows them (`"misread"`), because a 200 answer with
  top-level errors is recorded as COMMITTED although nothing was applied.
- **Proviso variables.** `exposed`, `overrun`, `overlap`, `contested`, `crossed` and
  `late` are no part of
  the program: no guard reads them, they only record that what the code leaves
  unprotected has occurred (section 3).
- **Stripe.** Orders considered are those that carry the properties of a subscription
  of this shop. The manual `PATCH /:id/status`, `nextBillingAt`, amounts and the rows
  of the status history are left out; the App is taken to honour its idempotency key,
  one order for an invoice.
- **Contract and billing events.** Of a contract's fields the status, the revision and
  the lines are kept; customers, addresses and money are not. The billing events of
  one cycle are modelled, and the retry engine only by what it writes to the same
  rows (`EngineSeeds`, `EngineRecords`, `EngineActs`); how it comes to charge is `RetryEngine`.
- **Notifications.** One window, one recipient, summaries only. Rows without a
  recipient, recipients that chose to get none, immediate notifications and those of
  customers go through the same outbox and are left out; so is the look at the sending
  domain, but for the time it takes. Resend is taken to honour its idempotency key.
- **Uninstallation** also turns off the shop's sending domain; the model has the shop's
  row only.
- Several subscriptions or several gift jobs (the limits of 10, 20 and 25 rows per
  run), the texts and payloads of notifications, dates beyond their order, and
  currency are outside.
- The recovery endpoint, sending domains and credentials, the gateways' request
  formats, authentication and routes are not modelled.
