---------------------------- MODULE RetryEngine ----------------------------
(***************************************************************************)
(* The recurring-billing engine of src/retry/RetryEngineService.ts for one *)
(* Shopify subscription: billing cycles, their inventory and payment jobs, *)
(* the workers (overlapping invocations of the retry cron) that claim the  *)
(* jobs under a lease, the Shopify App they call, and the billing and      *)
(* contract webhooks that write the same rows.                             *)
(*                                                                         *)
(* A worker is cut at every await: each action is one database statement,  *)
(* one interactive transaction or one call of the App. What a worker read  *)
(* stays in its record and may be stale when it is written back.           *)
(*                                                                         *)
(* Dates are 1..Cycles; advanceBillingDate is +1. Deadlines appear as      *)
(* steps: LeaseLapses (45 s, counted from the START of a run of up to 25   *)
(* calls of 8 s, so at any moment) and TimePasses (5 minutes or more,      *)
(* longer than an invocation lives, so only with every worker idle).       *)
(***************************************************************************)
EXTENDS Naturals

CONSTANTS
    Workers,             \* invocations of the cron that may overlap
    Cycles,              \* number of billing dates
    MaxRetries,          \* kind -> maxRetries of its jobs
    MaxReconciliations,  \* BillingRetryJob.maxReconciliations
    FailureAction,       \* kind -> the shop's configured failure action
    ContractStatuses,    \* statuses the modelled contract webhooks bring
    AppMayReject,        \* may the App answer 4xx without closing the attempt
    Faults,              \* the disturbances considered: see FaultKinds
    MaxFaults            \* how many of them a behaviour may have

Kinds     == {"INVENTORY", "PAYMENT"}
Actions   == {"PAUSE", "CANCEL", "SKIP"}
Terminal  == {"cancelled", "expired", "failed"}
SubStatus == {"active", "paused"} \cup Terminal

FaultKinds ==
    {"crash",      \* an invocation dies between two of its steps
     "emit",       \* emitting a notification after the commit throws
     "outside",    \* a billing attempt the engine did not make succeeds
     "contract"}   \* the contract's status changes outside the engine

ASSUME ConstantsAssumption ==
    /\ Cycles \in Nat \ {0}
    /\ MaxRetries \in [Kinds -> Nat]
    /\ MaxReconciliations \in Nat \ {0}
    /\ FailureAction \in [Kinds -> Actions]
    /\ ContractStatuses \subseteq SubStatus
    /\ AppMayReject \in BOOLEAN
    /\ Faults \subseteq FaultKinds
    /\ MaxFaults \in Nat

Dates    == 1 .. Cycles
LastTry  == MaxRetries["INVENTORY"] + MaxRetries["PAYMENT"]
NoDate   == 0             \* nextBillingAt is null
Outside  == LastTry + 1   \* an order of a billing attempt the engine did not make

(* Identity of a BillingRetryJob: its unique key, and the idempotency key  *)
(* billingRetryJobKey derives from it.                                     *)
Job            == [cycle : Dates, kind : Kinds, n : 0 .. LastTry]
FirstJob(c, k) == [cycle |-> c, kind |-> k, n |-> 0]
Next_(j)       == [j EXCEPT !.n = @ + 1]
Payment(c, n)  == [cycle |-> c, kind |-> "PAYMENT", n |-> n]

VARIABLES
    today,         \* the latest billing date that is due
    subscription,  \* Subscription: status, nextBillingAt
    cycle,         \* date -> BillingRetryCycle
    job,           \* Job -> BillingRetryJob
    orders,        \* date -> attempts whose SubscriptionOrder is mirrored
    complete,      \* dates with a complete, succeeded SubscriptionBillingAttempt
    charge,        \* Job -> Shopify's billing attempt for its idempotency key
    worker,        \* worker -> where it stands and what it has read
    faults         \* disturbances so far

vars == <<today, subscription, cycle, job, orders, complete, charge, worker, faults>>

JobRow == [status : {"absent", "PENDING", "CLAIMED", "UNCERTAIN", "SUCCEEDED",
                     "FAILED", "EXHAUSTED", "SKIPPED"},
           due : BOOLEAN, leased : BOOLEAN, uncertain : BOOLEAN, recon : Nat]
NoJob     == [status |-> "absent", due |-> FALSE, leased |-> FALSE,
              uncertain |-> FALSE, recon |-> 0]
NewJob(d) == [NoJob EXCEPT !.status = "PENDING", !.due = d]

CycleRow == [status : {"absent", "pending", "succeeded", "skipped", "finalized"},
             final : {"none", "pending", "processing", "succeeded"},
             leased : BOOLEAN, action : Actions \cup {"none"}, advanced : BOOLEAN]
NoCycle  == [status |-> "absent", final |-> "none", leased |-> FALSE,
             action |-> "none", advanced |-> FALSE]

WorkerState == [pc : {"idle", "seedJob", "claimed", "skip", "call",
                      "answered", "exception", "finalClaim", "finalCall",
                      "finalWrite"},
                task : Job, uncertain : BOOLEAN, recon : Nat,
                answer : {"none", "available", "succeeded", "incomplete",
                          "failed", "uncertain", "error"},
                status : SubStatus, advanced : BOOLEAN]
Idle == [pc |-> "idle", task |-> FirstJob(1, "INVENTORY"), uncertain |-> FALSE,
         recon |-> 0, answer |-> "none", status |-> "active", advanced |-> FALSE]

ChargeState == {"none", "pending", "declined", "charged"}

TypeOK ==
    /\ today \in Dates
    /\ subscription \in [status : SubStatus, nextBillingAt : 0 .. Cycles + 1]
    /\ cycle \in [Dates -> CycleRow]
    /\ job \in [Job -> JobRow]
    /\ orders \in [Dates -> SUBSET (0 .. Outside)]
    /\ complete \subseteq Dates
    /\ charge \in [Job -> ChargeState]
    /\ worker \in [Workers -> WorkerState]
    /\ faults \in 0 .. MaxFaults

Init ==
    /\ today = 1
    /\ subscription = [status |-> "active", nextBillingAt |-> 1]
    /\ cycle = [c \in Dates |-> NoCycle]
    /\ job = [j \in Job |-> NoJob]
    /\ orders = [c \in Dates |-> {}]
    /\ complete = {}
    /\ charge = [j \in Job |-> "none"]
    /\ worker = [w \in Workers |-> Idle]
    /\ faults = 0

-----------------------------------------------------------------------------
At(w, pc)    == worker[w].pc = pc
Goto(w, pc)  == worker' = [worker EXCEPT ![w].pc = pc]
Rest(w)      == worker' = [worker EXCEPT ![w] = Idle]
Start(w, pc, j) == worker' = [worker EXCEPT ![w] = [Idle EXCEPT !.pc = pc, !.task = j]]

Finished(j, status) == [job[j] EXCEPT !.status = status, !.leased = FALSE, !.due = FALSE]

(* Variants of WithFinalAction with a bug: the guard is dropped; only the  *)
(* payment chain records an action.                                        *)
WithFinalActionAgain(j) ==
    [cycle EXCEPT ![j.cycle] = [@ EXCEPT !.final = "pending",
                                         !.action = FailureAction[j.kind]]]
WithFinalActionOfPayment(j) ==
    IF j.kind = "PAYMENT" /\ cycle[j.cycle].final = "none"
    THEN WithFinalActionAgain(j) ELSE cycle

(* finalAction is recorded once: updateMany where finalActionStatus is none. *)
WithFinalAction(j) ==
    IF cycle[j.cycle].final = "none"
    THEN [cycle EXCEPT ![j.cycle] = [@ EXCEPT !.final = "pending",
                                              !.action = FailureAction[j.kind]]]
    ELSE cycle

(* The unique index BillingRetryJob_one_actionable_kind_per_cycle_key       *)
(* refuses a write that opens a second job of a cycle's chain.             *)
OpenStatus   == {"PENDING", "CLAIMED", "UNCERTAIN"}
OtherOpen(j) == \E i \in Job : /\ i.cycle = j.cycle /\ i.kind = j.kind /\ i # j
                              /\ job[i].status \in OpenStatus

Fault(kind) == kind \in Faults /\ faults < MaxFaults /\ faults' = faults + 1

-----------------------------------------------------------------------------
(* seed: a due, active subscription gets the cycle of its billing date and *)
(* then that cycle's first inventory job.                                  *)

SeedCycle(w) ==
    LET c   == subscription.nextBillingAt
        row == [cycle[c] EXCEPT !.status = IF c \in complete THEN "succeeded"
                                           ELSE IF @ = "absent" THEN "pending" ELSE @]
    IN  /\ At(w, "idle")
        /\ subscription.status = "active"
        /\ c \in 1 .. today
        /\ cycle' = [cycle EXCEPT ![c] = row]
        /\ IF row.status = "succeeded" THEN Rest(w)
           ELSE Start(w, "seedJob", FirstJob(c, "INVENTORY"))
        /\ UNCHANGED <<today, subscription, job, orders, complete, charge, faults>>

SeedJob(w) ==
    /\ At(w, "seedJob")
    /\ job' = [job EXCEPT ![worker[w].task] =
                 IF @.status = "absent" THEN NewJob(TRUE) ELSE @]
    /\ Rest(w)
    /\ UNCHANGED <<today, subscription, cycle, orders, complete, charge, faults>>

-----------------------------------------------------------------------------
(* run and processClaimedJob: claim, read, call the App, write the result. *)

Claimable(j) ==
    \/ job[j].status \in {"PENDING", "UNCERTAIN"} /\ job[j].due
    \/ job[j].status = "CLAIMED" /\ ~job[j].leased

Claim(w, j) ==
    /\ At(w, "idle")
    /\ Claimable(j)
    /\ job' = [job EXCEPT ![j] = [@ EXCEPT !.status = "CLAIMED", !.leased = TRUE]]
    /\ Start(w, "claimed", j)
    /\ UNCHANGED <<today, subscription, cycle, orders, complete, charge, faults>>

(* The job and its subscription as processClaimedJob reads them. *)
ReadJob(w) ==
    LET row == job[worker[w].task]
    IN  /\ At(w, "claimed")
        /\ worker' = [worker EXCEPT ![w] =
              [@ EXCEPT !.pc = IF subscription.status = "active" THEN "call" ELSE "skip",
                        !.uncertain = row.uncertain, !.recon = row.recon]]
        /\ UNCHANGED <<today, subscription, cycle, job, orders, complete, charge, faults>>

SkipJob(w) ==
    /\ At(w, "skip")
    /\ job' = [job EXCEPT ![worker[w].task] = Finished(worker[w].task, "SKIPPED")]
    /\ Rest(w)
    /\ UNCHANGED <<today, subscription, cycle, orders, complete, charge, faults>>

(* Only an uncertain answer uses the counters that were read before it. *)
Answer(w, a) ==
    worker' = [worker EXCEPT ![w] =
       [@ EXCEPT !.pc = "answered", !.answer = a,
                 !.uncertain = (a = "uncertain") /\ worker[w].uncertain,
                 !.recon = IF a = "uncertain" THEN worker[w].recon ELSE 0]]

CallInventory(w) ==
    /\ At(w, "call")
    /\ worker[w].task.kind = "INVENTORY"
    /\ \E a \in {"available", "failed", "uncertain"} : Answer(w, a)
    /\ UNCHANGED <<today, subscription, cycle, job, orders, complete, charge, faults>>

(* Variants of Report with a bug: "pending" is not seen as uncertain; the  *)
(* status of a success is not looked at.                                   *)
ReportPendingAsFailure(s) ==
    IF s = "pending" THEN {"failed"} ELSE IF s = "charged" THEN {"succeeded"}
    ELSE IF s = "declined" THEN {"failed"} ELSE {"uncertain"}
ReportPendingAsSuccess(s) ==
    IF s \in {"pending", "charged"} THEN {"succeeded"}
    ELSE IF s = "declined" THEN {"failed"} ELSE {"uncertain"}

(* What the App may answer of an attempt in state s. A timeout, a network  *)
(* error, a 5xx and "pending" are all uncertain; any 4xx is a failure.     *)
Report(s) ==
    {"uncertain"}
      \cup (IF s = "charged" THEN {"succeeded", "incomplete"} ELSE {})
      \cup (IF s = "declined" \/ AppMayReject THEN {"failed"} ELSE {})

(* operation "charge" starts the attempt of its idempotency key, or finds  *)
(* it started; "reconcile" only looks, and closes a key never started.     *)
Outcomes(s, uncertain) ==
    IF s # "none" THEN {s} ELSE IF uncertain THEN {"none", "declined"} ELSE ChargeState

CallPayment(w) ==
    LET j == worker[w].task
    IN  /\ At(w, "call")
        /\ j.kind = "PAYMENT"
        /\ \E s \in Outcomes(charge[j], worker[w].uncertain) :
              /\ charge' = [charge EXCEPT ![j] = s]
              /\ \E a \in Report(s) : Answer(w, a)
        /\ UNCHANGED <<today, subscription, cycle, job, orders, complete, faults>>

InventorySucceeded(w) ==
    LET j == worker[w].task
        p == FirstJob(j.cycle, "PAYMENT")
    IN  /\ At(w, "answered")
        /\ worker[w].answer = "available"
        /\ job' = [job EXCEPT ![j] = Finished(j, "SUCCEEDED"),
                              ![p] = IF @.status = "absent" THEN NewJob(TRUE) ELSE @]
        /\ Rest(w)
        /\ UNCHANGED <<today, subscription, cycle, orders, complete, charge, faults>>

(* After a commit the worker emits the notification inside the same try: a *)
(* failure there is handled like a failure of the job.                     *)
CommittedThenEmit(w) ==
    \/ Rest(w) /\ UNCHANGED faults
    \/ Goto(w, "exception") /\ Fault("emit")

(* One transaction; only the writer that completes the cycle advances the  *)
(* billing date. An answer without the ids throws before it.               *)
PaymentSucceeded(w) ==
    LET j == worker[w].task
        c == j.cycle
    IN  /\ At(w, "answered")
        /\ worker[w].answer = "succeeded"
        /\ job' = [job EXCEPT ![j] = Finished(j, "SUCCEEDED")]
        /\ orders' = [orders EXCEPT ![c] = @ \cup {j.n}]
        /\ cycle' = [cycle EXCEPT ![c].status = "succeeded"]
        /\ subscription' = IF cycle[c].status = "succeeded" THEN subscription
                           ELSE [subscription EXCEPT !.nextBillingAt = c + 1]
        /\ CommittedThenEmit(w)
        /\ UNCHANGED <<today, complete, charge>>

IncompleteSuccess(w) ==
    /\ At(w, "answered")
    /\ worker[w].answer = "incomplete"
    /\ Goto(w, "exception")
    /\ UNCHANGED <<today, subscription, cycle, job, orders, complete, charge, faults>>

(* reconciliationCount + 1; the variant with a bug forgets the count read. *)
NextCountForgotten(w) == 1
NextCount(w)          == worker[w].recon + 1

(* late: the one-hour window opened by the first uncertainty is over. *)
HandleUncertain(w) ==
    LET j     == worker[w].task
        count == NextCount(w)
    IN  /\ At(w, "answered")
        /\ worker[w].answer \in {"uncertain", "error"}
        /\ \E late \in {FALSE, worker[w].uncertain} :
             LET over == late \/ count >= MaxReconciliations
             IN  /\ over \/ ~OtherOpen(j)
                 /\ job' = [job EXCEPT ![j] =
                       [Finished(j, IF over THEN "EXHAUSTED" ELSE "UNCERTAIN")
                          EXCEPT !.uncertain = TRUE, !.recon = count]]
                 /\ cycle' = IF over THEN WithFinalAction(j) ELSE cycle
        /\ Rest(w)
        /\ UNCHANGED <<today, subscription, orders, complete, charge, faults>>

(* markUncertain reopens a job that ended while this worker was late; the   *)
(* index refuses it when the chain has another open job. The first refusal  *)
(* is handled as an exception, one in its handler ends the invocation.      *)
ReopeningRefused(w) ==
    /\ At(w, "answered")
    /\ worker[w].answer \in {"uncertain", "error"}
    /\ NextCount(w) < MaxReconciliations
    /\ OtherOpen(worker[w].task)
    /\ \/ worker[w].answer = "uncertain" /\ Goto(w, "exception")
       \/ worker[w].answer = "error" /\ Rest(w)
    /\ UNCHANGED <<today, subscription, cycle, job, orders, complete, charge, faults>>

(* nextRetry decides; the failed job and its successor are one transaction, *)
(* rolled back when the successor exists or the chain has another open job. *)
FailOrReschedule(w) ==
    LET j    == worker[w].task
        over == j.n >= MaxRetries[j.kind]
    IN  /\ At(w, "answered")
        /\ worker[w].answer = "failed"
        /\ \/ /\ over
              /\ job' = [job EXCEPT ![j] = Finished(j, "EXHAUSTED")]
              /\ cycle' = WithFinalAction(j)
              /\ CommittedThenEmit(w)
           \/ /\ ~over
              /\ job[Next_(j)].status = "absent" /\ ~OtherOpen(j)
              /\ job' = [job EXCEPT ![j] = Finished(j, "FAILED"),
                                    ![Next_(j)] = NewJob(FALSE)]
              /\ CommittedThenEmit(w)
              /\ UNCHANGED cycle
           \/ /\ ~over
              /\ job[Next_(j)].status # "absent" \/ OtherOpen(j)
              /\ Goto(w, "exception")
              /\ UNCHANGED <<job, cycle, faults>>
        /\ UNCHANGED <<today, subscription, orders, complete, charge>>

(* handleWorkerException reads the job again, whatever its status is now,  *)
(* and goes on as if the App's answer were uncertain.                      *)
HandleWorkerException(w) ==
    LET row == job[worker[w].task]
    IN  /\ At(w, "exception")
        /\ worker' = [worker EXCEPT ![w] =
              [@ EXCEPT !.pc = "answered", !.answer = "error",
                        !.uncertain = row.uncertain, !.recon = row.recon]]
        /\ UNCHANGED <<today, subscription, cycle, job, orders, complete, charge, faults>>

-----------------------------------------------------------------------------
(* recoverFinalActions and executeFinalAction. *)

(* The variant with a bug leaves what a dead invocation had claimed. *)
FinalActionPending(c) == cycle[c].final = "pending"

FinalActionDue(c) ==
    \/ cycle[c].final = "pending"
    \/ cycle[c].final = "processing" /\ ~cycle[c].leased

ReadFinalAction(w, c) ==
    /\ At(w, "idle")
    /\ FinalActionDue(c)
    /\ worker' = [worker EXCEPT ![w] =
          [Idle EXCEPT !.pc = "finalClaim", !.task = FirstJob(c, "INVENTORY"),
                       !.status = subscription.status, !.advanced = cycle[c].advanced]]
    /\ UNCHANGED <<today, subscription, cycle, job, orders, complete, charge, faults>>

ClaimFinalAction(w) ==
    LET c == worker[w].task.cycle
    IN  /\ At(w, "finalClaim")
        /\ IF FinalActionDue(c)
           THEN /\ cycle' = [cycle EXCEPT ![c] = [@ EXCEPT !.final = "processing",
                                                           !.leased = TRUE]]
                /\ Goto(w, "finalCall")
           ELSE Rest(w) /\ UNCHANGED cycle
        /\ UNCHANGED <<today, subscription, job, orders, complete, charge, faults>>

(* The lifecycle call, when the status read before the claim asks for one. *)
(* It refuses to pause a subscription that is terminal by now, and any     *)
(* error leaves the action to whoever finds its lease expired.             *)
LifecycleNeeded(w) ==
    LET a    == cycle[worker[w].task.cycle].action
        seen == worker[w].status
    IN  \/ a = "PAUSE" /\ seen = "active"
        \/ a = "CANCEL" /\ seen \notin Terminal

LifecycleDone(w) ==
    /\ At(w, "finalCall")
    /\ LifecycleNeeded(w) => ~( /\ cycle[worker[w].task.cycle].action = "PAUSE"
                               /\ subscription.status \in Terminal )
    /\ Goto(w, "finalWrite")
    /\ UNCHANGED <<today, subscription, cycle, job, orders, complete, charge, faults>>

LifecycleFailed(w) ==
    /\ At(w, "finalCall")
    /\ LifecycleNeeded(w)
    /\ Rest(w)
    /\ UNCHANGED <<today, subscription, cycle, job, orders, complete, charge, faults>>

(* advanceBillingDate from the cycle's date, unless the cycle that was read *)
(* had its date advanced; the variant with a bug counts from the current    *)
(* date of the subscription.                                                *)
AfterSkipDrifting(c, advanced) == subscription.nextBillingAt + 1
AfterSkip(c, advanced) == IF advanced THEN subscription.nextBillingAt ELSE c + 1

FinalizeCycle(w) ==
    LET c    == worker[w].task.cycle
        a    == cycle[c].action
        skip == a = "SKIP"
        status == IF a = "PAUSE" /\ subscription.status \notin Terminal THEN "paused"
                  ELSE IF a = "CANCEL" /\ worker[w].status \notin Terminal THEN "cancelled"
                  ELSE subscription.status
    IN  /\ At(w, "finalWrite")
        /\ subscription' =
             [status |-> status,
              nextBillingAt |-> IF skip THEN AfterSkip(c, worker[w].advanced)
                                ELSE subscription.nextBillingAt]
        /\ cycle' = [cycle EXCEPT ![c] =
             [@ EXCEPT !.status = IF skip THEN "skipped" ELSE "finalized",
                       !.final = "succeeded", !.leased = FALSE,
                       !.advanced = skip \/ worker[w].advanced]]
        /\ Rest(w)
        /\ UNCHANGED <<today, job, orders, complete, charge, faults>>

-----------------------------------------------------------------------------
(* What happens to the engine: crashes, time, Shopify and its webhooks. *)

Crash(w) ==
    /\ ~At(w, "idle")
    /\ Fault("crash")
    /\ Rest(w)
    /\ UNCHANGED <<today, subscription, cycle, job, orders, complete, charge>>

LeaseLapses(j) ==
    /\ job[j].leased
    /\ job' = [job EXCEPT ![j].leased = FALSE]
    /\ UNCHANGED <<today, subscription, cycle, orders, complete, charge, worker, faults>>

FinalLeaseLapses(c) ==
    /\ cycle[c].leased
    /\ cycle' = [cycle EXCEPT ![c].leased = FALSE]
    /\ UNCHANGED <<today, subscription, job, orders, complete, charge, worker, faults>>

TimePasses ==
    /\ \A w \in Workers : At(w, "idle")
    /\ job' = [j \in Job |-> [job[j] EXCEPT !.due = @ \/ job[j].status \in {"PENDING", "UNCERTAIN"}]]
    /\ today' \in {today, today + 1} \cap Dates
    /\ UNCHANGED <<subscription, cycle, orders, complete, charge, worker, faults>>

Settle(j) ==
    /\ charge[j] = "pending"
    /\ \E s \in {"declined", "charged"} : charge' = [charge EXCEPT ![j] = s]
    /\ UNCHANGED <<today, subscription, cycle, job, orders, complete, worker, faults>>

(* recordBillingAttempt on a complete success for date c: of an attempt of *)
(* the engine, or of one made outside it. It may be late or repeated.      *)
RecordBillingAttempt(c) ==
    /\ \E n \in 0 .. Outside :
         /\ IF n = Outside THEN Fault("outside")
            ELSE charge[Payment(c, n)] = "charged" /\ UNCHANGED faults
         /\ orders' = [orders EXCEPT ![c] = @ \cup {n}]
    /\ complete' = complete \cup {c}
    /\ \E dated \in BOOLEAN :
         /\ cycle' = [cycle EXCEPT ![c] = [@ EXCEPT !.status = "succeeded",
                                                    !.advanced = dated]]
         /\ subscription' = IF dated THEN [subscription EXCEPT !.nextBillingAt = c + 1]
                            ELSE subscription
    /\ UNCHANGED <<today, job, charge, worker>>

(* A contract event: the customer, the merchant or Shopify moved the       *)
(* subscription, and may have given it another billing date. A terminal    *)
(* one is not revived and has no date.                                     *)
ContractWebhook ==
    /\ \E s \in ContractStatuses, d \in {subscription.nextBillingAt} \cup Dates :
          /\ subscription.status \in Terminal => s \in Terminal
          /\ subscription' = [status |-> s,
                              nextBillingAt |-> IF s \in Terminal THEN NoDate ELSE d]
    /\ Fault("contract")
    /\ UNCHANGED <<today, cycle, job, orders, complete, charge, worker>>

-----------------------------------------------------------------------------
Begin(w) ==
    \/ SeedCycle(w)
    \/ \E j \in Job : Claim(w, j)
    \/ \E c \in Dates : ReadFinalAction(w, c)

(* What an invocation does once it has begun: it runs on until it dies. *)
Continue(w) ==
    \/ SeedJob(w)
    \/ ReadJob(w) \/ SkipJob(w)
    \/ CallInventory(w) \/ CallPayment(w)
    \/ InventorySucceeded(w) \/ PaymentSucceeded(w) \/ IncompleteSuccess(w)
    \/ HandleUncertain(w) \/ ReopeningRefused(w) \/ FailOrReschedule(w)
    \/ HandleWorkerException(w)
    \/ ClaimFinalAction(w) \/ LifecycleDone(w) \/ LifecycleFailed(w)
    \/ FinalizeCycle(w)

Environment ==
    \/ \E w \in Workers : Crash(w)
    \/ \E j \in Job : LeaseLapses(j) \/ Settle(j)
    \/ \E c \in Dates : FinalLeaseLapses(c) \/ RecordBillingAttempt(c)
    \/ TimePasses
    \/ ContractWebhook

Next == (\E w \in Workers : Begin(w) \/ Continue(w)) \/ Environment

Spec == Init /\ [][Next]_vars

(* The cron keeps running. Its query takes the oldest due jobs first and a *)
(* job it leaves open is due later again, so a job that stays due is       *)
(* claimed (SF); leases and waits run out; the App is not down for ever    *)
(* when a final action is retried. Nothing is assumed of what the App      *)
(* answers about a payment, nor of Shopify, webhooks and crashes.          *)
FairSpec ==
    /\ Spec
    /\ \A w \in Workers :
          /\ WF_vars(Continue(w))
          /\ SF_vars(LifecycleDone(w))
          /\ \A j \in Job : SF_vars(Claim(w, j))
          /\ \A c \in Dates : SF_vars(ReadFinalAction(w, c))
    /\ \A j \in Job : WF_vars(LeaseLapses(j))
    /\ \A c \in Dates : WF_vars(FinalLeaseLapses(c))
    /\ SF_vars(TimePasses)
-----------------------------------------------------------------------------
(* Payment attempts that took, or may still take, the customer's money. *)
Live(j) == charge[j] \in {"pending", "charged"}

(* Retries, lost answers, expired leases and crashes never leave one cycle  *)
(* with two of the engine's attempts that took or may take money: a new     *)
(* idempotency key is used only when the previous one was declined for good. *)
AtMostOneCharge ==
    \A i, j \in Job : i.cycle = j.cycle /\ Live(i) /\ Live(j) => i = j

(* Every order mirrored for an attempt of the engine is one Shopify charged, *)
(* no cycle has two, and a succeeded cycle has its order.                    *)
OrdersMatchCharges ==
    \A c \in Dates :
        /\ \A n \in orders[c] \ {Outside} :
              charge[Payment(c, n)] = "charged"
        /\ \A m, n \in orders[c] \ {Outside} : m = n
        /\ cycle[c].status = "succeeded" => orders[c] # {}

(* No job ends without leaving what comes next: a failed job its successor, *)
(* a stocked cycle its payment job, an exhausted job the final action of    *)
(* its cycle, a paid job a cycle that is succeeded or was finally acted on. *)
EveryJobHandsOver ==
    \A j \in Job :
        CASE job[j].status = "FAILED"    -> job[Next_(j)].status # "absent"
          [] job[j].status = "EXHAUSTED" -> cycle[j.cycle].final # "none"
          [] job[j].status = "SUCCEEDED" ->
               IF j.kind = "INVENTORY"
               THEN job[FirstJob(j.cycle, "PAYMENT")].status # "absent"
               ELSE \/ cycle[j.cycle].status = "succeeded"
                    \/ cycle[j.cycle].final = "succeeded"
          [] OTHER -> TRUE

(* The inventory and the payment chain of a cycle may both run out, each    *)
(* with its own action: the first recorded action stays, and once done it   *)
(* is never done again by a worker that was late.                           *)
FinalActionRecordedOnce ==
    [][\A c \in Dates :
         /\ cycle[c].action # "none" => cycle'[c].action = cycle[c].action
         /\ cycle[c].final = "succeeded" => cycle'[c].final = "succeeded"]_vars

(* What the engine promises of every billing date, in words of Shopify's    *)
(* attempts, the orders and the cycles only: see CycleBilling. It is kept   *)
(* with an App that answers "failed" only of an attempt that is closed.     *)
Attempts  == [c \in Dates |-> [n \in 0 .. LastTry |-> charge[Payment(c, n)]]]
PaidDates == {c \in Dates : cycle[c].status = "succeeded"}
ActionOf  == [c \in Dates |-> cycle[c].action]
DoneDates == {c \in Dates : cycle[c].final = "succeeded"}

Promise == INSTANCE CycleBilling WITH
    Tries  <- 0 .. LastTry,
    charge <- Attempts,
    booked <- orders,
    paid   <- PaidDates,
    action <- ActionOf,
    done   <- DoneDates

ImplementsBilling == Promise!Spec

(* Every job the engine opened comes to a result, whatever the App answers  *)
(* and however often an invocation dies: uncertain answers are counted, and *)
(* an expired lease gives the job to the next invocation.                   *)
Open(j) == job[j].status \in OpenStatus
EveryJobFinishes == \A j \in Job : Open(j) ~> ~Open(j)

(* A final action once recorded is eventually carried out, also when the    *)
(* invocation that claimed it dies or its lifecycle call fails.             *)
EveryFinalActionDone ==
    \A c \in Dates : cycle[c].final # "none" ~> cycle[c].final = "succeeded"

(* A cycle that is already succeeded is not charged: the cron "skips a      *)
(* billing cycle already succeeded". The code looks at the cycle when it    *)
(* seeds, but not when it processes a job seeded before.                    *)
PaidCycleNotCharged ==
    [][\A j \in Job : charge[j] = "none" /\ Live(j)'
                        => cycle[j.cycle].status # "succeeded"]_vars

(* A "recovered final action never revives or rewrites terminal             *)
(* subscription". The cancel branch decides by the status read before the   *)
(* claim and writes by id.                                                  *)
FinalActionKeepsTerminal ==
    [][(\E w \in Workers : At(w, "finalWrite") /\ FinalizeCycle(w))
          /\ subscription.status \in Terminal
          => subscription'.status = subscription.status]_vars
=============================================================================
