----------------------------- MODULE GiftEngine -----------------------------
(***************************************************************************)
(* The gift of one order: src/gifts/subscription-gift-engine.ts working on *)
(* the one SubscriptionGiftJob that the ingestion of a billing webhook     *)
(* enqueues for (shop, order), together with the merchant's settings, the  *)
(* shop's installation and the order as Shopify keeps it.                  *)
(*                                                                         *)
(* A worker is an invocation of the gift cron or of the trigger behind the *)
(* webhook. The 12 s deadline of a job only stops WAITING for it: the      *)
(* decision itself runs on, so a worker here is the decision, not the      *)
(* request that started it. Other jobs of a claimed batch are outside.     *)
(***************************************************************************)
EXTENDS Naturals, FiniteSets

CONSTANTS
    Workers,       \* decisions and recoveries that may overlap
    Variants,      \* product variants the settings may choose from
    NoVariant,     \* no variant chosen yet
    OwnVariants,   \* those the customer bought, and paid for, on the order
    MaxAttempts,   \* SubscriptionGiftJob.maxAttempts
    Faults,        \* the disturbances considered: see FaultKinds
    MaxFaults      \* how often each of them may happen in a behaviour

FaultKinds == {"crash",     \* an invocation dies between two of its steps
               "db",        \* a statement on the job fails
               "graphql"}   \* the commit is answered 200 with GraphQL errors

ASSUME GiftAssumption ==
    /\ NoVariant \notin Variants
    /\ OwnVariants \subseteq Variants
    /\ MaxAttempts \in Nat \ {0}
    /\ Faults \subseteq FaultKinds
    /\ MaxFaults \in Nat

VARIABLES
    job,       \* the SubscriptionGiftJob
    shop,      \* is the installation the job was made under still active
    settings,  \* what SubscriptionGiftSettings say of this order
    sweep,     \* a save that disabled gifts has yet to skip pending jobs
    order,     \* the order at Shopify: open, its gift lines, edits to come
    worker,    \* worker -> where it stands and what it has read
    faults,    \* kind -> how often it happened so far
    exposed    \* which Exposures happened so far; nothing reads it

vars == <<job, shop, settings, sweep, order, worker, faults, exposed>>

(* What the engine's promises about the gift except.                       *)
Exposures == {"rival",       \* the lease of the job ended before the decision
                             \* it protects, and another worker claimed it
              "unrecorded",  \* the answer to a commit could not be written
              "misread"}     \* GraphQL errors were taken for a commit

Closed  == {"SKIPPED", "FAILED", "COMMITTED"}
Decided == Closed \cup {"UNCERTAIN"}

(* variant # NoVariant is also commitIntentPersistedAt: one statement sets *)
(* both and none clears them. Deadlines are Booleans: leased until         *)
(* leaseExpiresAt, waiting until availableAt, old when updatedAt is 30     *)
(* minutes back; review and reviewed are reviewRequiredAt and reviewedAt.  *)
JobRow == [status : {"absent", "PENDING", "COMMIT_PENDING"} \cup Decided,
           leased : BOOLEAN, waiting : BOOLEAN, old : BOOLEAN,
           review : BOOLEAN, reviewed : BOOLEAN,
           attempts : Nat, variant : Variants \cup {NoVariant}]
NoJob  == [status |-> "absent", leased |-> FALSE, waiting |-> FALSE, old |-> FALSE,
           review |-> FALSE, reviewed |-> FALSE, attempts |-> 0, variant |-> NoVariant]

(* An order edit: the attempt that made it, the variant it adds for free. *)
Edit == [n : Nat, v : Variants]

Deciding == {"read", "shop", "settings", "order", "stock", "intent", "skip"}
Editing  == {"edit", "commit", "close", "uncertain", "scope", "requeue"}
Pushing  == Deciding \cup Editing
Checking == {"find", "confirm", "query", "free", "charged", "mark"}

WorkerState == [pc : {"idle"} \cup Deciding \cup Editing \cup Checking,
                attempts : Nat,                     \* attemptCount as read
                edit : Nat,                         \* the same as Read saw it; its attempt
                variant : Variants \cup {NoVariant},
                result : {"none"} \cup Closed,      \* status about to be written
                review : BOOLEAN,                   \* with reviewRequiredAt
                recovering : BOOLEAN]               \* inside recoverStale
Idle == [pc |-> "idle", attempts |-> 0, edit |-> 0, variant |-> NoVariant,
         result |-> "none", review |-> FALSE, recovering |-> FALSE]

TypeOK ==
    /\ job \in JobRow
    /\ job.attempts = 0 <=> job.variant = NoVariant
    /\ shop \in BOOLEAN
    /\ settings \in {"offer", "mismatch", "disabled"}
    /\ sweep \in BOOLEAN
    /\ order \in [open : BOOLEAN, lines : SUBSET Edit, coming : SUBSET Edit]
    /\ worker \in [Workers -> WorkerState]
    /\ faults \in [FaultKinds -> 0 .. MaxFaults]
    /\ exposed \subseteq Exposures

Init ==
    /\ job = NoJob
    /\ shop = TRUE
    /\ settings = "offer"
    /\ sweep = FALSE
    /\ order = [open |-> TRUE, lines |-> {}, coming |-> {}]
    /\ worker = [w \in Workers |-> Idle]
    /\ faults = [k \in FaultKinds |-> 0]
    /\ exposed = {}

-----------------------------------------------------------------------------
At(w, pc)   == worker[w].pc = pc
Goto(w, pc) == worker' = [worker EXCEPT ![w].pc = pc]
Rest(w)     == worker' = [worker EXCEPT ![w] = Idle]
Fault(kind) == /\ kind \in Faults /\ faults[kind] < MaxFaults
               /\ faults' = [faults EXCEPT ![kind] = @ + 1]

(* The status and review flag the worker writes next, and at which step. *)
Conclude(w, pc, status, review) ==
    worker' = [worker EXCEPT ![w] = [@ EXCEPT !.pc = pc, !.result = status,
                                              !.review = review]]

OnlyWorker == UNCHANGED <<job, shop, settings, sweep, order, faults, exposed>>
OnlyJob    == UNCHANGED <<shop, settings, sweep, order, faults, exposed>>

-----------------------------------------------------------------------------
(* enqueueGiftJob: an upsert that changes nothing when the job is there. *)
Enqueue ==
    /\ shop
    /\ job.status = "absent"
    /\ job' = [job EXCEPT !.status = "PENDING"]
    /\ OnlyJob /\ UNCHANGED worker

(* claimJobs leases EVERY available job but reads back only limit of them: *)
(* the job may be leased with nobody to process it. Whoever decided about  *)
(* it before may still be doing so.                                        *)
Claim(w) ==
    /\ At(w, "idle")
    /\ job.status = "PENDING" /\ ~job.leased /\ ~job.waiting
    /\ job' = [job EXCEPT !.leased = TRUE, !.old = FALSE]
    /\ \/ /\ worker' = [worker EXCEPT ![w] =
                          [Idle EXCEPT !.pc = "read", !.attempts = job.attempts]]
          /\ exposed' = IF \E v \in Workers : worker[v].pc \in Pushing
                        THEN exposed \cup {"rival"} ELSE exposed
       \/ UNCHANGED <<worker, exposed>>
    /\ UNCHANGED <<shop, settings, sweep, order, faults>>

(* processClaimedJob reads the row again, whatever its status is by now. *)
Read(w) ==
    /\ At(w, "read")
    /\ worker' = [worker EXCEPT ![w] = [@ EXCEPT !.pc = "shop", !.edit = job.attempts]]
    /\ OnlyWorker

CheckShop(w) ==
    /\ At(w, "shop")
    /\ IF shop THEN Goto(w, "settings") ELSE Conclude(w, "skip", "SKIPPED", FALSE)
    /\ OnlyWorker

CheckSettings(w) ==
    /\ At(w, "settings")
    /\ IF settings = "offer" THEN Goto(w, "order")
       ELSE Conclude(w, "skip", "SKIPPED", FALSE)
    /\ OnlyWorker

(* A closed order (cancelled, fulfilled, not paid) is skipped; one that is *)
(* not found is failed and put under review.                               *)
FetchOrder(w) ==
    /\ At(w, "order")
    /\ IF order.open THEN Goto(w, "stock")
       ELSE \/ Conclude(w, "skip", "SKIPPED", FALSE)
            \/ Conclude(w, "skip", "FAILED", TRUE)
    /\ OnlyWorker

ChooseVariant(w, v) ==
    /\ At(w, "stock")
    /\ worker' = [worker EXCEPT ![w] = [@ EXCEPT !.pc = "intent", !.variant = v]]
    /\ OnlyWorker

NoStock(w) ==
    /\ At(w, "stock")
    /\ Conclude(w, "skip", "SKIPPED", FALSE)
    /\ OnlyWorker

(* The decision throws. The batch's catch requeues the job with the count  *)
(* it was claimed with; past the deadline nobody listens.                  *)
DecisionFails(w) ==
    \/ Goto(w, "requeue")
    \/ Rest(w)

(* A Shopify call of the decision fails. *)
CallFails(w) ==
    /\ At(w, "order") \/ At(w, "stock")
    /\ DecisionFails(w)
    /\ OnlyWorker

(* The row persisted before the order is edited. The variant with a bug    *)
(* does not keep which variant was chosen.                                 *)
IntentRowWithoutChoice(v) ==
    [job EXCEPT !.status = "COMMIT_PENDING", !.attempts = @ + 1, !.leased = TRUE,
                !.old = FALSE]
IntentRow(v) ==
    [job EXCEPT !.status = "COMMIT_PENDING", !.variant = v, !.attempts = @ + 1,
                !.leased = TRUE, !.old = FALSE]

(* From here on a requeue counts from the row that Read saw. *)
PersistIntent(w) ==
    /\ At(w, "intent")
    /\ job' = IntentRow(worker[w].variant)
    /\ worker' = [worker EXCEPT ![w] = [@ EXCEPT !.pc = "edit", !.attempts = worker[w].edit,
                                                 !.edit = job.attempts + 1]]
    /\ OnlyJob

-----------------------------------------------------------------------------
(* applyGiftToOrder. begin, addVariant and addLineItemDiscount only touch a *)
(* draft of the order, so they are one step with every outcome they have.   *)

EditOrder(w) ==
    /\ At(w, "edit")
    /\ \/ Goto(w, "commit")
       \/ Goto(w, "scope")                          \* userErrors about a scope
       \/ Goto(w, "requeue")                        \* other userErrors, timeout
       \/ Conclude(w, "close", "FAILED", TRUE)      \* not editable
       \/ Conclude(w, "close", "SKIPPED", FALSE)    \* it would raise the total
    /\ OnlyWorker

CommitRejected(w) ==
    /\ At(w, "commit")
    /\ \/ Goto(w, "scope")
       \/ Conclude(w, "close", "FAILED", TRUE)
    /\ OnlyWorker

MyEdit(w) == [n |-> worker[w].edit, v |-> worker[w].variant]

CommitApplied(w) ==
    /\ At(w, "commit")
    /\ order' = [order EXCEPT !.lines = @ \cup {MyEdit(w)}]
    /\ Conclude(w, "close", "COMMITTED", FALSE)
    /\ UNCHANGED <<job, shop, settings, sweep, faults, exposed>>

(* The variant with a bug treats it as any failed call. *)
AfterLostCommitRequeue == "requeue"
AfterLostCommit        == "uncertain"

(* No answer in 8 s, or no 2xx: Shopify never got the commit, has applied  *)
(* it, or will yet do so.                                                  *)
CommitLost(w) ==
    /\ At(w, "commit")
    /\ \/ UNCHANGED order
       \/ order' = [order EXCEPT !.lines = @ \cup {MyEdit(w)}]
       \/ order' = [order EXCEPT !.coming = @ \cup {MyEdit(w)}]
    /\ Goto(w, AfterLostCommit)
    /\ UNCHANGED <<job, shop, settings, sweep, faults, exposed>>

(* Top-level GraphQL errors leave data empty: no userErrors, so COMMITTED. *)
CommitErrors(w) ==
    /\ At(w, "commit")
    /\ Fault("graphql")
    /\ Conclude(w, "close", "COMMITTED", FALSE)
    /\ exposed' = exposed \cup {"misread"}
    /\ UNCHANGED <<job, shop, settings, sweep, order>>

MarkUncertain(w) ==
    /\ At(w, "uncertain")
    /\ job' = [job EXCEPT !.status = "UNCERTAIN", !.review = TRUE, !.old = FALSE]
    /\ Goto(w, "confirm")
    /\ OnlyJob

(* The job keeps its status and its lease; only the review is asked for. *)
ScopeMissing(w) ==
    /\ At(w, "scope")
    /\ job' = [job EXCEPT !.review = TRUE, !.old = FALSE]
    /\ Rest(w)
    /\ OnlyJob

(* terminal, reviewAndTerminal and failTerminal: an update by id. *)
Close(w) ==
    /\ At(w, "close") \/ At(w, "skip")
    /\ job' = [job EXCEPT !.status = worker[w].result, !.leased = FALSE, !.old = FALSE,
                          !.review = @ \/ worker[w].review]
    /\ Rest(w)
    /\ OnlyJob

(* attemptCount >= maxAttempts; the variant with a bug is off by one. *)
OutOfAttemptsLate(n) == n > MaxAttempts
OutOfAttempts(n)     == n >= MaxAttempts

Requeue(w) ==
    /\ At(w, "requeue")
    /\ job' = IF OutOfAttempts(worker[w].attempts + 1)
              THEN [job EXCEPT !.status = "FAILED", !.review = TRUE, !.leased = FALSE,
                               !.old = FALSE]
              ELSE [job EXCEPT !.status = "PENDING", !.waiting = TRUE, !.leased = FALSE,
                               !.old = FALSE]
    /\ Rest(w)
    /\ OnlyJob

-----------------------------------------------------------------------------
(* recoverStale, then confirmJob for what has been uncertain for 30 minutes. *)

(* Which COMMIT_PENDING rows recoverStale takes over; the variant with a   *)
(* bug leaves the ones under review to the reviewer.                       *)
StaleIntentUnflagged == job.status = "COMMIT_PENDING" /\ ~job.leased
                        /\ ~job.reviewed /\ ~job.review
StaleIntent == job.status = "COMMIT_PENDING" /\ ~job.leased /\ ~job.reviewed

(* The variant with a bug gives the job back to the queue. *)
RecoveredStatusPending == "PENDING"
RecoveredStatus        == "UNCERTAIN"

(* The variant with a bug looks once only at each uncertain job. *)
LongUncertainOnce == job.status = "UNCERTAIN" /\ job.review /\ job.old /\ ~job.reviewed
LongUncertain     == job.status = "UNCERTAIN" /\ job.review /\ job.old

(* The second statement of recoverStale frees the claim of a PENDING job   *)
(* whose lease is over, which any claim may take anyway: no change here.   *)
(* A recovery that finds nothing to do is left out.                        *)
RecoverStale(w) ==
    /\ At(w, "idle")
    /\ StaleIntent \/ LongUncertain
    /\ job' = IF StaleIntent
              THEN [job EXCEPT !.status = RecoveredStatus, !.review = TRUE, !.old = FALSE]
              ELSE job
    /\ worker' = [worker EXCEPT ![w] = [Idle EXCEPT !.pc = "find", !.recovering = TRUE]]
    /\ OnlyJob

FindUncertain(w) ==
    /\ At(w, "find")
    /\ Goto(w, IF LongUncertain THEN "confirm" ELSE "mark")
    /\ OnlyWorker

(* What confirmJob does next: nothing, or the rest of recoverStale. *)
Confirmed(w) == IF worker[w].recovering THEN Goto(w, "mark") ELSE Rest(w)

ReadChoice(w) ==
    /\ At(w, "confirm")
    /\ IF job.variant = NoVariant THEN Confirmed(w)
       ELSE worker' = [worker EXCEPT ![w] = [@ EXCEPT !.pc = "query",
                                                      !.variant = job.variant]]
    /\ OnlyWorker

(* Is a line of variant v free? The variant with a bug takes any line. *)
FreeLineOrPaid(v) == v \in OwnVariants \/ \E e \in order.lines : e.v = v
FreeLine(v)       == \E e \in order.lines : e.v = v

QueryLines(w) ==
    LET v == worker[w].variant
    IN  /\ At(w, "query")
        /\ IF FreeLine(v) THEN Goto(w, "free")
           ELSE IF v \in OwnVariants THEN Goto(w, "charged")
           ELSE Confirmed(w)
        /\ OnlyWorker

QueryFails(w) ==
    /\ At(w, "query")
    /\ Confirmed(w)
    /\ OnlyWorker

WriteConfirmed(w) ==
    /\ At(w, "free")
    /\ job' = [job EXCEPT !.status = "COMMITTED", !.review = FALSE, !.old = FALSE]
    /\ Confirmed(w)
    /\ OnlyJob

WriteCharged(w) ==
    /\ At(w, "charged")
    /\ job' = [job EXCEPT !.status = "UNCERTAIN", !.review = TRUE, !.old = FALSE]
    /\ Confirmed(w)
    /\ OnlyJob

MarkReviewed(w) ==
    /\ At(w, "mark")
    /\ job' = IF LongUncertain THEN [job EXCEPT !.reviewed = TRUE, !.old = FALSE] ELSE job
    /\ Rest(w)
    /\ OnlyJob

-----------------------------------------------------------------------------
(* Faults, time, and the merchant, Shopify and the customer. *)

Crash(w) ==
    /\ ~At(w, "idle")
    /\ Fault("crash")
    /\ Rest(w)
    /\ UNCHANGED <<job, shop, settings, sweep, order, exposed>>

(* A statement fails. applyGiftToOrder catches that of the writes it awaits *)
(* (COMMITTED and UNCERTAIN) and requeues the job; the writes it returns   *)
(* without await, and the decision's, fail in the batch's catch; confirmJob *)
(* swallows its own.                                                       *)
Outcome(w) == \/ At(w, "uncertain")
              \/ At(w, "close") /\ worker[w].result = "COMMITTED"
StatementFails(w) ==
    /\ Fault("db")
    /\ exposed' = IF Outcome(w) THEN exposed \cup {"unrecorded"} ELSE exposed
    /\ \/ Outcome(w) /\ Goto(w, "requeue")
       \/ At(w, "close") /\ worker[w].result # "COMMITTED" /\ DecisionFails(w)
       \/ worker[w].pc \in Deciding \ {"order", "stock"} /\ DecisionFails(w)
       \/ worker[w].pc \in {"scope", "requeue"} /\ DecisionFails(w)
       \/ worker[w].pc \in {"find", "mark"} /\ Rest(w)
       \/ worker[w].pc \in {"confirm", "free", "charged"} /\ Confirmed(w)
    /\ UNCHANGED <<job, shop, settings, sweep, order>>

(* 45 s from the claim, which was of a whole batch, or from the intent;    *)
(* nothing keeps a decision from taking longer.                            *)
LeaseLapses ==
    /\ job.leased
    /\ job' = [job EXCEPT !.leased = FALSE]
    /\ OnlyJob /\ UNCHANGED worker

BackoffEnds ==
    /\ job.waiting
    /\ job' = [job EXCEPT !.waiting = FALSE]
    /\ OnlyJob /\ UNCHANGED worker

(* Thirty minutes without a write, longer than an invocation lives. *)
TimePasses ==
    /\ \A w \in Workers : At(w, "idle")
    /\ job.status = "UNCERTAIN" /\ ~job.old
    /\ job' = [job EXCEPT !.old = TRUE]
    /\ OnlyJob /\ UNCHANGED worker

ApplyComing ==
    /\ \E e \in order.coming :
          order' = [order EXCEPT !.lines = @ \cup {e}, !.coming = @ \ {e}]
    /\ UNCHANGED <<job, shop, settings, sweep, worker, faults, exposed>>

(* Cancelled, fulfilled, refunded or deleted. *)
CloseOrder ==
    /\ order.open
    /\ order' = [order EXCEPT !.open = FALSE]
    /\ UNCHANGED <<job, shop, settings, sweep, worker, faults, exposed>>

(* Uninstalled: reinstalling makes a new generation, never this job's. *)
Uninstall ==
    /\ shop
    /\ shop' = FALSE
    /\ UNCHANGED <<job, settings, sweep, order, worker, faults, exposed>>

(* save. The schedule may stop and start matching the order; gifts that    *)
(* are enabled again are for orders processed from then on.                *)
ChangeSchedule ==
    /\ settings # "disabled"
    /\ settings' \in {"offer", "mismatch"} \ {settings}
    /\ UNCHANGED <<job, shop, sweep, order, worker, faults, exposed>>

Disable ==
    /\ settings # "disabled"
    /\ settings' = "disabled"
    /\ sweep' = TRUE
    /\ UNCHANGED <<job, shop, order, worker, faults, exposed>>

(* The second statement of that save. *)
SkipPending ==
    /\ sweep
    /\ sweep' = FALSE
    /\ job' = IF job.status = "PENDING" /\ job.variant = NoVariant
              THEN [job EXCEPT !.status = "SKIPPED", !.old = FALSE] ELSE job
    /\ UNCHANGED <<shop, settings, order, worker, faults, exposed>>

-----------------------------------------------------------------------------
Decide(w) ==
    \/ Claim(w) \/ Read(w) \/ CheckShop(w) \/ CheckSettings(w) \/ FetchOrder(w)
    \/ \E v \in Variants : ChooseVariant(w, v)
    \/ NoStock(w) \/ CallFails(w) \/ PersistIntent(w)

Apply(w) ==
    \/ EditOrder(w) \/ CommitRejected(w) \/ CommitApplied(w) \/ CommitLost(w)
    \/ CommitErrors(w) \/ MarkUncertain(w) \/ ScopeMissing(w) \/ Close(w) \/ Requeue(w)

Recover(w) ==
    \/ RecoverStale(w) \/ FindUncertain(w) \/ ReadChoice(w) \/ QueryLines(w)
    \/ QueryFails(w) \/ WriteConfirmed(w) \/ WriteCharged(w) \/ MarkReviewed(w)

Environment ==
    \/ Enqueue \/ LeaseLapses \/ BackoffEnds \/ TimePasses \/ ApplyComing
    \/ CloseOrder \/ Uninstall \/ ChangeSchedule \/ Disable \/ SkipPending

Next ==
    \/ \E w \in Workers : \/ Decide(w) \/ Apply(w) \/ Recover(w)
                          \/ Crash(w) \/ StatementFails(w)
    \/ Environment

Spec == Init /\ [][Next]_vars

(* An invocation goes on until it ends or dies; the hourly cron keeps      *)
(* recovering and claiming, and reads the oldest jobs back first; deadlines *)
(* pass; a Shopify query made again and again is answered in the end.      *)
WorkerFairness(w) ==
    /\ WF_vars(Decide(w)) /\ WF_vars(Apply(w)) /\ WF_vars(Recover(w))
    /\ SF_vars(Claim(w) /\ worker' # worker)
    /\ SF_vars(FetchOrder(w))
    /\ SF_vars(NoStock(w) \/ \E v \in Variants : ChooseVariant(w, v))
    /\ SF_vars(RecoverStale(w))
    /\ SF_vars(QueryLines(w))

FairSpec ==
    /\ Spec
    /\ SF_vars(LeaseLapses) /\ WF_vars(BackoffEnds) /\ SF_vars(TimePasses)
    /\ \A w \in Workers : WorkerFairness(w)

-----------------------------------------------------------------------------
(* Safety. *)

(* A gift goes on the order at most once, whatever two invocations, a lost *)
(* commit and the recovery do (engine header: "Commit incerto -> nunca     *)
(* inclui automaticamente de novo"). Edits still to be applied count.      *)
Gifts == order.lines \cup order.coming
(* Excepted is what the code does not guard against: a second claim of a   *)
(* job whose decision outlasts its lease, and a commit whose answer cannot *)
(* be written.                                                             *)
Sheltered     == exposed \cap {"rival", "unrecorded"} = {}
AtMostOneGift == Sheltered => \A g, h \in Gifts : g = h

(* A gift on the order is never behind a job that may add another one, or  *)
(* that says none was added: the intent outlives the answer that was lost. *)
NoGiftForgotten ==
    Sheltered /\ Gifts # {} => job.status \in {"COMMIT_PENDING", "UNCERTAIN", "COMMITTED"}

(* The job says COMMITTED only of a gift that is on the order, also when   *)
(* confirmJob deduced it from a line of the order.                         *)
CommittedHasGift ==
    "misread" \notin exposed /\ job.status = "COMMITTED" => order.lines # {}

(* What this engine promises of the order, in words of the order only: see *)
(* OneGift. It is kept until an exposure.                                  *)
Trying    == \E w \in Workers : worker[w].pc \in {"edit", "commit"}
WordOf(s) == CASE s \in {"absent", "PENDING"}           -> "open"
               [] s \in {"COMMIT_PENDING", "UNCERTAIN"} -> "sought"
               [] s = "COMMITTED"                       -> "given"
               [] s \in {"SKIPPED", "FAILED"}           -> "refused"

Promise == INSTANCE OneGift WITH
    Gifts  <- [n : 1 .. MaxAttempts, v : Variants],
    given  <- order.lines,
    coming <- order.coming,
    trying <- Trying,
    word   <- WordOf(job.status),
    kept   <- exposed = {}

ImplementsOneGift == Promise!Spec

(* Even when statements fail at the worst moment, the order never gets     *)
(* more gifts than the attempts counted before each commit, and those are  *)
(* never more than maxAttempts, unless two workers decided at once.        *)
GiftsWithinAttempts ==
    "rival" \notin exposed => /\ job.attempts <= MaxAttempts
                             /\ Cardinality(Gifts) <= job.attempts

(* Liveness. *)

(* While the shop stays installed and no answer to a commit fails to be    *)
(* written, a gift on the order is known to the job in the end, even if    *)
(* the worker that added it died or got no answer.                         *)
GiftConfirmed ==
    [](shop /\ "unrecorded" \notin exposed) => (order.lines # {} ~> job.status = "COMMITTED")

(* Every job is decided: no failure or race leaves it in the queue, or     *)
(* with an intent that nobody follows up.                                  *)
EveryJobDecided == job.status = "PENDING" ~> job.status \in Decided

=============================================================================
