---------------------------- MODULE BillingEvents ----------------------------
(***************************************************************************)
(* subscription_billing_attempts/success, /failure and /challenged: what   *)
(* Shopify says of the billing attempts of one cycle of a subscription.    *)
(* An event may come with the attempt as the App has read it from Shopify, *)
(* or without. The other writers of the same rows take part: the retry     *)
(* engine, with its jobs and its final action, and the operator, who       *)
(* completes a pending attempt (AdministrativeBillingReconciliation-       *)
(* Service).                                                               *)
(***************************************************************************)
EXTENDS EventIngestion

CONSTANTS
    Attempts,      \* billing attempts of the cycle
    AttemptOf,     \* event -> its attempt
    OutcomeOf      \* event -> outcome, by its topic

Outcomes == {"succeeded", "failed", "challenged"}

ASSUME BillingAssumption ==
    \A e \in Events : AttemptOf[e] \in Attempts /\ OutcomeOf[e] \in Outcomes

VARIABLES
    attempt,    \* attempt -> SubscriptionBillingAttempt, its status and
                \* whether reconciliationStatus is "complete"
    orders,     \* attempts with a row of SubscriptionOrder
    gifts,      \* attempts with a RENEWALS job of SubscriptionGiftJob
    old,        \* attempts whose order is past the age a gift job accepts
    cycle,      \* BillingRetryCycle.status: none, open, succeeded, and
                \* finalized, which stands for skipped too
    history,    \* events in SubscriptionStatusHistory
    audits,     \* attempts with a row of BillingReconciliationAudit
    told,       \* <<attempt, outcome>> that an event has told the customer,
                \* and the renewals that the engine has
    body,       \* worker -> did the App enrich what it delivered
    existed     \* worker -> did its transaction find a row of the attempt

vars == <<ingestion, attempt, orders, gifts, old, cycle, history, audits, told, body,
          existed>>

NoAttempt == [status |-> "none", complete |-> FALSE]

TypeOK ==
    /\ IngestionTypeOK
    /\ attempt \in [Attempts -> [status : Outcomes \cup {"none"}, complete : BOOLEAN]]
    /\ orders \subseteq Attempts
    /\ gifts \subseteq Attempts
    /\ old \subseteq Attempts
    /\ cycle \in {"none", "open", "succeeded", "finalized"}
    /\ history \subseteq Events
    /\ audits \subseteq Attempts
    /\ told \subseteq Attempts \X Outcomes
    /\ body \in [Workers -> BOOLEAN]
    /\ existed \in [Workers -> BOOLEAN]

Init ==
    /\ IngestionInit
    /\ attempt = [a \in Attempts |-> NoAttempt]
    /\ orders = {}
    /\ gifts = {}
    /\ old = {}
    /\ cycle \in {"none", "open"}
    /\ history = {}
    /\ audits = {}
    /\ told = {}
    /\ body = [w \in Workers |-> FALSE]
    /\ existed = [w \in Workers |-> FALSE]

billing == <<attempt, orders, gifts, old, cycle, history, audits, told>>

-----------------------------------------------------------------------------
(* The attempt that an event, or a reading of the App, is about. *)
A(w)       == AttemptOf[Of(w)]
Outcome(w) == OutcomeOf[Of(w)]

CompleteSuccess(w) == Outcome(w) = "succeeded" /\ body[w]

(* recordBillingAttempt ends without an order; with a bug it does not ask, *)
(* or takes every success for one.                                         *)
PendingNever(w)  == FALSE
PendingAlways(w) == Outcome(w) = "succeeded"
Pending(w)       == Outcome(w) = "succeeded" /\ ~CompleteSuccess(w)

BeginTransaction(w) ==
    /\ At(w, "begin")
    /\ existed' = [existed EXCEPT ![w] = attempt[A(w)].status # "none"]
    /\ Goto(w, "commit")
    /\ UNCHANGED <<row, owed, faults, billing, body>>

(* The order, the gift and the cycle; enqueueGiftJob refuses an order that *)
(* is too old. With a bug the gift is left out, or its job is one of the   *)
(* event and not of the attempt.                                           *)
RecordOrderOnly(w) ==
    IF CompleteSuccess(w)
    THEN orders' = orders \cup {A(w)} /\ cycle' = "succeeded" /\ UNCHANGED gifts
    ELSE UNCHANGED <<orders, gifts, cycle>>

RecordOrderByEvent(w) ==
    IF CompleteSuccess(w)
    THEN /\ orders' = orders \cup {A(w)}
         /\ gifts' = gifts \cup {Of(w)}
         /\ cycle' = "succeeded"
    ELSE UNCHANGED <<orders, gifts, cycle>>

RecordOrder(w) ==
    IF CompleteSuccess(w)
    THEN /\ orders' = orders \cup {A(w)}
         /\ gifts' = gifts \cup ({A(w)} \ old)
         /\ cycle' = "succeeded"
    ELSE UNCHANGED <<orders, gifts, cycle>>

(* recordBillingAttempt: the last event to come has the last word on the   *)
(* attempt. What is not enriched is committed and left pending.            *)
RecordBillingAttempt(w) ==
    /\ At(w, "commit")
    /\ existed[w] \/ attempt[A(w)].status = "none"
    /\ attempt' = [attempt EXCEPT ![A(w)] = [status |-> Outcome(w), complete |-> body[w]]]
    /\ RecordOrder(w)
    /\ history' = history \cup {Of(w)}
    /\ IF Pending(w) THEN LeftPending(w) ELSE Processed(w)
    /\ body' = [body EXCEPT ![w] = FALSE]
    /\ existed' = [existed EXCEPT ![w] = FALSE]
    /\ UNCHANGED <<old, audits, told>>

(* Another transaction has created the row of the attempt meanwhile.       *)
RefusedByUniqueness(w) ==
    /\ At(w, "commit")
    /\ ~existed[w] /\ attempt[A(w)].status # "none"
    /\ LeftPending(w)
    /\ body' = [body EXCEPT ![w] = FALSE]
    /\ existed' = [existed EXCEPT ![w] = FALSE]
    /\ UNCHANGED billing

(* renewal_succeeded or payment_failed, after the commit; nothing for a    *)
(* challenge.                                                              *)
Emit(w) ==
    /\ At(w, "emit")
    /\ told' = told \cup (IF Outcome(w) = "challenged" THEN {} ELSE {<<A(w), Outcome(w)>>})
    /\ Answer(w)
    /\ UNCHANGED <<row, attempt, orders, gifts, old, cycle, history, audits, body, existed>>

-----------------------------------------------------------------------------
(* The retry engine. Which of its jobs does what, and when, is left to     *)
(* RetryEngine: of a cycle that there is it may do at any time whatever it *)
(* does to these rows, and tells the truth of its attempts. An emit that   *)
(* fails after the commit sends the job round again.                       *)
Succeeds(a) == \E e \in Events : AttemptOf[e] = a /\ OutcomeOf[e] = "succeeded"

facts == <<attempt, orders, gifts, old, history, audits, told>>

(* seed: a cycle whose success is known is paid, a new one is open.        *)
EngineSeeds ==
    /\ cycle' = IF \E a \in Attempts : attempt[a] = [status |-> "succeeded", complete |-> TRUE]
                THEN "succeeded"
                ELSE IF cycle = "none" THEN "open" ELSE cycle
    /\ UNCHANGED <<ingestion, facts, body, existed>>

(* paymentSucceeded: the success of an attempt the engine has made.        *)
EngineRecords(a) ==
    /\ cycle # "none" /\ Succeeds(a)
    /\ attempt' = [attempt EXCEPT ![a].status = "succeeded"]
    /\ orders' = orders \cup {a}
    /\ cycle' = "succeeded"
    /\ told' \in {told, told \cup {<<a, "succeeded">>}}
    /\ UNCHANGED <<ingestion, gifts, old, history, audits, body, existed>>

(* executeFinalAction, when a chain of jobs is exhausted or an action that *)
(* was recorded is recovered: finalized or skipped, whatever the cycle is  *)
(* by then.                                                                *)
EngineActs ==
    /\ cycle # "none"
    /\ cycle' = "finalized"
    /\ UNCHANGED <<ingestion, facts, body, existed>>

(* An order grows older than a gift job accepts.                           *)
OrderAges(a) ==
    /\ Succeeds(a)
    /\ old' = old \cup {a}
    /\ UNCHANGED <<ingestion, attempt, orders, gifts, cycle, history, audits, told, body,
                   existed>>

(* executeTransaction, live: Serializable, so at one instant. The shop,    *)
(* the contract and the attempt are the operator's; every other outcome is *)
(* a refusal that writes nothing.                                          *)
ReconcilableAnyOrder(a) ==
    /\ a \notin audits
    /\ attempt[a].status # "none" /\ ~attempt[a].complete

Reconcilable(a) ==
    /\ a \notin audits
    /\ a \in orders
    /\ attempt[a].status # "none" /\ ~attempt[a].complete

Reconcile(a) ==
    /\ Reconcilable(a)
    /\ attempt' = [attempt EXCEPT ![a] = [status |-> "succeeded", complete |-> TRUE]]
    /\ cycle' = IF cycle = "none" THEN "none" ELSE "succeeded"
    /\ audits' = audits \cup {a}
    /\ UNCHANGED <<ingestion, orders, gifts, old, history, told, body, existed>>

-----------------------------------------------------------------------------
Continue(w) ==
    \/ /\ IngestionStep(w)
       /\ body' = [body EXCEPT ![w] = @ /\ worker'[w].pc # "idle"]
       /\ UNCHANGED <<billing, existed>>
    \/ BeginTransaction(w)
    \/ RecordBillingAttempt(w)
    \/ RefusedByUniqueness(w)
    \/ Emit(w)

Receive(w, e, enriched) ==
    /\ Deliver(w, e)
    /\ body' = [body EXCEPT ![w] = enriched /\ row[e] # "done"]
    /\ UNCHANGED <<billing, existed>>

Break(w) ==
    /\ ProcessingFails(w) \/ Crash(w)
    /\ body' = [body EXCEPT ![w] = FALSE]
    /\ existed' = [existed EXCEPT ![w] = FALSE]
    /\ UNCHANGED billing

Next ==
    \/ \E w \in Workers :
          \/ \E e \in Events, enriched \in BOOLEAN : Receive(w, e, enriched)
          \/ Continue(w)
          \/ Break(w)
    \/ \E a \in Attempts :
          EngineRecords(a) \/ Reconcile(a) \/ OrderAges(a)
    \/ EngineSeeds \/ EngineActs

Spec == Init /\ [][Next]_vars

(* An invocation goes on until it ends or dies; an event without a 200 is  *)
(* sent again, and at some time enriched.                                  *)
FairSpec ==
    /\ Spec
    /\ \A w \in Workers : WF_vars(Continue(w))
    /\ \A e \in Events :
          SF_vars(e \in owed /\ \E w \in Workers : Receive(w, e, TRUE))

-----------------------------------------------------------------------------
(* The cycle is not open: it is paid, or, since the engine writes its last *)
(* word over a payment that came too late for it, finally acted on.        *)
Settled == cycle \in {"succeeded", "finalized"}

(* A success that was answered with 200 is complete: its order is there,   *)
(* its gift job unless the order was too old for one, and its cycle is     *)
(* settled, however often it came without its order, failed half way, was  *)
(* repeated, or raced the engine and the operator.                         *)
SuccessIsComplete ==
    \A e \in Events \ owed :
        OutcomeOf[e] = "succeeded" =>
            AttemptOf[e] \in orders \cap (gifts \cup old) /\ Settled

(* A customer is told of a renewal once its order is recorded, and of a    *)
(* failure that is in the history.                                         *)
ToldIsRecorded ==
    \A t \in told :
        IF t[2] = "succeeded" THEN t[1] \in orders
        ELSE \E e \in history : AttemptOf[e] = t[1] /\ OutcomeOf[e] = t[2]

(* What an operator has reconciled is paid: its order is recorded, and its *)
(* cycle, whatever the engine's final action makes of it, is not left      *)
(* open.                                                                   *)
AuditedIsPaid == \A a \in audits : a \in orders /\ Settled

(* Every event is answered with 200 at last.                               *)
EveryEventAnswered == <>[](owed = {})
=============================================================================
