---------------------------- MODULE LegacyBilling ----------------------------
(***************************************************************************)
(* The subscriptions billed by Stripe. SubscriptionController.create makes *)
(* one; StripeEventProcessor.process takes in what Stripe says of it, and  *)
(* has the App make an order of Shopify for each recurring invoice that is *)
(* paid; WebhookController.shopify takes in Shopify's orders/create. The   *)
(* model has one subscription and cuts every handler at its awaits.        *)
(***************************************************************************)
EXTENDS Naturals

CONSTANTS
    Workers,      \* invocations of the Stripe endpoint in progress at once
    Events,       \* events of Stripe about the subscription
    Invoices,     \* its invoices
    Recurring,    \* invoices of a later cycle, with the legacy flow enabled
    NoInvoice,    \* stands for the invoice of an event that has none
    InvoiceOf,    \* event -> its invoice, or NoInvoice: customer.subscription.*
    SaysOf,       \* event -> outcome of the invoice, or operational status
    CreatedAt,    \* event -> event.created, 0: none
    Orders,       \* orders of Shopify that an orders/create is sent for
    GatewayStatus,     \* status in which Stripe creates the subscription
    AppReturnsNumber,  \* has the order's id from the App the form that
                       \* orders/create gives it, and not that of a GID
    MaxFaults     \* deaths, failed calls and lost answers

Outcomes == {"succeeded", "failed", "challenged"}
Terminal == {"cancelled", "expired", "failed"}
Statuses == {"pending", "active", "paused"} \cup Terminal

(* An order is named by the invoice it was made for; any other one was     *)
(* placed at the checkout.                                                 *)
ASSUME LegacyAssumption ==
    /\ Recurring \subseteq Invoices
    /\ NoInvoice \notin Invoices
    /\ Events # {}
    /\ \A e \in Events :
          /\ CreatedAt[e] \in Nat
          /\ \/ InvoiceOf[e] \in Invoices /\ SaysOf[e] \in Outcomes
             \/ InvoiceOf[e] = NoInvoice /\ SaysOf[e] \in Statuses \cup {"none"}
    /\ AppReturnsNumber \in BOOLEAN
    /\ MaxFaults \in Nat

VARIABLES
    creation,    \* where SubscriptionController.create stands
    stripe,      \* does the subscription exist at Stripe
    sub,         \* Subscription: status, payment and the stamps of both
    order,       \* invoice -> its SubscriptionOrder: status, has it an order
    made,        \* invoices the App has made an order for
    processed,   \* events whose WebhookEvent is processed
    owed,        \* events Stripe has no answer of 200 for
    ignored,     \* events answered with 200 before the subscription had a row
    worker,      \* worker -> where it stands, its event, what it has read
    linked,      \* orders that their orders/create has given a row
    faults,      \* faults so far
    overlap,     \* have two invocations ever been in progress at once
    contested    \* invoices whose claim was lost while it was being used

vars == <<creation, stripe, sub, order, made, processed, owed, ignored, worker, linked,
          faults, overlap, contested>>

NoSub   == [status |-> "none", statusAt |-> 0, payment |-> "none", paymentAt |-> 0]
NoOrder == [status |-> "none", shop |-> FALSE]

(* found: has SubscriptionOrder a row of the invoice; id: the order's id   *)
(* is in hand.                                                             *)
Resting == [pc |-> "idle", event |-> CHOOSE e \in Events : TRUE, seen |-> NoSub,
            found |-> FALSE, id |-> FALSE]

Stamps == {CreatedAt[e] : e \in Events} \cup {0}
Subs   == [status : Statuses \cup {"none"}, statusAt : Stamps,
           payment : Outcomes \cup {"none"}, paymentAt : Stamps]

TypeOK ==
    /\ creation \in {"new", "gateway", "row", "done", "failed"}
    /\ stripe \in BOOLEAN
    /\ sub \in Subs
    /\ order \in [Invoices ->
          [status : {"none", "processing", "stalled", "paid", "failed", "challenged"},
           shop   : BOOLEAN]]
    /\ made \subseteq Recurring
    /\ processed \subseteq Events
    /\ owed \subseteq Events
    /\ ignored \subseteq Events
    /\ worker \in [Workers ->
          [pc : {"idle", "find", "order", "claim", "fulfil", "write", "answer"},
           event : Events, seen : Subs, found : BOOLEAN, id : BOOLEAN]]
    /\ linked \subseteq Orders
    /\ faults \in 0 .. MaxFaults
    /\ overlap \in BOOLEAN
    /\ contested \subseteq Invoices

Init ==
    /\ creation = "new"
    /\ stripe = FALSE
    /\ sub = NoSub
    /\ order = [i \in Invoices |-> NoOrder]
    /\ made = {}
    /\ processed = {}
    /\ owed = Events
    /\ ignored = {}
    /\ worker = [w \in Workers |-> Resting]
    /\ linked = {}
    /\ faults = 0
    /\ overlap = FALSE
    /\ contested = {}

Fault == faults < MaxFaults /\ faults' = faults + 1

-----------------------------------------------------------------------------
(* SubscriptionController.create: a contract at Shopify, a customer and a  *)
(* subscription at Stripe, the row here. Nothing is undone when one of     *)
(* them fails, and nothing is repeated.                                    *)
atStripe == <<order, made, processed, owed, ignored, worker, linked, overlap, contested>>

CreateContract ==
    /\ creation = "new"
    /\ creation' = "gateway"
    /\ UNCHANGED <<stripe, sub, atStripe, faults>>

(* StripeGateway.createSubscription: customer, payment method, subscription. *)
CreateSubscription == stripe' = TRUE

CreateAtGateway ==
    /\ creation = "gateway"
    /\ CreateSubscription
    /\ creation' = "row"
    /\ UNCHANGED <<sub, atStripe, faults>>

CreateRow ==
    /\ creation = "row"
    /\ sub' = [NoSub EXCEPT !.status =
          IF GatewayStatus = "active" THEN "active" ELSE "pending"]
    /\ creation' = "done"
    /\ UNCHANGED <<stripe, atStripe, faults>>

(* A refusal, an error or a death; Stripe may have done its part.          *)
CreationFails ==
    /\ creation \in {"new", "gateway", "row"}
    /\ Fault
    /\ creation' = "failed"
    /\ stripe' \in {stripe, creation # "new"}
    /\ UNCHANGED <<sub, atStripe>>

Create == CreateContract \/ CreateAtGateway \/ CreateRow

-----------------------------------------------------------------------------
At(w, pc)    == worker[w].pc = pc
Goto(w, pc)  == worker' = [worker EXCEPT ![w].pc = pc]
Rest(w)      == worker' = [worker EXCEPT ![w] = Resting]
Of(w)        == worker[w].event
Invoice(w)   == InvoiceOf[Of(w)]
IsInvoice(e) == InvoiceOf[e] # NoInvoice
Succeeds(e)  == IsInvoice(e) /\ SaysOf[e] = "succeeded"

others == <<creation, stripe, linked>>

(* A delivery of Stripe, until one is answered with 200. The subscription  *)
(* is read here and never again.                                           *)
Receive(w, e) ==
    /\ At(w, "idle") /\ stripe /\ e \in owed
    /\ IF sub.status = "none"
       THEN /\ owed' = owed \ {e}
            /\ ignored' = ignored \cup {e}
            /\ UNCHANGED <<worker, overlap>>
       ELSE /\ worker' = [worker EXCEPT ![w] =
                  [Resting EXCEPT !.pc = "find", !.event = e, !.seen = sub]]
            /\ overlap' = (overlap \/ \E v \in Workers \ {w} : ~At(v, "idle"))
            /\ UNCHANGED <<owed, ignored>>
    /\ UNCHANGED <<others, sub, order, made, processed, faults, contested>>

Answer(w) ==
    /\ Rest(w)
    /\ \/ owed' = owed \ {Of(w)} /\ UNCHANGED faults
       \/ Fault /\ UNCHANGED owed

(* The event's row is looked for and, if there is none, created. Whoever   *)
(* finds it open, or loses the race for it, goes on all the same.          *)
FindEvent(w) ==
    /\ At(w, "find")
    /\ IF Of(w) \in processed
       THEN Answer(w)
       ELSE Goto(w, "order") /\ UNCHANGED <<owed, faults>>
    /\ UNCHANGED <<others, sub, order, made, processed, ignored, overlap, contested>>

ReadOrder(w) ==
    /\ At(w, "order")
    /\ LET stored == IF IsInvoice(Of(w)) THEN order[Invoice(w)] ELSE NoOrder
           found  == stored.status # "none"
           claims == /\ Succeeds(Of(w))
                     /\ ~found \/ (Invoice(w) \in Recurring /\ ~stored.shop)
       IN  worker' = [worker EXCEPT
              ![w].found = found,
              ![w].id    = stored.shop,
              ![w].pc    = IF claims THEN "claim" ELSE "write"]
    /\ UNCHANGED <<others, sub, order, made, processed, owed, ignored, faults, overlap,
                   contested>>

(* claimInvoiceOrder: a new row, or a row without an order whose payment   *)
(* failed, or whose claim has expired. With a bug a claim that stands is   *)
(* taken over, or one that has expired is not.                             *)
ClaimableAlways(i) == ~order[i].shop

ClaimableOnce(i) ==
    ~order[i].shop /\ order[i].status \in {"none", "failed", "challenged"}

Claimable(i) ==
    /\ ~order[i].shop
    /\ order[i].status \in {"none", "failed", "challenged", "stalled"}

ClaimGoesOn(w) ==
    /\ At(w, "claim")
    /\ Invoice(w) \in Recurring => Claimable(Invoice(w))
    /\ order' = IF Claimable(Invoice(w))
                THEN [order EXCEPT ![Invoice(w)].status = "processing"]
                ELSE order
    /\ worker' = [worker EXCEPT
          ![w].found = TRUE,
          ![w].pc    = IF Invoice(w) \in Recurring THEN "fulfil" ELSE "write"]
    /\ UNCHANGED <<others, sub, made, processed, owed, ignored, faults, overlap, contested>>

(* Another invocation has the claim: 500. *)
ClaimRefused(w) ==
    /\ At(w, "claim")
    /\ Invoice(w) \in Recurring /\ ~Claimable(Invoice(w))
    /\ Rest(w)
    /\ UNCHANGED <<others, sub, order, made, processed, owed, ignored, faults, overlap,
                   contested>>

(* recurringOrders.create. The App makes one order for a key, however      *)
(* often it is asked.                                                      *)
CreateShopifyOrder(w) ==
    /\ At(w, "fulfil")
    /\ made' = made \cup {Invoice(w)}
    /\ worker' = [worker EXCEPT ![w].id = TRUE, ![w].pc = "write"]
    /\ UNCHANGED <<others, sub, order, processed, owed, ignored, faults, overlap, contested>>

(* 60 s after the claim; the call to the App has no limit of its own.      *)
ClaimExpires(i) ==
    /\ order[i].status = "processing"
    /\ order' = [order EXCEPT ![i].status = "stalled"]
    /\ contested' = contested \cup
          {j \in {i} : \E w \in Workers : At(w, "fulfil") /\ Invoice(w) = i}
    /\ UNCHANGED <<others, sub, made, processed, owed, ignored, worker, faults, overlap>>

-----------------------------------------------------------------------------
(* safeStripePatch of what the invocation read when it began; with a bug   *)
(* an ended subscription is opened again by what comes after.              *)
StatusStale(seen, e) ==
    seen.statusAt # 0 /\ CreatedAt[e] # 0 /\ CreatedAt[e] <= seen.statusAt

PaymentStale(seen, e) ==
    seen.paymentAt # 0 /\ CreatedAt[e] # 0 /\ CreatedAt[e] <= seen.paymentAt

StatusKeptIfOlder(seen, e) ==
    \/ SaysOf[e] = "none"
    \/ StatusStale(seen, e)
    \/ CreatedAt[e] = 0 /\ SaysOf[e] \notin Terminal

StatusKept(seen, e) ==
    \/ SaysOf[e] = "none"
    \/ seen.status \in Terminal /\ SaysOf[e] \notin Terminal
    \/ StatusStale(seen, e)
    \/ CreatedAt[e] = 0 /\ SaysOf[e] \notin Terminal

PatchedStatus(seen, e) ==
    [sub EXCEPT
        !.status   = IF StatusKept(seen, e) THEN @ ELSE SaysOf[e],
        !.statusAt = IF SaysOf[e] = "none" \/ CreatedAt[e] = 0 \/ StatusStale(seen, e)
                     THEN @ ELSE CreatedAt[e]]

PatchedPayment(seen, e) ==
    IF PaymentStale(seen, e) THEN sub
    ELSE [sub EXCEPT !.payment   = SaysOf[e],
                     !.paymentAt = IF CreatedAt[e] = 0 THEN @ ELSE CreatedAt[e]]

(* The row of the invoice: it follows the event whatever its age; an id    *)
(* that is not in hand stays as it is stored. With a bug it is written as  *)
(* null, or the status is the outcome of the event.                        *)
WrittenForgetting(w) ==
    [status |-> IF Succeeds(Of(w)) THEN "paid" ELSE SaysOf[Of(w)], shop |-> worker[w].id]

WrittenOutcome(w) ==
    [status |-> SaysOf[Of(w)], shop |-> order[Invoice(w)].shop \/ worker[w].id]

Written(w) ==
    [status |-> IF Succeeds(Of(w)) THEN "paid" ELSE SaysOf[Of(w)],
     shop   |-> order[Invoice(w)].shop \/ worker[w].id]

(* The row has been created since the invocation looked for it: P2002.     *)
Refused(w) == IsInvoice(Of(w)) /\ ~worker[w].found /\ order[Invoice(w)].status # "none"

WriteRefused(w) ==
    /\ At(w, "write") /\ Refused(w)
    /\ Rest(w)
    /\ UNCHANGED <<others, sub, order, made, processed, owed, ignored, faults, overlap,
                   contested>>

Write(w) ==
    LET e == Of(w)
        i == Invoice(w)
    IN  /\ At(w, "write") /\ ~Refused(w)
        /\ IF IsInvoice(e)
           THEN /\ sub' = PatchedPayment(worker[w].seen, e)
                /\ order' = [order EXCEPT ![i] = Written(w)]
                /\ contested' = contested \cup
                      {j \in {i} : \E v \in Workers \ {w} : At(v, "fulfil") /\ Invoice(v) = i}
           ELSE /\ sub' = PatchedStatus(worker[w].seen, e)
                /\ UNCHANGED <<order, contested>>
        /\ processed' = processed \cup {e}
        /\ Goto(w, "answer")
        /\ UNCHANGED <<others, made, owed, ignored, faults, overlap>>

AnswerEvent(w) ==
    /\ At(w, "answer")
    /\ Answer(w)
    /\ UNCHANGED <<others, sub, order, made, processed, ignored, overlap, contested>>

(* An error, which is answered with 500, or a death, at any point; the App *)
(* may have made the order all the same.                                   *)
Break(w) ==
    /\ ~At(w, "idle")
    /\ Fault
    /\ Rest(w)
    /\ made' \in {made, IF At(w, "fulfil") THEN made \cup {Invoice(w)} ELSE made}
    /\ UNCHANGED <<others, sub, order, processed, owed, ignored, overlap, contested>>

-----------------------------------------------------------------------------
(* orders/create of Shopify, for an order that the App has made or that    *)
(* was placed at the checkout: unless the order is known, it is linked to  *)
(* the subscription by a row of its own. Its event is written first, so    *)
(* that what a failure cuts short is not done when it comes again. A hook  *)
(* that fails, or finds nothing to do, writes nothing else; the check and  *)
(* the insertion are one step, since a row that follows its check later    *)
(* is the same row.                                                        *)
Known(o) == o \in Invoices /\ order[o].shop /\ AppReturnsNumber

LinkOrder(o) ==
    /\ o \notin linked
    /\ o \in Invoices => o \in made
    /\ sub.status \in {"pending", "active"}
    /\ ~Known(o)
    /\ linked' = linked \cup {o}
    /\ UNCHANGED <<creation, stripe, sub, order, made, processed, owed, ignored, worker,
                   faults, overlap, contested>>

-----------------------------------------------------------------------------
Continue(w) ==
    \/ FindEvent(w) \/ ReadOrder(w)
    \/ ClaimGoesOn(w) \/ ClaimRefused(w) \/ CreateShopifyOrder(w)
    \/ Write(w) \/ WriteRefused(w) \/ AnswerEvent(w)

Next ==
    \/ Create \/ CreationFails
    \/ \E w \in Workers :
          \/ \E e \in Events : Receive(w, e)
          \/ Continue(w)
          \/ Break(w)
    \/ \E i \in Invoices : ClaimExpires(i)
    \/ \E o \in Orders : LinkOrder(o)

Spec == Init /\ [][Next]_vars

(* What runs goes on until it ends or dies, a claim expires, and Stripe    *)
(* sends a payment that succeeded until it is answered with 200; it does   *)
(* so with every event, but nothing here rests on the others.              *)
FairSpec ==
    /\ Spec
    /\ WF_vars(Create)
    /\ \A w \in Workers : WF_vars(Continue(w))
    /\ \A e \in {d \in Events : Succeeds(d)} : SF_vars(\E w \in Workers : Receive(w, e))
    /\ \A i \in Invoices : WF_vars(ClaimExpires(i))

-----------------------------------------------------------------------------
(* One invocation at a time has the App make the order of an invoice,      *)
(* unless its claim expired, or another event of the invoice was written   *)
(* over it, while the App was at work.                                     *)
OneFulfiller ==
    \A v, w \in Workers :
        v # w /\ At(v, "fulfil") /\ At(w, "fulfil") /\ Invoice(v) = Invoice(w) =>
            Invoice(v) \in contested

(* Does every event say when it was created; Stripe's do.                  *)
Timed == \A e \in Events : CreatedAt[e] # 0

(* The time of the last payment, and of the last status, does not go back, *)
(* neither changes without a later time, and an ended subscription stays   *)
(* ended, whatever the order in which events arrive, as long as no two     *)
(* invocations overlap.                                                    *)
Onwards ==
    /\ sub'.paymentAt >= sub.paymentAt
    /\ sub'.statusAt >= sub.statusAt
    /\ sub.status \in Terminal => sub'.status \in Terminal
    /\ Timed => /\ sub'.payment # sub.payment => sub'.paymentAt > sub.paymentAt
                /\ sub'.status # sub.status => sub'.statusAt > sub.statusAt

NeverBack == [][~overlap /\ sub.status # "none" => Onwards]_vars

(* Order first, its record next, 200 to Stripe last; each once and for     *)
(* good. What was ignored aside, an answered success has its order.        *)
Settled ==
    {i \in Recurring : \E e \in Events \ (owed \cup ignored) :
        Succeeds(e) /\ InvoiceOf[e] = i}

Fulfilment == INSTANCE InvoiceFulfilment WITH
    ordered  <- made,
    recorded <- {i \in Recurring : order[i].shop},
    settled  <- Settled

ImplementsFulfilment == Fulfilment!Spec

(* Every recurring invoice that was paid has its order recorded at last,   *)
(* unless its event came before the subscription had its row.              *)
EveryPaidInvoiceFulfilled ==
    <>[](sub.status # "none" =>
            \A e \in Events :
                Succeeds(e) /\ InvoiceOf[e] \in Recurring =>
                    e \in ignored \/ order[InvoiceOf[e]].shop)

(* "Evita duplicidade.": an order of Shopify is linked by one row. It gets *)
(* a second one when its orders/create is faster than the Stripe event     *)
(* that had it made.                                                       *)
OneRowPerShopifyOrder ==
    \A o \in Orders \cap Invoices : ~(o \in linked /\ order[o].shop)
=============================================================================
