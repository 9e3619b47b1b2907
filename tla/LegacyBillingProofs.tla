------------------------- MODULE LegacyBillingProofs -------------------------
(***************************************************************************)
(* What holds of the subscriptions billed by Stripe for any number of      *)
(* invocations, events, invoices and faults: the types, that one           *)
(* invocation at a time makes an order, that the handling of invoices      *)
(* implements InvoiceFulfilment, and that the row does not turn back.      *)
(***************************************************************************)
EXTENDS LegacyBilling, TLAPS

Places == {"idle", "find", "order", "claim", "fulfil", "write", "answer"}
Desk   == [pc : Places, event : Events, seen : Subs, found : BOOLEAN, id : BOOLEAN]
Rows   == [status : {"none", "processing", "stalled", "paid", "failed", "challenged"},
           shop   : BOOLEAN]

(* The variables that the actions change together keep their types.        *)
StripeType ==
    /\ order \in [Invoices -> Rows]
    /\ made \subseteq Recurring
    /\ processed \subseteq Events
    /\ owed \subseteq Events
    /\ ignored \subseteq Events
    /\ overlap \in BOOLEAN
    /\ contested \subseteq Invoices

OtherType ==
    /\ creation \in {"new", "gateway", "row", "done", "failed"}
    /\ stripe \in BOOLEAN
    /\ linked \subseteq Orders
    /\ faults \in 0 .. MaxFaults

LEMMA TypeParts ==
  TypeOK <=> StripeType /\ OtherType /\ sub \in Subs /\ worker \in [Workers -> Desk]
BY DEF TypeOK, StripeType, OtherType, Desk, Rows, Places

LEMMA TypePartsNext ==
  TypeOK' <=> StripeType' /\ OtherType' /\ sub' \in Subs /\ worker' \in [Workers -> Desk]
BY DEF TypeOK, StripeType, OtherType, Desk, Rows, Places

LEMMA NoSubType == NoSub \in Subs
BY DEF NoSub, Subs, Stamps

LEMMA RestingType == Resting \in Desk
<1>1. (CHOOSE e \in Events : TRUE) \in Events
  BY LegacyAssumption
<1> QED
  BY <1>1, NoSubType DEF Resting, Desk, Places

LEMMA EventType ==
  ASSUME TypeOK, NEW w \in Workers
  PROVE  Of(w) \in Events /\ (IsInvoice(Of(w)) => Invoice(w) \in Invoices)
<1>1. Of(w) \in Events
  BY DEF TypeOK, Of
<1> QED
  BY <1>1, LegacyAssumption DEF IsInvoice, Invoice

LEMMA FaultType ==
  ASSUME faults \in 0 .. MaxFaults, Fault
  PROVE  faults' \in 0 .. MaxFaults
BY LegacyAssumption DEF Fault

(* Moving one worker leaves every worker well typed. *)
LEMMA RestType ==
  ASSUME worker \in [Workers -> Desk], NEW w \in Workers, Rest(w)
  PROVE  worker' \in [Workers -> Desk]
BY RestingType DEF Rest

LEMMA GotoType ==
  ASSUME worker \in [Workers -> Desk], NEW w \in Workers, NEW pc \in Places, Goto(w, pc)
  PROVE  worker' \in [Workers -> Desk]
<1>1. [worker[w] EXCEPT !.pc = pc] \in Desk
  BY DEF Desk
<1> QED
  BY <1>1 DEF Goto

-----------------------------------------------------------------------------
LEMMA TypeInit == Init => TypeOK
<1> SUFFICES ASSUME Init PROVE TypeOK
  OBVIOUS
<1>1. worker \in [Workers -> Desk]
  BY RestingType DEF Init
<1>2. sub \in Subs
  BY NoSubType DEF Init
<1>3. StripeType
  BY DEF Init, StripeType, NoOrder, Rows
<1>4. OtherType
  <2>1. 0 \in 0 .. MaxFaults
    BY LegacyAssumption
  <2> QED
    BY <2>1 DEF Init, OtherType
<1> QED
  BY <1>1, <1>2, <1>3, <1>4, TypeParts

LEMMA CreateType ==
  ASSUME TypeOK, Create \/ CreationFails
  PROVE  TypeOK'
<1>1. sub' \in Subs
  BY NoSubType DEF TypeOK, Create, CreateContract, CreateAtGateway, CreateSubscription,
     CreateRow, CreationFails,
     NoSub, Subs, Stamps, Statuses
<1>2. faults' \in 0 .. MaxFaults
  BY FaultType DEF TypeOK, Create, CreateContract, CreateAtGateway, CreateSubscription,
     CreateRow, CreationFails
<1>3. creation' \in {"new", "gateway", "row", "done", "failed"} /\ stripe' \in BOOLEAN
  BY DEF TypeOK, Create, CreateContract, CreateAtGateway, CreateSubscription, CreateRow,
     CreationFails
<1>4. UNCHANGED atStripe
  BY DEF Create, CreateContract, CreateAtGateway, CreateSubscription, CreateRow, CreationFails
<1> QED
  BY <1>1, <1>2, <1>3, <1>4 DEF TypeOK, atStripe

LEMMA ReceiveType ==
  ASSUME TypeOK, NEW w \in Workers, NEW e \in Events, Receive(w, e)
  PROVE  TypeOK'
<1>1. worker' \in [Workers -> Desk]
  <2>1. [Resting EXCEPT !.pc = "find", !.event = e, !.seen = sub] \in Desk
    BY RestingType DEF TypeOK, Desk, Places
  <2>2. worker \in [Workers -> Desk]
    BY TypeParts
  <2> QED
    BY <2>1, <2>2 DEF Receive
<1>2. StripeType' /\ OtherType' /\ sub' \in Subs
  BY DEF Receive, TypeOK, StripeType, OtherType, others, Rows
<1> QED
  BY <1>1, <1>2, TypePartsNext

LEMMA AnswerType ==
  ASSUME TypeOK, NEW w \in Workers, Answer(w)
  PROVE  worker' \in [Workers -> Desk] /\ owed' \subseteq Events /\ faults' \in 0 .. MaxFaults
<1>1. worker' \in [Workers -> Desk]
  BY RestType, TypeParts DEF Answer
<1>2. faults' \in 0 .. MaxFaults
  BY FaultType DEF Answer, TypeOK
<1> QED
  BY <1>1, <1>2 DEF Answer, TypeOK

LEMMA FindType ==
  ASSUME TypeOK, NEW w \in Workers, FindEvent(w) \/ AnswerEvent(w)
  PROVE  TypeOK'
<1>1. worker' \in [Workers -> Desk] /\ owed' \subseteq Events /\ faults' \in 0 .. MaxFaults
  <2>1. Answer(w) \/ (Goto(w, "order") /\ UNCHANGED <<owed, faults>>)
    BY DEF FindEvent, AnswerEvent
  <2> QED
    BY <2>1, AnswerType, GotoType, TypeParts DEF Places, StripeType, OtherType
<1> QED
  BY <1>1, TypeParts, TypePartsNext DEF FindEvent, AnswerEvent, others, StripeType, OtherType

LEMMA ReadOrderType ==
  ASSUME TypeOK, NEW w \in Workers, ReadOrder(w)
  PROVE  TypeOK'
<1> DEFINE stored == IF IsInvoice(Of(w)) THEN order[Invoice(w)] ELSE NoOrder
<1>1. stored.shop \in BOOLEAN
  BY EventType DEF TypeOK, NoOrder
<1>2. worker' \in [Workers -> Desk]
  <2>1. worker \in [Workers -> Desk]
    BY TypeParts
  <2>2. PICK f \in BOOLEAN, c \in BOOLEAN :
          worker' = [worker EXCEPT ![w].found = f, ![w].id = stored.shop,
                                   ![w].pc = IF c THEN "claim" ELSE "write"]
    BY DEF ReadOrder
  <2> HIDE DEF stored
  <2>3. [worker[w] EXCEPT !.found = f, !.id = stored.shop,
                          !.pc = IF c THEN "claim" ELSE "write"] \in Desk
    BY <1>1, <2>1 DEF Desk, Places
  <2> QED
    BY <2>1, <2>2, <2>3
<1> QED
  BY <1>2, TypeParts, TypePartsNext DEF ReadOrder, others, StripeType, OtherType

LEMMA ClaimType ==
  ASSUME TypeOK, NEW w \in Workers, ClaimGoesOn(w)
  PROVE  TypeOK'
<1>1. worker' \in [Workers -> Desk]
  <2>1. worker \in [Workers -> Desk]
    BY TypeParts
  <2>2. [worker[w] EXCEPT !.found = TRUE,
            !.pc = IF Invoice(w) \in Recurring THEN "fulfil" ELSE "write"] \in Desk
    BY <2>1 DEF Desk, Places
  <2> QED
    BY <2>1, <2>2 DEF ClaimGoesOn
<1>2. order' \in [Invoices -> Rows]
  BY TypeParts DEF ClaimGoesOn, StripeType, Rows
<1> QED
  BY <1>1, <1>2, TypeParts, TypePartsNext DEF ClaimGoesOn, others, StripeType, OtherType

LEMMA RefusalType ==
  ASSUME TypeOK, NEW w \in Workers, ClaimRefused(w) \/ WriteRefused(w)
  PROVE  TypeOK'
<1>1. worker' \in [Workers -> Desk]
  BY RestType, TypeParts DEF ClaimRefused, WriteRefused
<1> QED
  BY <1>1, TypeParts, TypePartsNext
     DEF ClaimRefused, WriteRefused, others, StripeType, OtherType

LEMMA ExpiryType ==
  ASSUME TypeOK, NEW i \in Invoices, ClaimExpires(i)
  PROVE  TypeOK'
<1>1. order' \in [Invoices -> Rows]
  BY TypeParts DEF ClaimExpires, StripeType, Rows
<1> QED
  BY <1>1, TypeParts, TypePartsNext DEF ClaimExpires, others, StripeType, OtherType

(* Where an invocation has a claim it is for a recurring invoice.          *)
Claims ==
    \A w \in Workers :
        /\ At(w, "claim") => Succeeds(Of(w))
        /\ At(w, "fulfil") => Succeeds(Of(w)) /\ Invoice(w) \in Recurring

LEMMA FulfilType ==
  ASSUME TypeOK, Claims, NEW w \in Workers, CreateShopifyOrder(w) \/ Break(w)
  PROVE  TypeOK'
<1>1. made' \subseteq Recurring
  BY DEF CreateShopifyOrder, Break, Claims, TypeOK
<1>2. worker' \in [Workers -> Desk]
  <2>1. worker \in [Workers -> Desk]
    BY TypeParts
  <2>2. [worker[w] EXCEPT !.id = TRUE, !.pc = "write"] \in Desk
    BY <2>1 DEF Desk, Places
  <2> QED
    BY <2>1, <2>2, RestType DEF CreateShopifyOrder, Break
<1>3. faults' \in 0 .. MaxFaults
  BY FaultType DEF CreateShopifyOrder, Break, TypeOK
<1> QED
  BY <1>1, <1>2, <1>3, TypeParts, TypePartsNext
     DEF CreateShopifyOrder, Break, others, StripeType, OtherType

LEMMA PatchType ==
  ASSUME TypeOK, NEW w \in Workers
  PROVE  /\ IsInvoice(Of(w)) => PatchedPayment(worker[w].seen, Of(w)) \in Subs
         /\ ~IsInvoice(Of(w)) => PatchedStatus(worker[w].seen, Of(w)) \in Subs
<1>1. CreatedAt[Of(w)] \in Stamps
  BY EventType DEF Stamps
<1>2. ASSUME IsInvoice(Of(w)) PROVE SaysOf[Of(w)] \in Outcomes
  BY <1>2, EventType, LegacyAssumption DEF IsInvoice, Invoice
<1>3. ASSUME ~IsInvoice(Of(w)), ~StatusKept(worker[w].seen, Of(w))
      PROVE  SaysOf[Of(w)] \in Statuses
  BY <1>3, EventType, LegacyAssumption DEF IsInvoice, Invoice, StatusKept
<1>4. sub \in Subs
  BY DEF TypeOK
<1>5. IsInvoice(Of(w)) => PatchedPayment(worker[w].seen, Of(w)) \in Subs
  BY <1>1, <1>2, <1>4 DEF PatchedPayment, Subs
<1>6. ~IsInvoice(Of(w)) => PatchedStatus(worker[w].seen, Of(w)) \in Subs
  BY <1>1, <1>3, <1>4 DEF PatchedStatus, Subs
<1> QED
  BY <1>5, <1>6

LEMMA WriteType ==
  ASSUME TypeOK, NEW w \in Workers, Write(w)
  PROVE  TypeOK'
<1>1. worker' \in [Workers -> Desk]
  BY GotoType, TypeParts DEF Write, Places
<1>2. sub' \in Subs
  BY PatchType DEF Write
<1>3. order' \in [Invoices -> Rows] /\ contested' \subseteq Invoices
  <2>1. CASE IsInvoice(Of(w))
    <3>1. Invoice(w) \in Invoices /\ SaysOf[Of(w)] \in Outcomes
      BY <2>1, EventType, LegacyAssumption DEF IsInvoice, Invoice
    <3>2. Written(w) \in Rows
      <4>1. (order[Invoice(w)].shop \/ worker[w].id) \in BOOLEAN
        OBVIOUS
      <4>2. (IF Succeeds(Of(w)) THEN "paid" ELSE SaysOf[Of(w)])
              \in {"none", "processing", "stalled", "paid", "failed", "challenged"}
        BY <2>1, <3>1 DEF Outcomes, Succeeds
      <4> QED
        BY <4>1, <4>2 DEF Written, Rows
    <3> QED
      BY <2>1, <3>1, <3>2, TypeParts DEF Write, StripeType
  <2>2. CASE ~IsInvoice(Of(w))
    BY <2>2, TypeParts DEF Write, StripeType
  <2> QED
    BY <2>1, <2>2
<1>4. processed' \subseteq Events
  BY EventType DEF Write, TypeOK
<1> QED
  BY <1>1, <1>2, <1>3, <1>4, TypeParts, TypePartsNext DEF Write, others, StripeType, OtherType

LEMMA LinkType ==
  ASSUME TypeOK, NEW o \in Orders, LinkOrder(o)
  PROVE  TypeOK'
BY DEF LinkOrder, TypeOK

-----------------------------------------------------------------------------
(* The inductive invariant, in the parts that the theorems below need.     *)
(* Whoever is having an order made holds the claim, or has lost it.        *)
ClaimHeld ==
    \A w \in Workers :
        At(w, "fulfil") => order[Invoice(w)].status = "processing" \/ Invoice(w) \in contested

(* What is written of an order was made first, and what is processed, or   *)
(* about to be answered, is written.                                       *)
Ready(w) == Succeeds(Of(w)) /\ Invoice(w) \in Recurring

OrderFirst ==
    /\ \A i \in Recurring : order[i].shop => i \in made
    /\ \A w \in Workers :
          /\ IsInvoice(Of(w)) /\ Invoice(w) \in Recurring /\ worker[w].id =>
                Invoice(w) \in made
          /\ Ready(w) /\ At(w, "write") => worker[w].id
          /\ At(w, "answer") => Of(w) \in processed

WrittenFirst ==
    /\ \A e \in processed :
          Succeeds(e) /\ InvoiceOf[e] \in Recurring => order[InvoiceOf[e]].shop
    /\ Events \ (owed \cup ignored) \subseteq processed

(* As long as invocations do not overlap, the one in progress has read the *)
(* row as it is.                                                           *)
ReadIsStored ==
    /\ creation # "done" => sub = NoSub
    /\ \A w \in Workers : ~At(w, "idle") => sub.status # "none"
    /\ ~overlap =>
          /\ \A v, w \in Workers : ~At(v, "idle") /\ ~At(w, "idle") => v = w
          /\ \A w \in Workers : ~At(w, "idle") /\ ~At(w, "answer") => worker[w].seen = sub

IInv == TypeOK /\ Claims /\ ClaimHeld /\ OrderFirst /\ WrittenFirst /\ ReadIsStored

Safe == Claims /\ ClaimHeld /\ OrderFirst /\ WrittenFirst /\ ReadIsStored

LEMMA Workers1 == ASSUME TypeOK PROVE worker \in [Workers -> Desk]
BY TypeParts

LEMMA InitSafe == Init => Safe
<1> SUFFICES ASSUME Init PROVE Safe
  OBVIOUS
<1>1. \A w \in Workers : worker[w].pc = "idle" /\ worker[w].id = FALSE
  BY DEF Init, Resting
<1> QED
  BY <1>1, LegacyAssumption
     DEF Init, Safe, Claims, ClaimHeld, OrderFirst, WrittenFirst, ReadIsStored, At, NoOrder

(* A worker that comes to rest leaves nothing to show. *)
LEMMA RestKeeps ==
  ASSUME TypeOK, Safe, NEW w \in Workers, Rest(w),
         UNCHANGED <<creation, sub, order, processed, ignored, overlap, contested>>,
         made \subseteq made', owed' \subseteq owed,
         \A e \in owed \ owed' : e \in processed
  PROVE  Safe'
<1>1. \A v \in Workers : worker'[v] = worker[v] \/ worker'[v] = Resting
  BY DEF TypeOK, Rest
<1>2. Resting.pc = "idle" /\ Resting.id = FALSE
  BY DEF Resting
<1>3. Claims' /\ ClaimHeld'
  BY <1>1, <1>2 DEF Safe, Claims, ClaimHeld, At, Of, Invoice
<1>4. OrderFirst'
  BY <1>1, <1>2 DEF Safe, OrderFirst, At, Of, Invoice, Ready
<1>5. WrittenFirst'
  BY DEF Safe, WrittenFirst
<1>6. ReadIsStored'
  BY <1>1, <1>2 DEF Safe, ReadIsStored, At
<1> QED
  BY <1>3, <1>4, <1>5, <1>6 DEF Safe

LEMMA CreateKeeps ==
  ASSUME TypeOK, Safe, Create \/ CreationFails
  PROVE  Safe'
<1>1. UNCHANGED atStripe
  BY DEF Create, CreateContract, CreateAtGateway, CreateSubscription, CreateRow, CreationFails
<1>2. Claims' /\ ClaimHeld' /\ OrderFirst' /\ WrittenFirst'
  BY <1>1 DEF Safe, Claims, ClaimHeld, OrderFirst, WrittenFirst, At, Of, Invoice, Ready,
     atStripe
<1>3. ReadIsStored'
  <2>1. sub = NoSub /\ NoSub.status = "none"
    BY DEF Safe, ReadIsStored, Create, CreateContract, CreateAtGateway, CreateSubscription,
       CreateRow,
       CreationFails, NoSub
  <2>2. \A w \in Workers : At(w, "idle")
    BY <2>1 DEF Safe, ReadIsStored
  <2>3. creation' # "done" => sub' = NoSub
    BY <2>1 DEF Create, CreateContract, CreateAtGateway, CreateSubscription, CreateRow,
       CreationFails
  <2> QED
    BY <1>1, <2>2, <2>3 DEF ReadIsStored, At, atStripe
<1> QED
  BY <1>2, <1>3 DEF Safe

LEMMA ReceiveKeeps ==
  ASSUME TypeOK, Safe, NEW w \in Workers, NEW e \in Events, Receive(w, e)
  PROVE  Safe'
<1>1. CASE sub.status = "none"
  <2>1. UNCHANGED <<creation, sub, order, made, processed, worker, overlap, contested>>
    BY <1>1 DEF Receive, others
  <2>2. owed' \cup ignored' = owed \cup ignored
    BY <1>1 DEF Receive
  <2>3. Claims' /\ ClaimHeld' /\ OrderFirst'
    BY <2>1 DEF Safe, Claims, ClaimHeld, OrderFirst, At, Of, Invoice, Ready
  <2>4. WrittenFirst'
    BY <2>1, <2>2 DEF Safe, WrittenFirst
  <2>5. ReadIsStored'
    BY <2>1 DEF Safe, ReadIsStored, At
  <2> QED
    BY <2>3, <2>4, <2>5 DEF Safe
<1>2. CASE sub.status # "none"
  <2>1. /\ \A v \in Workers : v # w => worker'[v] = worker[v]
        /\ worker'[w].pc = "find" /\ worker'[w].id = FALSE /\ worker'[w].seen = sub
    <3> DEFINE begun == [Resting EXCEPT !.pc = "find", !.event = e, !.seen = sub]
    <3>1. worker' = [worker EXCEPT ![w] = begun]
      BY <1>2 DEF Receive
    <3>2. begun.pc = "find" /\ begun.id = FALSE /\ begun.seen = sub
      BY DEF Resting
    <3>3. worker'[w] = begun /\ \A v \in Workers : v # w => worker'[v] = worker[v]
      <4> HIDE DEF begun
      <4> QED
        BY <3>1, Workers1
    <3> QED
      BY <3>2, <3>3
  <2>2. UNCHANGED <<creation, sub, order, made, processed, owed, ignored, contested>>
    BY <1>2 DEF Receive, others
  <2>3. ~overlap' => ~overlap /\ \A v \in Workers \ {w} : At(v, "idle")
    BY <1>2 DEF Receive
  <2>4. Claims' /\ ClaimHeld'
    BY <2>1, <2>2 DEF Safe, Claims, ClaimHeld, At, Of, Invoice
  <2>5. OrderFirst'
    BY <2>1, <2>2 DEF Safe, OrderFirst, At, Of, Invoice, Ready
  <2>6. WrittenFirst'
    BY <2>2 DEF Safe, WrittenFirst
  <2>7. ReadIsStored'
    BY <1>2, <2>1, <2>2, <2>3 DEF Safe, ReadIsStored, At
  <2> QED
    BY <2>4, <2>5, <2>6, <2>7 DEF Safe
<1> QED
  BY <1>1, <1>2

LEMMA FindKeeps ==
  ASSUME TypeOK, Safe, NEW w \in Workers, FindEvent(w) \/ AnswerEvent(w)
  PROVE  Safe'
<1>1. CASE Answer(w) /\ Of(w) \in processed
  BY <1>1, RestKeeps DEF FindEvent, AnswerEvent, Answer, others
<1>2. CASE FindEvent(w) /\ Of(w) \notin processed
  <2>1. /\ \A v \in Workers : v # w => worker'[v] = worker[v]
        /\ worker'[w].pc = "order" /\ worker'[w].event = worker[w].event
        /\ worker'[w].id = worker[w].id /\ worker'[w].seen = worker[w].seen
    BY <1>2, Workers1 DEF FindEvent, Goto, Desk
  <2>2. Claims' /\ ClaimHeld'
    BY <1>2, <2>1 DEF FindEvent, Safe, Claims, ClaimHeld, At, Of, Invoice
  <2>3. OrderFirst'
    BY <1>2, <2>1 DEF FindEvent, Safe, OrderFirst, At, Of, Invoice, Ready
  <2>4. WrittenFirst'
    BY <1>2 DEF FindEvent, Safe, WrittenFirst
  <2>5. ReadIsStored'
    BY <1>2, <2>1 DEF FindEvent, Safe, ReadIsStored, At, others
  <2> QED
    BY <2>2, <2>3, <2>4, <2>5 DEF Safe
<1> QED
  BY <1>1, <1>2 DEF FindEvent, AnswerEvent, Safe, OrderFirst

LEMMA ReadOrderKeeps ==
  ASSUME TypeOK, Safe, NEW w \in Workers, ReadOrder(w)
  PROVE  Safe'
<1> DEFINE stored == IF IsInvoice(Of(w)) THEN order[Invoice(w)] ELSE NoOrder
           found  == stored.status # "none"
           claims == /\ Succeeds(Of(w))
                     /\ ~found \/ (Invoice(w) \in Recurring /\ ~stored.shop)
<1>1. /\ \A v \in Workers : v # w => worker'[v] = worker[v]
      /\ worker'[w].pc = (IF claims THEN "claim" ELSE "write")
      /\ worker'[w].id = stored.shop
      /\ worker'[w].event = worker[w].event /\ worker'[w].seen = worker[w].seen
  BY Workers1 DEF ReadOrder, Desk
<1>2. UNCHANGED <<creation, sub, order, made, processed, owed, ignored, overlap, contested>>
  BY DEF ReadOrder, others
<1>3. Ready(w) /\ ~claims => stored.shop
  BY DEF Ready
<1>4. Invoice(w) \in Recurring /\ stored.shop => Invoice(w) \in made
  BY DEF Safe, OrderFirst, NoOrder
<1>5. claims => Succeeds(Of(w))
  OBVIOUS
<1>6. At(w, "order")
  BY DEF ReadOrder
<1> HIDE DEF stored, found, claims
<1>7. Claims' /\ ClaimHeld'
  BY <1>1, <1>2, <1>5 DEF Safe, Claims, ClaimHeld, At, Of, Invoice
<1>8. OrderFirst'
  BY <1>1, <1>2, <1>3, <1>4 DEF Safe, OrderFirst, At, Of, Invoice, Ready
<1>9. WrittenFirst'
  BY <1>2 DEF Safe, WrittenFirst
<1>10. ReadIsStored'
  BY <1>1, <1>2, <1>6 DEF Safe, ReadIsStored, At
<1> QED
  BY <1>7, <1>8, <1>9, <1>10 DEF Safe

LEMMA ClaimKeeps ==
  ASSUME TypeOK, Safe, NEW w \in Workers, ClaimGoesOn(w)
  PROVE  Safe'
<1> DEFINE i == Invoice(w)
<1>1. /\ \A v \in Workers : v # w => worker'[v] = worker[v]
      /\ worker'[w].pc = (IF i \in Recurring THEN "fulfil" ELSE "write")
      /\ worker'[w].event = worker[w].event /\ worker'[w].seen = worker[w].seen
      /\ worker'[w].id = worker[w].id
  BY Workers1 DEF ClaimGoesOn, Desk
<1>2. UNCHANGED <<creation, sub, made, processed, owed, ignored, overlap, contested>>
  BY DEF ClaimGoesOn, others
<1>3. \A j \in Invoices : /\ order'[j].shop = order[j].shop
                          /\ order'[j].status \in {order[j].status, "processing"}
  BY DEF ClaimGoesOn, TypeOK
<1>4. At(w, "claim") /\ Succeeds(Of(w)) /\ i \in Invoices
  BY EventType DEF ClaimGoesOn, Safe, Claims, Succeeds
<1>5. i \in Recurring => order'[i].status = "processing"
  BY <1>4 DEF ClaimGoesOn, TypeOK
<1>6. \A v \in Workers : Succeeds(Of(v)) => Invoice(v) \in Invoices
  BY EventType DEF Succeeds
<1>7. Claims'
  BY <1>1, <1>2, <1>4 DEF Safe, Claims, At, Of, Invoice
<1>8. ClaimHeld'
  <2>1. ASSUME NEW v \in Workers, v # w, At(v, "fulfil")
        PROVE  order'[Invoice(v)].status = "processing" \/ Invoice(v) \in contested
    BY <2>1, <1>3, <1>6 DEF Safe, Claims, ClaimHeld
  <2> QED
    BY <1>1, <1>2, <1>5, <2>1 DEF ClaimHeld, At, Of, Invoice
<1>9. OrderFirst'
  BY <1>1, <1>2, <1>3, LegacyAssumption DEF Safe, OrderFirst, At, Of, Invoice, Ready
<1>10. WrittenFirst'
  BY <1>2, <1>3, LegacyAssumption DEF Safe, WrittenFirst
<1>11. ReadIsStored'
  BY <1>1, <1>2, <1>4 DEF Safe, ReadIsStored, At
<1> QED
  BY <1>7, <1>8, <1>9, <1>10, <1>11 DEF Safe

LEMMA RefusalKeeps ==
  ASSUME TypeOK, Safe, NEW w \in Workers, ClaimRefused(w) \/ WriteRefused(w) \/ Break(w)
  PROVE  Safe'
BY RestKeeps DEF ClaimRefused, WriteRefused, Break, others

LEMMA FulfilKeeps ==
  ASSUME TypeOK, Safe, NEW w \in Workers, CreateShopifyOrder(w)
  PROVE  Safe'
<1>1. /\ \A v \in Workers : v # w => worker'[v] = worker[v]
      /\ worker'[w].pc = "write" /\ worker'[w].id = TRUE
      /\ worker'[w].event = worker[w].event /\ worker'[w].seen = worker[w].seen
  BY Workers1 DEF CreateShopifyOrder, Desk
<1>2. UNCHANGED <<creation, sub, order, processed, owed, ignored, overlap, contested>>
  BY DEF CreateShopifyOrder, others
<1>3. made' = made \cup {Invoice(w)} /\ At(w, "fulfil")
  BY DEF CreateShopifyOrder
<1>4. Claims' /\ ClaimHeld'
  BY <1>1, <1>2 DEF Safe, Claims, ClaimHeld, At, Of, Invoice
<1>5. OrderFirst'
  BY <1>1, <1>2, <1>3 DEF Safe, OrderFirst, At, Of, Invoice, Ready
<1>6. WrittenFirst'
  BY <1>2 DEF Safe, WrittenFirst
<1>7. ReadIsStored'
  BY <1>1, <1>2, <1>3 DEF Safe, ReadIsStored, At
<1> QED
  BY <1>4, <1>5, <1>6, <1>7 DEF Safe

LEMMA ExpiryKeeps ==
  ASSUME TypeOK, Safe, NEW i \in Invoices, ClaimExpires(i)
  PROVE  Safe'
<1>1. UNCHANGED <<creation, sub, made, processed, owed, ignored, worker, overlap>>
  BY DEF ClaimExpires, others
<1>2. \A j \in Invoices : /\ order'[j].shop = order[j].shop
                          /\ j # i => order'[j].status = order[j].status
  BY DEF ClaimExpires, TypeOK
<1>3. \A v \in Workers : At(v, "fulfil") => Invoice(v) \in Invoices
  BY EventType DEF Safe, Claims, Succeeds
<1>4. ClaimHeld'
  <2>1. ASSUME NEW v \in Workers, At(v, "fulfil")
        PROVE  order'[Invoice(v)].status = "processing" \/ Invoice(v) \in contested'
    <3>1. CASE Invoice(v) = i
      BY <2>1, <3>1 DEF ClaimExpires
    <3>2. CASE Invoice(v) # i
      BY <1>2, <1>3, <2>1, <3>2 DEF ClaimExpires, Safe, ClaimHeld
    <3> QED
      BY <3>1, <3>2
  <2> QED
    BY <1>1, <2>1 DEF ClaimHeld, At, Of, Invoice
<1>5. Claims' /\ ReadIsStored'
  BY <1>1 DEF Safe, Claims, ReadIsStored, At, Of, Invoice
<1>6. OrderFirst' /\ WrittenFirst'
  BY <1>1, <1>2, LegacyAssumption
     DEF Safe, OrderFirst, WrittenFirst, At, Of, Invoice, Ready
<1> QED
  BY <1>4, <1>5, <1>6 DEF Safe

LEMMA LinkKeeps ==
  ASSUME TypeOK, Safe, NEW o \in Orders, LinkOrder(o)
  PROVE  Safe'
BY DEF LinkOrder, Safe, Claims, ClaimHeld, OrderFirst, WrittenFirst, ReadIsStored, At, Of,
   Invoice, Ready

LEMMA WriteKeeps ==
  ASSUME TypeOK, Safe, NEW w \in Workers, Write(w)
  PROVE  Safe'
<1> DEFINE i == Invoice(w)
<1>1. /\ \A v \in Workers : v # w => worker'[v] = worker[v]
      /\ worker'[w].pc = "answer"
      /\ worker'[w].event = worker[w].event /\ worker'[w].id = worker[w].id
  BY Workers1 DEF Write, Goto, Desk
<1>2. UNCHANGED <<creation, made, owed, ignored, overlap>> /\ At(w, "write")
  BY DEF Write, others
<1>3. processed' = processed \cup {Of(w)}
  BY DEF Write
<1>4. \A j \in Invoices : order[j].shop => order'[j].shop
  BY EventType DEF Write, Written, TypeOK
<1>5. \A j \in Invoices :
        order'[j].shop => order[j].shop \/ (IsInvoice(Of(w)) /\ j = i /\ worker[w].id)
  BY EventType DEF Write, Written, TypeOK
<1>6. IsInvoice(Of(w)) /\ worker[w].id => order'[i].shop
  BY EventType DEF Write, Written, TypeOK
<1>7. Claims'
  BY <1>1, <1>2 DEF Safe, Claims, At, Of, Invoice
<1>8. ClaimHeld'
  <2>1. ASSUME NEW v \in Workers, v # w, At(v, "fulfil")
        PROVE  order'[Invoice(v)].status = "processing" \/ Invoice(v) \in contested'
    <3>1. Invoice(v) \in Invoices
      BY <2>1, EventType DEF Safe, Claims, Succeeds
    <3>2. CASE IsInvoice(Of(w)) /\ Invoice(v) = i
      BY <2>1, <3>2 DEF Write
    <3>3. CASE ~(IsInvoice(Of(w)) /\ Invoice(v) = i)
      <4>1. order'[Invoice(v)] = order[Invoice(v)] /\ contested \subseteq contested'
        BY <3>1, <3>3, EventType DEF Write, TypeOK
      <4> QED
        BY <2>1, <4>1 DEF Safe, ClaimHeld
    <3> QED
      BY <3>2, <3>3
  <2> QED
    BY <1>1, <2>1 DEF ClaimHeld, At, Of, Invoice
<1>9. OrderFirst'
  <2>1. \A j \in Recurring : order'[j].shop => j \in made
    BY <1>5, LegacyAssumption DEF Safe, OrderFirst
  <2> QED
    BY <1>1, <1>2, <1>3, <2>1 DEF Safe, OrderFirst, At, Of, Invoice, Ready
<1>10. WrittenFirst'
  <2>1. ASSUME NEW e \in processed', Succeeds(e), InvoiceOf[e] \in Recurring
        PROVE  order'[InvoiceOf[e]].shop
    <3>1. CASE e \in processed
      BY <1>4, <2>1, <3>1, LegacyAssumption DEF Safe, WrittenFirst
    <3>2. CASE e = Of(w)
      <4>1. worker[w].id
        BY <1>2, <2>1, <3>2 DEF Safe, OrderFirst, Ready, Invoice
      <4> QED
        BY <1>6, <2>1, <3>2, <4>1 DEF Succeeds, Invoice
    <3> QED
      BY <1>3, <2>1, <3>1, <3>2
  <2> QED
    BY <1>2, <1>3, <2>1 DEF Safe, WrittenFirst
<1>11. ReadIsStored'
  <2>1. sub.status # "none" /\ creation = "done"
    BY <1>2 DEF Safe, ReadIsStored, At, NoSub
  <2>2. sub'.status # "none"
    <3>1. sub.status \in Statuses /\ \A e \in Events : SaysOf[e] = "none" => StatusKept(sub, e)
      BY <2>1 DEF TypeOK, Subs, StatusKept
    <3>2. \/ sub'.status = sub.status
          \/ ~StatusKept(worker[w].seen, Of(w)) /\ sub'.status = SaysOf[Of(w)]
      BY DEF Write, PatchedPayment, PatchedStatus, TypeOK, Subs
    <3> QED
      BY <2>1, <3>2 DEF StatusKept
  <2>3. ~overlap => \A v \in Workers \ {w} : At(v, "idle")
    BY <1>2 DEF Safe, ReadIsStored, At
  <2> QED
    BY <1>1, <1>2, <2>1, <2>2, <2>3 DEF Safe, ReadIsStored, At
<1> QED
  BY <1>7, <1>8, <1>9, <1>10, <1>11 DEF Safe

-----------------------------------------------------------------------------
LEMMA InvInit == Init => IInv
BY TypeInit, InitSafe DEF IInv, Safe

LEMMA InvNext == IInv /\ [Next]_vars => IInv'
<1> SUFFICES ASSUME TypeOK, Safe, [Next]_vars PROVE TypeOK' /\ Safe'
  BY DEF IInv, Safe
<1>0. CASE UNCHANGED vars
  BY <1>0 DEF vars, TypeOK, Safe, Claims, ClaimHeld, OrderFirst, WrittenFirst, ReadIsStored,
     At, Of, Invoice, Ready
<1>1. CASE Create \/ CreationFails
  BY <1>1, CreateType, CreateKeeps
<1>2. ASSUME NEW w \in Workers, NEW e \in Events, Receive(w, e) PROVE TypeOK' /\ Safe'
  BY <1>2, ReceiveType, ReceiveKeeps
<1>3. ASSUME NEW w \in Workers, Continue(w) \/ Break(w) PROVE TypeOK' /\ Safe'
  <2>1. Claims
    BY DEF Safe
  <2> QED
    BY <1>3, <2>1, FindType, FindKeeps, ReadOrderType, ReadOrderKeeps, ClaimType, ClaimKeeps,
       RefusalType, RefusalKeeps, FulfilType, FulfilKeeps, WriteType, WriteKeeps DEF Continue
<1>4. ASSUME NEW i \in Invoices, ClaimExpires(i) PROVE TypeOK' /\ Safe'
  BY <1>4, ExpiryType, ExpiryKeeps
<1>5. ASSUME NEW o \in Orders, LinkOrder(o)
      PROVE  TypeOK' /\ Safe'
  BY <1>5, LinkType, LinkKeeps
<1> QED
  BY <1>0, <1>1, <1>2, <1>3, <1>4, <1>5 DEF Next

LEMMA InvCorrect == Spec => []IInv
BY InvInit, InvNext, PTL DEF Spec

(* Every variable keeps its type.                                          *)
THEOREM TypeCorrect == Spec => []TypeOK
BY InvCorrect, PTL DEF IInv

-----------------------------------------------------------------------------
(* Only a claim brings an invocation to the call of the App, and what is   *)
(* contested stays so.                                                     *)
LEMMA FulfilOrigin ==
  ASSUME TypeOK, [Next]_vars, NEW v \in Workers, At(v, "fulfil")'
  PROVE  worker'[v] = worker[v] \/ ClaimGoesOn(v)
<1>1. CASE UNCHANGED worker
  BY <1>1
<1>2. ASSUME NEW w \in Workers, NEW e \in Events, Receive(w, e)
      PROVE  worker'[v] = worker[v]
  BY <1>2, Workers1 DEF Receive, Resting, Desk, At
<1>3. ASSUME NEW w \in Workers, Continue(w) \/ Break(w)
      PROVE  worker'[v] = worker[v] \/ ClaimGoesOn(v)
  BY <1>3, Workers1 DEF Continue, Break, FindEvent, ReadOrder, ClaimGoesOn, ClaimRefused,
     CreateShopifyOrder, Write, WriteRefused, AnswerEvent, Answer, Rest, Goto, Resting, Desk,
     At
<1> QED
  BY <1>1, <1>2, <1>3 DEF Next, Create, CreateContract, CreateAtGateway, CreateSubscription,
     CreateRow,
     CreationFails, ClaimExpires, LinkOrder, atStripe, vars

LEMMA ContestedStays ==
  ASSUME [Next]_vars
  PROVE  contested \subseteq contested'
BY DEF Next, Create, CreateContract, CreateAtGateway, CreateSubscription, CreateRow,
   CreationFails, Receive,
   Continue, FindEvent, ReadOrder, ClaimGoesOn, ClaimRefused, CreateShopifyOrder, Write,
   WriteRefused, AnswerEvent, Break, ClaimExpires, LinkOrder, atStripe, vars

LEMMA ClaimExcludes ==
  ASSUME IInv, NEW v \in Workers, NEW w \in Workers, v # w,
         ClaimGoesOn(w), At(v, "fulfil"), Invoice(v) = Invoice(w)
  PROVE  Invoice(w) \in contested
<1>1. Claimable(Invoice(w))
  BY DEF ClaimGoesOn, IInv, Claims
<1> QED
  BY <1>1 DEF IInv, ClaimHeld, Claimable

LEMMA OneNext == IInv /\ OneFulfiller /\ [Next]_vars => OneFulfiller'
<1> SUFFICES ASSUME IInv, OneFulfiller, [Next]_vars, NEW v \in Workers, NEW w \in Workers,
                    v # w, At(v, "fulfil")', At(w, "fulfil")', Invoice(v)' = Invoice(w)'
             PROVE  Invoice(v)' \in contested'
  BY DEF OneFulfiller
<1>t. TypeOK
  BY DEF IInv
<1>o. ASSUME NEW u \in Workers, At(u, "fulfil")'
      PROVE  worker'[u] = worker[u] \/ ClaimGoesOn(u)
  BY <1>t, <1>o, FulfilOrigin
<1>s. ASSUME NEW u \in Workers, ClaimGoesOn(u)
      PROVE  /\ Invoice(u)' = Invoice(u)
             /\ \A x \in Workers \ {u} : worker'[x] = worker[x]
  BY <1>t, <1>s, Workers1 DEF ClaimGoesOn, Desk, Invoice, Of
<1>1. CASE ClaimGoesOn(v)
  <2>1. At(w, "fulfil") /\ Invoice(w) = Invoice(v)
    BY <1>1, <1>s DEF At, Invoice, Of
  <2> QED
    BY <1>1, <1>s, <2>1, ClaimExcludes, ContestedStays
<1>2. CASE ClaimGoesOn(w)
  <2>1. At(v, "fulfil") /\ Invoice(v) = Invoice(w)
    BY <1>2, <1>s DEF At, Invoice, Of
  <2> QED
    BY <1>2, <1>s, <2>1, ClaimExcludes, ContestedStays
<1>3. CASE worker'[v] = worker[v] /\ worker'[w] = worker[w]
  BY <1>3, ContestedStays DEF OneFulfiller, At, Invoice, Of
<1> QED
  BY <1>o, <1>1, <1>2, <1>3

(* One invocation at a time has the App make the order of an invoice, for  *)
(* any number of invocations, events and faults.                           *)
THEOREM SingleFulfiller == Spec => []OneFulfiller
<1>1. Init => OneFulfiller
  BY DEF Init, OneFulfiller, At, Resting
<1> QED
  BY <1>1, OneNext, InvCorrect, PTL DEF Spec

-----------------------------------------------------------------------------
(* The row of the subscription does not turn back while invocations do not *)
(* overlap: the one that writes has read what is stored.                   *)
LEMMA StepForward ==
  ASSUME IInv, [Next]_vars, ~overlap, sub.status # "none"
  PROVE  Onwards
<1>1. sub.paymentAt \in Nat /\ sub.statusAt \in Nat /\ sub \in Subs
  BY LegacyAssumption DEF IInv, TypeOK, Subs, Stamps
<1>2. CASE sub' = sub
  BY <1>1, <1>2 DEF Onwards
<1>3. ASSUME NEW w \in Workers, Write(w)
      PROVE  Onwards
  <2>1. worker[w].seen = sub
    BY <1>3 DEF IInv, ReadIsStored, Write, At
  <2>2. CreatedAt[Of(w)] \in Nat /\ (Timed => CreatedAt[Of(w)] # 0)
    BY EventType, LegacyAssumption DEF IInv, Timed
  <2>3. CASE sub' = PatchedPayment(sub, Of(w))
    BY <1>1, <2>2, <2>3 DEF Onwards, PatchedPayment, PaymentStale, Subs
  <2>4. CASE sub' = PatchedStatus(sub, Of(w))
    BY <1>1, <2>2, <2>4 DEF Onwards, PatchedStatus, StatusStale, StatusKept, Subs
  <2> QED
    BY <1>3, <2>1, <2>3, <2>4 DEF Write
<1>4. sub' = sub \/ \E w \in Workers : Write(w)
  <2>1. ~CreateRow
    BY DEF CreateRow, IInv, ReadIsStored, NoSub
  <2> QED
    BY <2>1 DEF Next, Create, CreateContract, CreateAtGateway, CreateSubscription,
       CreationFails, Receive,
       Continue, FindEvent, ReadOrder, ClaimGoesOn, ClaimRefused, CreateShopifyOrder,
       WriteRefused, AnswerEvent, Break, ClaimExpires, LinkOrder, atStripe, vars
<1> QED
  BY <1>2, <1>3, <1>4

(* Time, status and payment of the subscription's row only go forward, for *)
(* any number of invocations, events and faults.                           *)
THEOREM RowNeverBack == Spec => NeverBack
<1>1. IInv /\ [Next]_vars =>
        [~overlap /\ sub.status # "none" => Onwards]_vars
  BY StepForward
<1> QED
  BY <1>1, InvCorrect, PTL DEF Spec, NeverBack

-----------------------------------------------------------------------------
(* The refinement. *)
Recorded == {i \in Recurring : order[i].shop}

(* The three sets are functions of these.                                  *)
LEMMA Stutter ==
  ASSUME UNCHANGED <<made, owed, ignored>> \/
           (UNCHANGED made /\ owed' \cup ignored' = owed \cup ignored),
         \A j \in Invoices : order'[j].shop = order[j].shop
  PROVE  UNCHANGED <<made, Recorded, Settled>>
<1>1. Recorded' = Recorded
  BY LegacyAssumption DEF Recorded
<1>2. Settled' = Settled
  BY DEF Settled
<1> QED
  BY <1>1, <1>2

LEMMA OrderStep ==
  ASSUME IInv, NEW w \in Workers, CreateShopifyOrder(w) \/ Break(w)
  PROVE  [Fulfilment!Next]_Fulfilment!vars
<1>1. UNCHANGED <<order, owed, ignored>>
  BY DEF CreateShopifyOrder, Break, others
<1>2. UNCHANGED <<Recorded, Settled>>
  BY <1>1 DEF Recorded, Settled
<1>3. made' = made \/ (Invoice(w) \in Recurring /\ made' = made \cup {Invoice(w)})
  BY DEF CreateShopifyOrder, Break, IInv, Claims
<1>4. CASE made' = made
  BY <1>2, <1>4 DEF Fulfilment!vars, Recorded
<1>5. CASE made' # made
  <2>1. Fulfilment!Order(Invoice(w))
    BY <1>2, <1>3, <1>5 DEF Fulfilment!Order, Recorded
  <2> QED
    BY <1>3, <1>5, <2>1 DEF Fulfilment!Next
<1> QED
  BY <1>4, <1>5

LEMMA RecordStep ==
  ASSUME IInv, NEW w \in Workers, Write(w)
  PROVE  [Fulfilment!Next]_Fulfilment!vars
<1> DEFINE i == Invoice(w)
<1>1. UNCHANGED <<made, owed, ignored>>
  BY DEF Write, others
<1>2. Settled' = Settled
  BY <1>1 DEF Settled
<1>3. \A j \in Invoices : \/ order'[j].shop = order[j].shop
                          \/ j = i /\ IsInvoice(Of(w)) /\ order'[j].shop = worker[w].id
  BY EventType DEF IInv, Write, Written, TypeOK
<1>4. CASE Recorded' = Recorded
  BY <1>1, <1>2, <1>4 DEF Fulfilment!vars, Recorded
<1>5. CASE Recorded' # Recorded
  <2>1. /\ i \in Recurring /\ i \notin Recorded /\ IsInvoice(Of(w)) /\ worker[w].id
        /\ Recorded' = Recorded \cup {i}
    <3>1. \A j \in Recurring : j # i => (j \in Recorded' <=> j \in Recorded)
      BY <1>3, LegacyAssumption DEF Recorded
    <3>2. i \in Recurring /\ (i \in Recorded' <=> i \notin Recorded)
      BY <1>5, <3>1 DEF Recorded
    <3>3. i \notin Recorded
      <4>1. order[i].shop => order'[i].shop
        BY EventType DEF IInv, Write, Written, TypeOK
      <4> QED
        BY <3>2, <4>1 DEF Recorded
    <3>4. IsInvoice(Of(w)) /\ worker[w].id
      BY <1>3, <3>2, <3>3, LegacyAssumption DEF Recorded
    <3> QED
      BY <3>1, <3>2, <3>3, <3>4 DEF Recorded
  <2>2. i \in made
    BY <2>1 DEF IInv, OrderFirst
  <2>3. PICK j \in Recurring : j = i
    BY <2>1
  <2>4. Fulfilment!Record(j)
    BY <1>1, <1>2, <2>1, <2>2, <2>3 DEF Fulfilment!Record, Recorded
  <2> QED
    BY <2>4 DEF Fulfilment!Next
<1> QED
  BY <1>4, <1>5

LEMMA SettleStep ==
  ASSUME IInv, NEW w \in Workers, FindEvent(w) \/ AnswerEvent(w)
  PROVE  [Fulfilment!Next]_Fulfilment!vars
<1> DEFINE e == Of(w)
           i == InvoiceOf[e]
<1>1. UNCHANGED <<made, order, ignored>>
  BY DEF FindEvent, AnswerEvent, others
<1>2. Recorded' = Recorded
  BY <1>1 DEF Recorded
<1>3. owed' = owed \/ (owed' = owed \ {e} /\ e \in processed)
  BY DEF FindEvent, AnswerEvent, Answer, IInv, OrderFirst
<1>4. CASE Settled' = Settled
  BY <1>1, <1>2, <1>4 DEF Fulfilment!vars, Recorded
<1>5. CASE Settled' # Settled
  <2>0. owed' = owed \ {e} /\ e \in processed /\ e \in Events
    BY <1>1, <1>3, <1>5, EventType DEF Settled, IInv
  <2>1. \A d \in Events \ (owed' \cup ignored') : d \in Events \ (owed \cup ignored) \/ d = e
    BY <1>1, <2>0
  <2>2. Settled \subseteq Settled'
    BY <1>1, <2>0 DEF Settled
  <2>3. Settled' \subseteq Settled \cup {i}
    BY <2>1 DEF Settled
  <2>4. Succeeds(e) /\ i \in Recurring /\ i \notin Settled /\ Settled' = Settled \cup {i}
    <3>1. i \notin Settled /\ i \in Settled' /\ Settled' = Settled \cup {i}
      BY <1>5, <2>2, <2>3
    <3>2. PICK d \in Events \ (owed' \cup ignored') : Succeeds(d) /\ InvoiceOf[d] = i
      BY <3>1 DEF Settled
    <3>3. i \in Recurring
      BY <3>1 DEF Settled
    <3>4. d = e
      BY <2>1, <3>1, <3>2, <3>3 DEF Settled
    <3> QED
      BY <3>1, <3>2, <3>3, <3>4
  <2>5. i \in Recorded
    BY <2>0, <2>4 DEF IInv, WrittenFirst, Recorded
  <2>6. Fulfilment!Settle(i)
    BY <1>1, <1>2, <2>4, <2>5 DEF Fulfilment!Settle, Recorded
  <2> QED
    BY <2>4, <2>6 DEF Fulfilment!Next
<1> QED
  BY <1>4, <1>5

LEMMA StepImplements ==
  ASSUME IInv, [Next]_vars
  PROVE  [Fulfilment!Next]_Fulfilment!vars
<1>0. ASSUME UNCHANGED <<made, Recorded, Settled>> PROVE UNCHANGED Fulfilment!vars
  BY <1>0 DEF Fulfilment!vars, Recorded
<1>1. CASE UNCHANGED <<made, order, owed, ignored>>
  BY <1>0, <1>1, Stutter
<1>2. ASSUME NEW w \in Workers, NEW e \in Events, Receive(w, e)
      PROVE  UNCHANGED Fulfilment!vars
  <2>1. UNCHANGED <<made, order>> /\ owed' \cup ignored' = owed \cup ignored
    BY <1>2 DEF Receive
  <2> QED
    BY <1>0, <2>1, Stutter
<1>3. ASSUME NEW w \in Workers, ClaimGoesOn(w) PROVE UNCHANGED Fulfilment!vars
  <2>1. \A j \in Invoices : order'[j].shop = order[j].shop
    BY <1>3 DEF ClaimGoesOn, IInv, TypeOK
  <2>2. UNCHANGED <<made, owed, ignored>>
    BY <1>3 DEF ClaimGoesOn
  <2> QED
    BY <1>0, <2>1, <2>2, Stutter
<1>4. ASSUME NEW i \in Invoices, ClaimExpires(i) PROVE UNCHANGED Fulfilment!vars
  <2>1. \A j \in Invoices : order'[j].shop = order[j].shop
    BY <1>4 DEF ClaimExpires, IInv, TypeOK
  <2>2. UNCHANGED <<made, owed, ignored>>
    BY <1>4 DEF ClaimExpires
  <2> QED
    BY <1>0, <2>1, <2>2, Stutter
<1>5. ASSUME NEW w \in Workers, Continue(w) \/ Break(w)
      PROVE  [Fulfilment!Next]_Fulfilment!vars
  <2>1. CASE ReadOrder(w) \/ ClaimRefused(w) \/ WriteRefused(w)
    BY <1>1, <2>1 DEF ReadOrder, ClaimRefused, WriteRefused
  <2> QED
    BY <1>3, <1>5, <2>1, SettleStep, OrderStep, RecordStep DEF Continue
<1> QED
  BY <1>1, <1>2, <1>3, <1>4, <1>5 DEF Next, Create, CreateContract, CreateAtGateway,
     CreateSubscription,
     CreateRow, CreationFails, LinkOrder, atStripe, vars

(* The handling of Stripe's events implements the promise about invoices:  *)
(* an order first, its record next, 200 to Stripe last.                    *)
THEOREM FulfilmentImplemented == Spec => ImplementsFulfilment
<1>1. Init => Fulfilment!Init
  BY LegacyAssumption DEF Init, Fulfilment!Init, Settled, NoOrder
<1>2. IInv /\ [Next]_vars => [Fulfilment!Next]_Fulfilment!vars
  BY StepImplements
<1> QED
  BY <1>1, <1>2, InvCorrect, PTL DEF Spec, Fulfilment!Spec, ImplementsFulfilment
=============================================================================
