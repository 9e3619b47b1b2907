--------------------------- MODULE InvoiceFulfilment ---------------------------
(***************************************************************************)
(* What the handling of Stripe's invoices promises of the ones that must   *)
(* become an order of Shopify: an order is made, then it is recorded with  *)
(* the invoice, and only then is Stripe told that its event was taken in.  *)
(* Each of the three happens at most once and is never undone.             *)
(***************************************************************************)
CONSTANTS Recurring     \* invoices that must become an order

VARIABLES
    ordered,     \* invoices for which an order has been made
    recorded,    \* invoices whose order is recorded
    settled      \* invoices whose success Stripe knows to be taken in

vars == <<ordered, recorded, settled>>

Init == ordered = {} /\ recorded = {} /\ settled = {}

Order(i) ==
    /\ i \notin ordered
    /\ ordered' = ordered \cup {i}
    /\ UNCHANGED <<recorded, settled>>

Record(i) ==
    /\ i \in ordered \ recorded
    /\ recorded' = recorded \cup {i}
    /\ UNCHANGED <<ordered, settled>>

Settle(i) ==
    /\ i \in recorded \ settled
    /\ settled' = settled \cup {i}
    /\ UNCHANGED <<ordered, recorded>>

Next == \E i \in Recurring : Order(i) \/ Record(i) \/ Settle(i)

Spec == Init /\ [][Next]_vars
=============================================================================
