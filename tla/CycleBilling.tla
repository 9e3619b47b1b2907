---------------------------- MODULE CycleBilling ----------------------------
(***************************************************************************)
(* What the billing engine promises of each billing date, whatever its     *)
(* jobs, workers, leases and webhooks do: attempts are made in turn, one   *)
(* only after those before it were declined for good; what is booked as    *)
(* paid was charged; and one final action is decided and carried out.      *)
(***************************************************************************)
EXTENDS Naturals

CONSTANTS
    Dates,     \* billing dates
    Tries,     \* the numbers of the attempts the engine may make for each
    Outside,   \* stands for an attempt the engine did not make
    Actions    \* final actions

VARIABLES
    charge,    \* date -> try -> what Shopify did about it
    booked,    \* date -> tries whose order is booked
    paid,      \* dates that count as paid
    action,    \* date -> the final action decided
    done       \* dates whose final action was carried out

vars == <<charge, booked, paid, action, done>>

Results == {"pending", "declined", "charged"}

Init ==
    /\ charge = [c \in Dates |-> [n \in Tries |-> "none"]]
    /\ booked = [c \in Dates |-> {}]
    /\ paid = {}
    /\ action = [c \in Dates |-> "none"]
    /\ done = {}

InTurn(c, n) == \A m \in Tries : m < n => charge[c][m] = "declined"

Ask(c, n) ==
    /\ charge[c][n] = "none" /\ InTurn(c, n)
    /\ \E r \in Results : charge' = [charge EXCEPT ![c][n] = r]
    /\ UNCHANGED <<booked, paid, action, done>>

Settle(c, n) ==
    /\ charge[c][n] = "pending"
    /\ \E r \in {"declined", "charged"} : charge' = [charge EXCEPT ![c][n] = r]
    /\ UNCHANGED <<booked, paid, action, done>>

(* The order of a charge, or of an attempt made outside the engine. *)
Book(c, n) ==
    /\ n # Outside => charge[c][n] = "charged"
    /\ booked' = [booked EXCEPT ![c] = @ \cup {n}]
    /\ paid' = paid \cup {c}
    /\ UNCHANGED <<charge, action, done>>

(* A date once booked counts as paid again, although acted on meanwhile. *)
Recognise(c) ==
    /\ booked[c] # {}
    /\ paid' = paid \cup {c}
    /\ UNCHANGED <<charge, booked, action, done>>

Decide(c, a) ==
    /\ action[c] = "none" /\ c \notin done
    /\ action' = [action EXCEPT ![c] = a]
    /\ UNCHANGED <<charge, booked, paid, done>>

(* Carried out for good; a date acted on no longer counts as paid. *)
Act(c) ==
    /\ action[c] # "none"
    /\ done' = done \cup {c} /\ paid' = paid \ {c}
    /\ UNCHANGED <<charge, booked, action>>

Next ==
    \E c \in Dates :
        \/ \E n \in Tries : Ask(c, n) \/ Settle(c, n)
        \/ \E n \in Tries \cup {Outside} : Book(c, n)
        \/ Recognise(c)
        \/ \E a \in Actions : Decide(c, a)
        \/ Act(c)

Spec == Init /\ [][Next]_vars
=============================================================================
