------------------------------ MODULE OneGift ------------------------------
(***************************************************************************)
(* What the gift engine promises of one order, whatever its workers, the   *)
(* queue and Shopify do in between: one gift at most, announced before it  *)
(* is added, and a job whose word about it can be trusted. The promise is  *)
(* kept until it is broken off, and says nothing of what happens then.     *)
(***************************************************************************)
CONSTANT Gifts   \* the gifts that may be added: an attempt and its variant

VARIABLES
    given,    \* gifts on the order
    coming,   \* gifts Shopify has yet to put there
    trying,   \* is an attempt to add the gift under way
    word,     \* what the job says of the gift
    kept      \* is the promise still kept

vars == <<given, coming, trying, word, kept>>

(* "open": to be decided; "sought": perhaps added; "given", "refused". *)
Words == {"open", "sought", "given", "refused"}

NoGiftYet == given = {} /\ coming = {}

Init ==
    /\ given = {} /\ coming = {}
    /\ trying = FALSE
    /\ word = "open"
    /\ kept = TRUE

(* An attempt says so first, and only one is under way. It may overtake a  *)
(* refusal written meanwhile on behalf of the merchant.                    *)
Try ==
    /\ word \in {"open", "refused"} /\ ~trying /\ NoGiftYet
    /\ trying' = TRUE /\ word' = "sought"
    /\ UNCHANGED <<given, coming>>

(* The attempt adds the gift, at once or when Shopify gets to it. *)
Add(g) ==
    /\ trying /\ NoGiftYet
    /\ \/ given' = {g} /\ UNCHANGED coming
       \/ coming' = {g} /\ UNCHANGED given
    /\ trying' = FALSE
    /\ UNCHANGED word

GiveUp ==
    /\ trying
    /\ trying' = FALSE
    /\ UNCHANGED <<given, coming, word>>

Arrive(g) ==
    /\ g \in coming
    /\ given' = given \cup {g} /\ coming' = coming \ {g}
    /\ UNCHANGED <<trying, word>>

(* The word changes: a gift is confirmed only when it is there, denied only *)
(* when there is none and none will come; a confirmed one may be doubted.  *)
Say(s) ==
    /\ s = "given" => given # {}
    /\ s \in {"open", "refused"} => NoGiftYet /\ ~trying
    /\ s = "sought" => word = "given"
    /\ word' = s
    /\ UNCHANGED <<given, coming, trying>>

Step ==
    \/ Try \/ GiveUp
    \/ \E g \in Gifts : Add(g) \/ Arrive(g)
    \/ \E s \in Words : Say(s)

Next ==
    \/ kept /\ kept' /\ Step
    \/ ~kept'

Spec == Init /\ [][Next]_vars
=============================================================================
