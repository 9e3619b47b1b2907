----------------------------- MODULE Lifecycle -----------------------------
(***************************************************************************)
(* SubscriptionLifecycleService.execute: pause, resume and cancel of one   *)
(* subscription under idempotency keys. A request is an invocation of the  *)
(* service, by a customer, a merchant or the retry engine; several run at  *)
(* once, with the same key or with different ones, and each is cut at its  *)
(* awaits. The gateway is Stripe or, through the Shopify App, Shopify.     *)
(***************************************************************************)
EXTENDS Naturals

CONSTANTS
    Requests,    \* requests that may be in progress at once
    Keys,        \* idempotency keys
    Gateways,    \* gateways the subscription may have
    MaxCrashes   \* how often an invocation may die

ASSUME LifecycleAssumption ==
    /\ Keys # {}
    /\ Gateways \subseteq {"shopify", "stripe"}
    /\ MaxCrashes \in Nat

Actions   == {"pause", "resume", "cancel"}
Terminal  == {"cancelled", "expired", "failed"}
SubStatus == {"active", "paused"} \cup Terminal
Target    == [a \in Actions |-> CASE a = "pause"  -> "paused"
                                  [] a = "resume" -> "active"
                                  [] a = "cancel" -> "cancelled"]

VARIABLES
    gateway,       \* Subscription.gateway
    subscription,  \* Subscription.status, in lower case
    record,        \* key -> SubscriptionLifecycleAction
    external,      \* the subscription's status at the gateway
    applied,       \* <<key, action>> pairs the gateway has carried out
    coming,        \* pairs it has received and will carry out
    request,       \* request -> where it stands and what it has read
    crashes,       \* invocations that died so far
    overrun        \* keys whose call once took longer than the 60 s after
                   \* which a retry takes the record over; nothing reads it

vars ==
    <<gateway, subscription, record, external, applied, coming, request, crashes, overrun>>

(* stale: updatedAt is more than 60 s back. *)
Row   == [status : {"absent", "pending", "recovering", "external_succeeded",
                    "succeeded", "failed"},
          action : Actions, stale : BOOLEAN]
NoRow == [status |-> "absent", action |-> "pause", stale |-> FALSE]

(* current: the record is still the one read, with the same updatedAt. *)
RequestState ==
    [pc : {"idle", "lookup", "check", "create", "reread", "recover", "call",
           "mark", "finalize", "fail"},
     key : Keys, action : Actions, seen : SubStatus, row : Row, current : BOOLEAN]
Idle == [pc |-> "idle", key |-> CHOOSE k \in Keys : TRUE, action |-> "pause",
         seen |-> "active", row |-> NoRow, current |-> FALSE]

TypeOK ==
    /\ gateway \in Gateways
    /\ subscription \in SubStatus
    /\ record \in [Keys -> Row]
    /\ \A k \in Keys : record[k].stale => record[k].status \in {"pending", "recovering"}
    /\ external \in SubStatus
    /\ applied \subseteq Keys \X Actions
    /\ coming \subseteq Keys \X Actions
    /\ request \in [Requests -> RequestState]
    /\ crashes \in 0 .. MaxCrashes
    /\ overrun \subseteq Keys /\ (overrun # {} => gateway = "stripe")

Init ==
    /\ gateway \in Gateways
    /\ subscription \in {"active", "paused"}
    /\ record = [k \in Keys |-> NoRow]
    /\ external = subscription
    /\ applied = {}
    /\ coming = {}
    /\ request = [w \in Requests |-> Idle]
    /\ crashes = 0
    /\ overrun = {}

-----------------------------------------------------------------------------
At(w, pc)   == request[w].pc = pc
Goto(w, pc) == request' = [request EXCEPT ![w].pc = pc]
Rest(w)     == request' = [request EXCEPT ![w] = Idle]

(* Every write of a record moves its updatedAt; with a bug it does not. *)
RewrittenUndated(row, status) == [row EXCEPT !.status = status]
Rewritten(row, status)        == [row EXCEPT !.status = status, !.stale = FALSE]

Write(w, pc, status) ==
    LET k == request[w].key
    IN  /\ record' = [record EXCEPT ![k] = Rewritten(@, status)]
        /\ request' = [v \in Requests |->
              IF v = w THEN (IF pc = "idle" THEN Idle ELSE [request[w] EXCEPT !.pc = pc])
              ELSE [request[v] EXCEPT !.current = @ /\ request[v].key # k]]

Surroundings == <<gateway, external, applied, coming, crashes, overrun>>
OnlyRequest  == UNCHANGED <<Surroundings, subscription, record>>
OnlyRecord   == UNCHANGED <<Surroundings, subscription>>

-----------------------------------------------------------------------------
Permitted(a, status) ==
    /\ ~(a = "resume" /\ status \in {"cancelled", "expired"})
    /\ ~(a = "pause" /\ status \in Terminal)

(* A transition that is not permitted is refused and leaves no trace. *)
Begin(w, k, a) ==
    /\ At(w, "idle")
    /\ Permitted(a, subscription)
    /\ request' = [request EXCEPT ![w] =
          [Idle EXCEPT !.pc = "lookup", !.key = k, !.action = a, !.seen = subscription]]
    /\ OnlyRequest

Recoverable(row) ==
    \/ row.status = "failed"
    \/ row.status \in {"pending", "recovering"} /\ row.stale

(* Where the record of its key sends a request: back, when it is another   *)
(* action's, in progress, succeeded, or failed at Stripe; and a cancel of  *)
(* what is cancelled already.                                              *)
Lookup(w) ==
    LET r   == request[w]
        row == record[r.key]
        pc  == IF row.status = "external_succeeded" THEN "finalize"
               ELSE IF r.action = "cancel" /\ r.seen = "cancelled" THEN "idle"
               ELSE IF row.status = "absent" THEN "check"
               ELSE IF Recoverable(row) /\ (row.status = "failed" => gateway = "shopify")
               THEN "recover" ELSE "idle"
    IN  /\ At(w, "lookup")
        /\ IF pc = "idle" \/ (row.status # "absent" /\ row.action # r.action)
           THEN Rest(w)
           ELSE request' = [request EXCEPT ![w] = [r EXCEPT !.pc = pc, !.row = row,
                                                            !.current = TRUE]]
        /\ OnlyRequest

Pending == \E k \in Keys : record[k].status = "pending"

CheckPending(w) ==
    /\ At(w, "check")
    /\ IF Pending THEN Rest(w) ELSE Goto(w, "create")
    /\ OnlyRequest

(* Unique are the key and, by SubscriptionLifecycleAction_one_pending_per_ *)
(* subscription_key, a pending record.                                     *)
Create(w) ==
    LET k == request[w].key
    IN  /\ At(w, "create")
        /\ record[k].status = "absent" /\ ~Pending
        /\ record' = [record EXCEPT ![k] = [NoRow EXCEPT !.status = "pending",
                                                         !.action = request[w].action]]
        /\ Goto(w, "call")
        /\ OnlyRecord

CreateRefused(w) ==
    /\ At(w, "create")
    /\ record[request[w].key].status # "absent" \/ Pending
    /\ Goto(w, "reread")
    /\ OnlyRequest

(* Who else created the record; the variant with a bug does not ask for    *)
(* which action.                                                           *)
ConfirmedByAnyone(w) == record[request[w].key].status = "external_succeeded"
ConfirmedByOther(w)  == /\ record[request[w].key].status = "external_succeeded"
                        /\ record[request[w].key].action = request[w].action

Reread(w) ==
    /\ At(w, "reread")
    /\ IF ConfirmedByOther(w) THEN Goto(w, "finalize") ELSE Rest(w)
    /\ OnlyRequest

(* The compare and swap of a recovery; the variant with a bug compares the *)
(* status only.                                                            *)
SameStatus(w) == record[request[w].key].status = request[w].row.status
SameRow(w)    == request[w].current

Recover(w) ==
    /\ At(w, "recover")
    /\ IF SameRow(w) THEN Write(w, "call", "recovering")
       ELSE Rest(w) /\ UNCHANGED record
    /\ OnlyRecord

-----------------------------------------------------------------------------
(* The gateway. What has ended there can only be cancelled, once more.     *)
Applicable(a) == external \notin Terminal \/ (a = "cancel" /\ external = "cancelled")

(* executeShopify and executeStripe: confirmed; no answer, but it is done, *)
(* or will be; refused or lost on the way.                                 *)
Call(w) ==
    LET ka == <<request[w].key, request[w].action>>
    IN  /\ At(w, "call")
        /\ \/ /\ Applicable(request[w].action)
              /\ external' = Target[request[w].action]
              /\ applied' = applied \cup {ka}
              /\ Goto(w, "mark") \/ Goto(w, "fail")
              /\ UNCHANGED coming
           \/ /\ coming' = coming \cup {ka}
              /\ Goto(w, "fail")
              /\ UNCHANGED <<external, applied>>
           \/ /\ Goto(w, "fail")
              /\ UNCHANGED <<external, applied, coming>>
        /\ UNCHANGED <<gateway, subscription, record, crashes, overrun>>

Mark(w) ==
    /\ At(w, "mark")
    /\ Write(w, "finalize", "external_succeeded")
    /\ OnlyRecord

(* The catch. The variant with a bug gives the record up for a retry at    *)
(* once.                                                                   *)
FailureStatusPending == "pending"
FailureStatus        == "failed"

RecordFailure(w) ==
    /\ At(w, "fail")
    /\ Write(w, "idle", FailureStatus)
    /\ OnlyRecord

(* One transaction. The status of a Shopify subscription is left to its    *)
(* webhook.                                                                *)
FinalizeLocal(w) ==
    /\ At(w, "finalize")
    /\ Write(w, "idle", "succeeded")
    /\ subscription' = IF gateway = "stripe" THEN Target[request[w].action] ELSE subscription
    /\ UNCHANGED Surroundings

-----------------------------------------------------------------------------
(* An invocation dies, or one of its statements fails: nothing it does     *)
(* about that writes anything.                                             *)
Crash(w) ==
    /\ ~At(w, "idle")
    /\ crashes < MaxCrashes
    /\ crashes' = crashes + 1
    /\ Rest(w)
    /\ UNCHANGED <<gateway, subscription, record, external, applied, coming, overrun>>

Holding == {"call", "mark", "fail"}
Holds(w, k) == request[w].pc \in Holding /\ request[w].key = k
Held(k)     == \E w \in Requests : Holds(w, k)

(* 60 s pass. A call to the Shopify App is aborted after 8 s; one to       *)
(* Stripe has no limit in the code.                                        *)
Age(k) ==
    /\ record[k].status \in {"pending", "recovering"} /\ ~record[k].stale
    /\ Held(k) => gateway = "stripe"
    /\ record' = [record EXCEPT ![k].stale = TRUE]
    /\ overrun' = IF Held(k) THEN overrun \cup {k} ELSE overrun
    /\ UNCHANGED <<gateway, subscription, external, applied, coming, request, crashes>>

ApplyComing ==
    /\ \E ka \in coming :
          /\ coming' = coming \ {ka}
          /\ \/ /\ Applicable(ka[2])
                /\ external' = Target[ka[2]]
                /\ applied' = applied \cup {ka}
             \/ ~Applicable(ka[2]) /\ UNCHANGED <<external, applied>>
    /\ UNCHANGED <<gateway, subscription, record, request, crashes, overrun>>

(* The contract ends at the gateway. *)
Expire ==
    /\ external \notin Terminal
    /\ external' = "expired"
    /\ UNCHANGED <<gateway, subscription, record, applied, coming, request, crashes, overrun>>

(* updateContract and safeStripePatch: an ended subscription stays ended.  *)
Webhook ==
    /\ subscription \in Terminal => external \in Terminal
    /\ subscription' = external
    /\ UNCHANGED <<gateway, record, external, applied, coming, request, crashes, overrun>>

-----------------------------------------------------------------------------
Continue(w) ==
    \/ Lookup(w) \/ CheckPending(w) \/ Create(w) \/ CreateRefused(w) \/ Reread(w)
    \/ Recover(w) \/ Call(w) \/ Mark(w) \/ RecordFailure(w) \/ FinalizeLocal(w)

Next ==
    \/ \E w \in Requests :
          \/ \E k \in Keys, a \in Actions : Begin(w, k, a)
          \/ Continue(w)
          \/ Crash(w)
    \/ \E k \in Keys : Age(k)
    \/ ApplyComing \/ Expire \/ Webhook

Spec == Init /\ [][Next]_vars

(* An invocation goes on until it ends or dies; 60 s pass; a caller that   *)
(* got no final answer repeats its request under the same key, as the      *)
(* retry engine does.                                                      *)
FairSpec ==
    /\ Spec
    /\ \A w \in Requests : WF_vars(Continue(w))
    /\ \A k \in Keys :
          /\ WF_vars(Age(k))
          /\ SF_vars(\E w \in Requests : Begin(w, k, record[k].action))

-----------------------------------------------------------------------------
(* Two requests with one key are never both at the gateway, or between its *)
(* answer and the record of it, even when the first is thought dead, as    *)
(* long as no call under that key took longer than 60 s, which at Shopify  *)
(* none does.                                                              *)
OneHolder ==
    \A v, w \in Requests, k \in Keys \ overrun : Holds(v, k) /\ Holds(w, k) => v = w

(* What is recorded as done, or about to be written to the subscription,   *)
(* is what the gateway has carried out for that very key, however long the *)
(* calls take.                                                             *)
SuccessIsReal ==
    /\ \A k \in Keys : record[k].status \in {"external_succeeded", "succeeded"}
                          => <<k, record[k].action>> \in applied
    /\ \A w \in Requests : request[w].pc \in {"mark", "finalize"}
                          => <<request[w].key, request[w].action>> \in applied

(* Once the gateway's success is recorded no repetition of the request, or *)
(* of its recovery, takes it back or goes to the gateway again, unless a   *)
(* call under that key took longer than 60 s.                              *)
ConfirmedStays ==
    [][\A k \in Keys \ overrun :
         /\ record[k].status \in {"external_succeeded", "succeeded"} =>
               /\ record'[k].status \in {"external_succeeded", "succeeded"}
               /\ \A w \in Requests : Call(w) => request[w].key # k
         /\ record[k].status = "succeeded" => record'[k].status = "succeeded"]_vars

(* A request that was begun is settled, for as long as the subscription    *)
(* has not ended and however long the calls take: its key never stays in   *)
(* progress for good.                                                      *)
InProgress == {"pending", "recovering", "external_succeeded"}
EveryActionSettles ==
    \A k \in Keys : record[k].status \in InProgress
                      ~> record[k].status \in {"succeeded", "failed"} \/ subscription \in Terminal

(* "Terminal states never revive". A request that read the status before   *)
(* another one cancelled writes its own target afterwards.                 *)
TerminalStays == [][(subscription \in Terminal) => subscription' \in Terminal]_vars
=============================================================================
