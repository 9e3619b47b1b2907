---------------------------- MODULE Installation ----------------------------
(***************************************************************************)
(* Is a shop active? ShopRepository.installOrReactivate, called by the App *)
(* after each authorisation, against the events app/uninstalled, which may *)
(* come late, twice, or after the shop has been installed again. The model *)
(* keeps beside the row of Shop what is true at Shopify.                   *)
(***************************************************************************)
EXTENDS EventIngestion

CONSTANTS MaxCalls    \* calls of /install

(* The events are the uninstallations, numbered as they happen. *)
ASSUME InstallationAssumption ==
    /\ \A e \in Events : e \in Nat \ {0} /\ 1 .. e \subseteq Events
    /\ MaxCalls \in Nat

VARIABLES
    now,         \* the time
    installed,   \* is the App installed at Shopify
    happened,    \* the last uninstallation that has happened
    trigger,     \* uninstallation -> its triggeredAt
    calls,       \* calls of /install so far
    coming,      \* how many of them have not arrived yet
    shop,        \* Shop: no row, inactive or active; generation, dates
    captured,    \* worker -> the generation its transaction has read
    crossed      \* has a call of /install ever found the row still active when
                 \* an uninstallation was on its way, or come after one

world == <<now, installed, happened, trigger, calls, coming>>
vars  == <<ingestion, world, shop, captured, crossed>>

(* A date of 0 is null. *)
NoShop == [row |-> "none", generation |-> 0, installedAt |-> 0, uninstalledAt |-> 0]

TypeOK ==
    /\ IngestionTypeOK
    /\ now \in Nat
    /\ installed \in BOOLEAN
    /\ happened \in Nat
    /\ trigger \in [Events -> 0 .. now]
    /\ calls \in 0 .. MaxCalls
    /\ coming \in 0 .. calls
    /\ shop \in [row : {"none", "inactive", "active"}, generation : 0 .. calls,
                 installedAt : 0 .. now, uninstalledAt : 0 .. now]
    /\ captured \in [Workers -> 0 .. calls]
    /\ crossed \in BOOLEAN

Init ==
    /\ IngestionInit
    /\ now = 1
    /\ installed = FALSE
    /\ happened = 0
    /\ trigger = [e \in Events |-> 0]
    /\ calls = 0
    /\ coming = 0
    /\ shop = NoShop
    /\ captured = [w \in Workers |-> 0]
    /\ crossed = FALSE

-----------------------------------------------------------------------------
(* The merchant installs or opens the App, and the App calls /install; the *)
(* merchant uninstalls it.                                                 *)
Authorise ==
    /\ calls < MaxCalls
    /\ installed' = TRUE
    /\ calls' = calls + 1
    /\ coming' = coming + 1
    /\ UNCHANGED <<ingestion, now, happened, trigger, shop, captured, crossed>>

Uninstall ==
    /\ installed
    /\ happened + 1 \in Events
    /\ installed' = FALSE
    /\ now' = now + 1
    /\ happened' = happened + 1
    /\ trigger' = [trigger EXCEPT ![happened + 1] = now + 1]
    /\ UNCHANGED <<ingestion, calls, coming, shop, captured, crossed>>

Outstanding == \E e \in 1 .. happened : row[e] # "done"

(* installOrReactivate: Serializable, so at one instant. A row that is     *)
(* active gets another token only. With a bug a reinstallation keeps the   *)
(* date of the first one, or takes its date for its generation.            *)
ReactivatedStamped == [shop EXCEPT !.row = "active", !.generation = now + 1,
                                   !.installedAt = now + 1, !.uninstalledAt = 0]
ReactivatedUndated == [shop EXCEPT !.row = "active", !.generation = @ + 1,
                                   !.uninstalledAt = 0]
Reactivated == [shop EXCEPT !.row = "active", !.generation = @ + 1,
                            !.installedAt = now + 1, !.uninstalledAt = 0]

Install ==
    /\ coming > 0
    /\ coming' = coming - 1
    /\ now' = now + 1
    /\ shop' = CASE shop.row = "none"     -> [row |-> "active", generation |-> 1,
                                              installedAt |-> now + 1, uninstalledAt |-> 0]
                 [] shop.row = "active"   -> shop
                 [] shop.row = "inactive" -> Reactivated
    /\ crossed' = (crossed \/ (shop.row = "active" /\ Outstanding) \/ ~installed)
    /\ UNCHANGED <<ingestion, installed, happened, trigger, calls, captured>>

-----------------------------------------------------------------------------
BeginTransaction(w) ==
    /\ At(w, "begin")
    /\ captured' = [captured EXCEPT ![w] = shop.generation]
    /\ Goto(w, "commit")
    /\ UNCHANGED <<row, owed, faults, world, shop, crossed>>

(* Whom the uninstallation still concerns; with a bug, whoever is active.  *)
ConcernsAnyone(w) == shop.row = "active"

Concerns(w) ==
    /\ shop.row = "active"
    /\ shop.generation = captured[w]
    /\ shop.installedAt <= trigger[Of(w)]
    /\ shop.uninstalledAt < trigger[Of(w)]

(* updateMany of the transaction of app/uninstalled. *)
Deactivate(w) ==
    /\ At(w, "commit")
    /\ shop' = IF Concerns(w)
               THEN [shop EXCEPT !.row = "inactive", !.uninstalledAt = trigger[Of(w)]]
               ELSE shop
    /\ Processed(w)
    /\ captured' = [captured EXCEPT ![w] = 0]
    /\ UNCHANGED <<world, crossed>>

AnswerUninstall(w) ==
    /\ At(w, "emit")
    /\ Answer(w)
    /\ UNCHANGED <<row, world, shop, captured, crossed>>

Continue(w) ==
    \/ IngestionStep(w) /\ UNCHANGED <<world, shop, captured, crossed>>
    \/ BeginTransaction(w)
    \/ Deactivate(w)
    \/ AnswerUninstall(w)

(* Before the first installation there is no shop: 404. *)
Receive(w, e) ==
    /\ e <= happened /\ shop.row # "none"
    /\ Deliver(w, e)
    /\ UNCHANGED <<world, shop, captured, crossed>>

Break(w) ==
    /\ ProcessingFails(w) \/ Crash(w)
    /\ captured' = [captured EXCEPT ![w] = 0]
    /\ UNCHANGED <<world, shop, crossed>>

Next ==
    \/ Authorise \/ Uninstall \/ Install
    \/ \E w \in Workers :
          \/ \E e \in Events : Receive(w, e)
          \/ Continue(w)
          \/ Break(w)

Spec == Init /\ [][Next]_vars

(* An invocation goes on until it ends or dies; an event without a 200 is  *)
(* sent again; a call of the App arrives.                                  *)
FairSpec ==
    /\ Spec
    /\ WF_vars(Install)
    /\ \A w \in Workers : WF_vars(Continue(w))
    /\ \A e \in Events : SF_vars(e \in owed /\ \E w \in Workers : Receive(w, e))

-----------------------------------------------------------------------------
(* An active shop is made inactive by the uninstallation that ended its    *)
(* present installation, and by no earlier one, however late, often or     *)
(* concurrently that is processed; provided no call of /install crossed    *)
(* an uninstallation.                                                      *)
InactiveIsUninstalled == shop.row = "inactive" /\ ~crossed => ~installed \/ coming > 0

(* In the end the row says what is true at Shopify, with that proviso.     *)
ShopConverges == <>[](crossed \/ (shop.row = "active") = installed)

(* "uninstall anterior entregue depois nao desativa reinstalacao": it does *)
(* when the reinstallation found the row still active, and so left the     *)
(* date of the installation as it was.                                     *)
LateUninstallHarmless ==
    [][(shop.row = "active" /\ installed /\ coming = 0) => shop'.row = "active"]_vars
=============================================================================
