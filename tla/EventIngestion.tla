--------------------------- MODULE EventIngestion ---------------------------
(***************************************************************************)
(* ShopifyEventIngestionService.ingest and the endpoint before it: how an  *)
(* event of Shopify, forwarded by the App, becomes a row of WebhookEvent   *)
(* and is processed. Several invocations run at once, for one event or for *)
(* different ones, each cut at its awaits. What processing an event does   *)
(* is the business of the modules that extend this one: they complete the  *)
(* transaction that a worker has begun and what follows it.                *)
(***************************************************************************)
EXTENDS Naturals

CONSTANTS
    Workers,     \* invocations that may be in progress at once
    Events,      \* the events that happen, by their webhookId
    MaxFaults    \* deaths, failed transactions and lost answers

ASSUME IngestionAssumption == Events # {} /\ MaxFaults \in Nat

VARIABLES
    row,       \* event -> WebhookEvent: none, processed = false, or true
    owed,      \* events the sender has no answer of 200 for
    worker,    \* worker -> where it stands, and its event
    faults     \* faults so far

ingestion == <<row, owed, worker, faults>>

Places == {"idle", "create", "reread", "begin", "commit", "emit", "fail"}

Resting == [pc |-> "idle", event |-> CHOOSE e \in Events : TRUE]

IngestionTypeOK ==
    /\ row \in [Events -> {"absent", "open", "done"}]
    /\ owed \subseteq Events
    /\ worker \in [Workers -> [pc : Places, event : Events]]
    /\ faults \in 0 .. MaxFaults

IngestionInit ==
    /\ row = [e \in Events |-> "absent"]
    /\ owed = Events
    /\ worker = [w \in Workers |-> Resting]
    /\ faults = 0

-----------------------------------------------------------------------------
At(w, pc)   == worker[w].pc = pc
Goto(w, pc) == worker' = [worker EXCEPT ![w].pc = pc]
Rest(w)     == worker' = [worker EXCEPT ![w] = Resting]
Of(w)       == worker[w].event

Fault ==
    /\ faults < MaxFaults
    /\ faults' = faults + 1

(* 200. The sender hears it, or has given up waiting and sends again.      *)
Answer(w) ==
    /\ Rest(w)
    /\ \/ owed' = owed \ {Of(w)} /\ UNCHANGED faults
       \/ Fault /\ UNCHANGED owed

(* A delivery: any event, at any time, in any order, and again. One that   *)
(* is already processed is answered at once.                               *)
Deliver(w, e) ==
    /\ At(w, "idle")
    /\ e \in owed \/ row[e] # "done"
    /\ IF row[e] = "done"
       THEN owed' = owed \ {e} /\ UNCHANGED worker
       ELSE /\ worker' = [worker EXCEPT ![w] =
                  [pc |-> IF row[e] = "absent" THEN "create" ELSE "begin", event |-> e]]
            /\ UNCHANGED owed
    /\ UNCHANGED <<row, faults>>

CreateEvent(w) ==
    /\ At(w, "create")
    /\ IF row[Of(w)] = "absent"
       THEN row' = [row EXCEPT ![Of(w)] = "open"] /\ Goto(w, "begin")
       ELSE Goto(w, "reread") /\ UNCHANGED row       \* P2002
    /\ UNCHANGED <<owed, faults>>

RereadEvent(w) ==
    /\ At(w, "reread")
    /\ IF row[Of(w)] = "done" THEN Answer(w)
       ELSE Goto(w, "begin") /\ UNCHANGED <<owed, faults>>
    /\ UNCHANGED row

(* How a transaction of processEvent ends: with processed = true, or, when *)
(* what it recorded is not complete, with the row left open and an error.  *)
Processed(w) ==
    /\ row' = [row EXCEPT ![Of(w)] = "done"]
    /\ Goto(w, "emit")
    /\ UNCHANGED <<owed, faults>>

LeftPending(w) ==
    /\ Goto(w, "fail")
    /\ UNCHANGED <<row, owed, faults>>

(* processEvent throws: in the transaction, which is rolled back, or after *)
(* it, when the notification cannot be written.                            *)
ProcessingFails(w) ==
    /\ worker[w].pc \in {"begin", "commit", "emit"}
    /\ Fault
    /\ Goto(w, "fail")
    /\ UNCHANGED <<row, owed>>

(* markEventFailed, whoever else has processed the event; then 500.        *)
MarkEventFailed(w) ==
    /\ At(w, "fail")
    /\ row' = [row EXCEPT ![Of(w)] = "open"]
    /\ Rest(w)
    /\ UNCHANGED <<owed, faults>>

(* The invocation dies. *)
Crash(w) ==
    /\ ~At(w, "idle")
    /\ Fault
    /\ Rest(w)
    /\ UNCHANGED <<row, owed>>

IngestionStep(w) == CreateEvent(w) \/ RereadEvent(w) \/ MarkEventFailed(w)

(* All that an invocation may do to the rows and the answers: ingest from  *)
(* its first line to its last, with the transaction begun in between.      *)
IngestionMove(w) ==
    \/ \E e \in Events : Deliver(w, e)
    \/ IngestionStep(w)
    \/ At(w, "begin") /\ Goto(w, "commit") /\ UNCHANGED <<row, owed, faults>>
    \/ At(w, "commit") /\ (Processed(w) \/ LeftPending(w))
    \/ At(w, "emit") /\ Answer(w) /\ UNCHANGED row
    \/ ProcessingFails(w) \/ Crash(w)
=============================================================================
