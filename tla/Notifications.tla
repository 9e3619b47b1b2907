---------------------------- MODULE Notifications ----------------------------
(***************************************************************************)
(* The summaries sent to the team of a shop: NotificationEventService      *)
(* gathers the events of one window into rows of NotificationOutbox,       *)
(* NotificationOutboxService sends the rows through Resend, and            *)
(* ResendWebhookService takes in what became of the mails. The model has   *)
(* one shop, one window that has ended, and one recipient.                 *)
(***************************************************************************)
EXTENDS Naturals

CONSTANTS
    Workers,        \* invocations of the sender in progress at once
    Events,         \* events of the window
    Types,          \* what Resend reports of a mail
    Reported,       \* rows whose reports are followed
    MaxAttempts,    \* NotificationOutbox.maxAttempts
    MaxFaults       \* deaths, and statements that fail

ASSUME NotificationAssumption ==
    /\ Types \subseteq {"delivered", "bounced", "suppressed", "complained"}
    /\ Reported \subseteq SUBSET Events
    /\ MaxAttempts \in Nat \ {0}
    /\ MaxFaults \in Nat

(* The idempotency key of a row: {} is the summary of the window, a set of *)
(* events the supplement made of them.                                     *)
Keys == SUBSET Events
Base == {}

VARIABLES
    occurred,    \* events with a row of NotificationEvent
    included,    \* those with includedInOutboxId
    summary,     \* the transaction of materializeSummaries, one at a time
    outbox,      \* key -> NotificationOutbox
    worker,      \* worker -> where it stands, its row, what it has read of it
    accepted,    \* keys Resend has accepted, with the events of the mail
    report,      \* key and type -> where Resend's webhook of it stands
    late,        \* rows that events joined when they were pending no more
    crossed,     \* rows reported on while another report, or a sending, was
                 \* in progress
    faults

vars == <<occurred, included, summary, outbox, worker, accepted, report, late,
          crossed, faults>>

NoMail  == [status |-> "none", mail |-> {}, attempts |-> 0, id |-> FALSE]
NoBatch == [batch |-> {}, key |-> Base, joins |-> FALSE, pending |-> FALSE]
Resting == [pc |-> "idle", key |-> Base, mail |-> {}, attempts |-> 0]

Waiting == {"pending", "retry", "uncertain", "stalled"}
Given   == {"failed", "unresolved"}
Reached == {"sent", "delivered", "bounced", "suppressed", "complained"}

TypeOK ==
    /\ occurred \subseteq Events
    /\ included \subseteq occurred
    /\ summary \in [batch : SUBSET Events, key : Keys, joins : BOOLEAN,
                   pending : BOOLEAN]
    /\ outbox \in [Keys ->
          [status : {"none", "processing"} \cup Waiting \cup Given \cup Reached,
           mail : SUBSET Events, attempts : 0 .. MaxAttempts + 1, id : BOOLEAN]]
    /\ worker \in [Workers ->
          [pc : {"idle", "read", "send", "accepted", "refused"},
           key : Keys, mail : SUBSET Events, attempts : 0 .. MaxAttempts]]
    /\ accepted \in SUBSET (Keys \X SUBSET Events)
    /\ report \in [Reported \X Types -> {"none", "apply", "keep", "unmatched", "applied"}]
    /\ late \subseteq Keys
    /\ crossed \subseteq Keys
    /\ faults \in 0 .. MaxFaults

Init ==
    /\ occurred = {}
    /\ included = {}
    /\ summary = NoBatch
    /\ outbox = [k \in Keys |-> NoMail]
    /\ worker = [w \in Workers |-> Resting]
    /\ accepted = {}
    /\ report = [r \in Reported \X Types |-> "none"]
    /\ late = {}
    /\ crossed = {}
    /\ faults = 0

Fault == faults < MaxFaults /\ faults' = faults + 1

-----------------------------------------------------------------------------
(* emit: an event of the window, which may also come after its end.        *)
Emit(e) ==
    /\ e \notin occurred
    /\ occurred' = occurred \cup {e}
    /\ UNCHANGED <<included, summary, outbox, worker, accepted, report, late, crossed,
                   faults>>

(* materializeSummaries: under an advisory lock it reads the events not    *)
(* yet included, and the row of the window. They join it while it is       *)
(* pending, and make a supplement when it is not. With a bug they join it  *)
(* whatever it is, or every event is taken again.                          *)
UnincludedAll == occurred
Unincluded    == occurred \ included

JoinsAnyway(key) == outbox[key].status # "none"
Joins(key)       == outbox[key].status = "pending"

Target(batch) ==
    IF outbox[Base].status = "none" \/ Joins(Base) THEN Base ELSE batch

BeginSummary ==
    /\ summary = NoBatch
    /\ Unincluded # {}
    /\ summary' = [batch   |-> Unincluded,
                   key     |-> Target(Unincluded),
                   joins   |-> Joins(Base),
                   pending |-> outbox[Base].status = "pending"]
    /\ UNCHANGED <<occurred, included, outbox, worker, accepted, report, late, crossed,
                   faults>>

CommitSummary ==
    LET k == summary.key
    IN  /\ summary.batch # {}
        /\ outbox' = [outbox EXCEPT ![k] =
              IF summary.joins
              THEN [outbox[k] EXCEPT !.mail = @ \cup summary.batch]
              ELSE [NoMail EXCEPT !.status = "pending", !.mail = summary.batch]]
        /\ included' = included \cup summary.batch
        /\ late' = late \cup {j \in {k} : summary.pending /\ outbox[k].status # "pending"}
        /\ summary' = NoBatch
        /\ UNCHANGED <<occurred, worker, accepted, report, crossed, faults>>

AbortSummary ==
    /\ summary # NoBatch
    /\ Fault
    /\ summary' = NoBatch
    /\ UNCHANGED <<occurred, included, outbox, worker, accepted, report, late, crossed>>

-----------------------------------------------------------------------------
At(w, pc)   == worker[w].pc = pc
Goto(w, pc) == worker' = [worker EXCEPT ![w].pc = pc]
Rest(w)     == worker' = [worker EXCEPT ![w] = Resting]
Key(w)      == worker[w].key

team == <<occurred, included, summary, late>>

(* claimAndSend: a row that waits, or whose lease has expired. What counts *)
(* of the attempts is whether they exceed the limit; with a bug one more   *)
(* is made.                                                                *)
Claimable(k)     == outbox[k].status \in Waiting
ExhaustedLate(k) == outbox[k].attempts > MaxAttempts + 1
Exhausted(k)     == outbox[k].attempts > MaxAttempts

Claim(w, k) ==
    /\ At(w, "idle")
    /\ Claimable(k)
    /\ outbox' = [outbox EXCEPT
          ![k].status   = "processing",
          ![k].attempts = IF @ > MaxAttempts THEN @ ELSE @ + 1]
    /\ worker' = [worker EXCEPT ![w] = [Resting EXCEPT !.pc = "read", !.key = k]]
    /\ UNCHANGED <<team, accepted, report, crossed, faults>>

(* A lease lasts 60 s; neither the look at the sender's domain nor the     *)
(* statements around the call have a limit.                                *)
LeaseExpires(k) ==
    /\ outbox[k].status = "processing"
    /\ outbox' = [outbox EXCEPT ![k].status = "stalled"]
    /\ UNCHANGED <<team, worker, accepted, report, crossed, faults>>

(* send reads the row it has claimed. *)
ReadJob(w) ==
    /\ At(w, "read")
    /\ ~Exhausted(Key(w))
    /\ worker' = [worker EXCEPT
          ![w].pc       = "send",
          ![w].mail     = outbox[Key(w)].mail,
          ![w].attempts = outbox[Key(w)].attempts]
    /\ UNCHANGED <<team, outbox, accepted, report, crossed, faults>>

(* Its attempts, or the day since the first of them, are over.             *)
GiveUp(w) ==
    /\ At(w, "read")
    /\ outbox[Key(w)].attempts > 1
    /\ outbox' = [outbox EXCEPT ![Key(w)].status = "unresolved"]
    /\ Rest(w)
    /\ UNCHANGED <<team, accepted, report, crossed, faults>>

(* Resend keeps the first mail of an idempotency key and answers to the    *)
(* next ones what it answered to the first.                                *)
Accepts(w) ==
    accepted' = IF \E m \in accepted : m[1] = Key(w) THEN accepted
                ELSE accepted \cup {<<Key(w), worker[w].mail>>}

Send(w) ==
    /\ At(w, "send")
    /\ \/ Accepts(w) /\ Goto(w, "accepted")
       \/ (Accepts(w) \/ UNCHANGED accepted) /\ Goto(w, "refused")     \* or timed out
    /\ UNCHANGED <<team, outbox, report, crossed, faults>>

Store(w, status, id) ==
    /\ outbox' = [outbox EXCEPT ![Key(w)].status = status, ![Key(w)].id = @ \/ id]
    /\ Rest(w)

(* The row is written by its id, whatever it has become. When the first    *)
(* statement after an acceptance fails another one notes it as uncertain;  *)
(* when that fails too the lease expires.                                  *)
RecordAnswer(w) ==
    /\ \/ At(w, "accepted") /\ Store(w, "sent", TRUE) /\ UNCHANGED faults
       \/ At(w, "accepted") /\ Store(w, "uncertain", TRUE) /\ Fault
       \/ At(w, "refused") /\ worker[w].attempts < MaxAttempts       \* timeout, 429, 5xx
                           /\ Store(w, "retry", FALSE) /\ UNCHANGED faults
       \/ At(w, "refused") /\ Store(w, "failed", FALSE) /\ UNCHANGED faults
    /\ UNCHANGED <<team, accepted, report, crossed>>

(* The invocation dies, or a statement fails without a catch. *)
Crash(w) ==
    /\ ~At(w, "idle")
    /\ Fault
    /\ Rest(w)
    /\ UNCHANGED <<team, outbox, accepted, report, crossed>>

-----------------------------------------------------------------------------
(* ResendWebhookService.handle, once for each event of Resend: it looks    *)
(* for the row by the id of the mail and ranks the report against the      *)
(* status it finds; with a bug any report passes.                          *)
Rank(status) ==
    CASE status = "delivered"  -> 1
      [] status = "bounced"    -> 2
      [] status = "suppressed" -> 3
      [] status = "complained" -> 4
      [] OTHER                 -> 0

OutranksAlways(t, status) == TRUE
Outranks(t, status)       == Rank(t) >= Rank(status)

Busy(k, t) ==
    \/ \E w \in Workers : ~At(w, "idle") /\ Key(w) = k
    \/ \E s \in Types \ {t} : report[<<k, s>>] \in {"apply", "keep"}

ReadReported(k, t) ==
    /\ report[<<k, t>>] = "none"
    /\ \E m \in accepted : m[1] = k
    /\ report' = [report EXCEPT ![<<k, t>>] =
          CASE ~outbox[k].id                  -> "unmatched"
            [] Outranks(t, outbox[k].status)  -> "apply"
            [] OTHER                          -> "keep"]
    /\ crossed' = IF Busy(k, t) \/ Claimable(k) THEN crossed \cup {k} ELSE crossed
    /\ UNCHANGED <<team, outbox, worker, accepted, faults>>

StoreReport(k, t) ==
    /\ report[<<k, t>>] \in {"apply", "keep"}
    /\ report' = [report EXCEPT ![<<k, t>>] = "applied"]
    /\ outbox' = IF report[<<k, t>>] = "apply"
                 THEN [outbox EXCEPT ![k].status = t] ELSE outbox
    /\ crossed' = IF Busy(k, t) \/ Claimable(k) THEN crossed \cup {k} ELSE crossed
    /\ UNCHANGED <<team, worker, accepted, faults>>

-----------------------------------------------------------------------------
Continue(w) == ReadJob(w) \/ GiveUp(w) \/ Send(w) \/ RecordAnswer(w)

Next ==
    \/ \E e \in Events : Emit(e)
    \/ BeginSummary \/ CommitSummary \/ AbortSummary
    \/ \E w \in Workers : (\E k \in Keys : Claim(w, k)) \/ Continue(w) \/ Crash(w)
    \/ \E k \in Keys : LeaseExpires(k)
    \/ \E k \in Reported, t \in Types : ReadReported(k, t) \/ StoreReport(k, t)

Spec == Init /\ [][Next]_vars

-----------------------------------------------------------------------------
(* "included payload is exact": a mail that reached Resend tells of the    *)
(* events its row says, retries and lost answers included, unless events   *)
(* joined the row after it had been claimed.                               *)
ToldExactly ==
    \A m \in accepted : m[1] \notin late => m[2] = outbox[m[1]].mail

(* No event is told twice, and none that is marked as included is in no    *)
(* row: whatever runs at once, dies or is repeated.                        *)
ToldOnce ==
    /\ \A e \in included : \E k \in Keys : e \in outbox[k].mail
    /\ \A m, n \in accepted : m # n => m[2] \cap n[2] = {}

(* What Resend reported of a mail stands until a report of higher rank     *)
(* comes, unless two of them, or a report and a sending, crossed.          *)
ReportStands ==
    \A k \in Reported \ crossed, t \in Types :
        report[<<k, t>>] = "applied" => Rank(outbox[k].status) >= Rank(t)
=============================================================================
