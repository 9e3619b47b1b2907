--------------------------- MODULE ContractEvents ---------------------------
(***************************************************************************)
(* subscription_contracts/create and /update: the mirror of one contract   *)
(* of Shopify in Subscription. Events arrive in any order and more than    *)
(* once; revisions and final states decide which of them still count. The  *)
(* transaction is Read Committed: it reads the mirror and writes it later. *)
(***************************************************************************)
EXTENDS EventIngestion

CONSTANTS
    Creates,       \* the events of topic subscription_contracts/create
    Revision,      \* event -> revision of the contract it carries, 0: none
    StatusOf,      \* event -> status of the contract it carries
    LinesOf        \* event -> lines of the contract it carries

Terminal == {"cancelled", "expired", "failed"}
Statuses == {"active", "paused"} \cup Terminal

ASSUME ContractAssumption ==
    /\ Creates \subseteq Events
    /\ \A e \in Events : Revision[e] \in Nat
    /\ \A e \in Events : StatusOf[e] \in Statuses

VARIABLES
    sub,       \* Subscription: status, revision, active lines; "none": no row
    origin,    \* are the first order and the job of its gift recorded
    history,   \* <<revision, status>> of SubscriptionStatusHistory
    told,      \* statuses whose notification has been emitted
    read,      \* worker -> the mirror as its transaction read it
    notice,    \* worker -> status its processing will notify, or "none"
    overlap    \* have two transactions ever overlapped

vars == <<ingestion, sub, origin, history, told, read, notice, overlap>>

NoRow == [status |-> "none", revision |-> 0, lines |-> {}]

AllLines  == UNION {LinesOf[e] : e \in Events}
Revisions == {Revision[e] : e \in Events} \cup {0}
Mirror    == [status : Statuses \cup {"none"}, revision : Revisions, lines : SUBSET AllLines]

TypeOK ==
    /\ IngestionTypeOK
    /\ sub \in Mirror
    /\ origin \in BOOLEAN
    /\ history \subseteq Revisions \X Statuses
    /\ told \subseteq Statuses
    /\ read \in [Workers -> Mirror]
    /\ notice \in [Workers -> Statuses \cup {"none"}]
    /\ overlap \in BOOLEAN

(* The row may exist without a status: an event of a billing attempt that  *)
(* came first has created it. It is treated like no row.                   *)
Init ==
    /\ IngestionInit
    /\ sub = NoRow
    /\ origin = FALSE
    /\ history = {}
    /\ told = {}
    /\ read = [w \in Workers |-> NoRow]
    /\ notice = [w \in Workers |-> "none"]
    /\ overlap = FALSE

mirror == <<sub, origin, history, told>>

-----------------------------------------------------------------------------
(* shouldApplyShopifyContractEvent; with a bug it lets an older revision   *)
(* pass, or only an older one.                                             *)
InOrderSwapped(seen, e) ==
    seen.revision # 0 /\ Revision[e] # 0 => Revision[e] <= seen.revision

InOrder(seen, e) ==
    seen.revision # 0 /\ Revision[e] # 0 =>
        /\ Revision[e] >= seen.revision
        /\ Revision[e] = seen.revision =>
              StatusOf[e] \in {seen.status} \cup Terminal

KnowsItsPlace(seen, e) ==
    Revision[e] = 0 => StatusOf[e] \in {seen.status} \cup Terminal

ShouldApplyAnyOrder(seen, e) ==
    \/ seen.status = "none"
    \/ ~(seen.status \in Terminal /\ StatusOf[e] \notin Terminal)

ShouldApply(seen, e) ==
    \/ seen.status = "none"
    \/ /\ ~(seen.status \in Terminal /\ StatusOf[e] \notin Terminal)
       /\ InOrder(seen, e)
       /\ KnowsItsPlace(seen, e)

(* syncContractLines: the lines of the event are the active ones.          *)
ActiveLines(e) == LinesOf[e]

(* contractUpdatePatch: what is absent in the event stays as it is stored. *)
Patched(e) ==
    [status   |-> StatusOf[e],
     revision |-> IF Revision[e] = 0 THEN sub.revision ELSE Revision[e],
     lines    |-> ActiveLines(e)]

UpsertContract(w) ==
    /\ sub' = Patched(Of(w))
    /\ origin' = TRUE
    /\ notice' = [notice EXCEPT ![w] = "none"]
    /\ UNCHANGED history

(* One row for a revision; with a bug it has the status of before.         *)
HistoryRowPrevious(e) == {<<Revision[e], sub.status>>}

HistoryRow(e) ==
    IF \E h \in history : h[1] = Revision[e] /\ (Revision[e] = 0 => h[2] = StatusOf[e])
    THEN {} ELSE {<<Revision[e], StatusOf[e]>>}

UpdateContract(w) ==
    LET new == StatusOf[Of(w)]
    IN  /\ sub' = Patched(Of(w))
        /\ history' = history \cup HistoryRow(Of(w))
        /\ notice' = [notice EXCEPT ![w] =
              IF read[w].status # new /\ new \in {"paused", "cancelled"} THEN new ELSE "none"]
        /\ UNCHANGED origin

BeginTransaction(w) ==
    /\ At(w, "begin")
    /\ read' = [read EXCEPT ![w] = sub]
    /\ Goto(w, "commit")
    /\ overlap' = (overlap \/ \E v \in Workers \ {w} : At(v, "commit"))
    /\ UNCHANGED <<row, owed, faults, mirror, notice>>

CommitTransaction(w) ==
    /\ At(w, "commit")
    /\ \/ /\ ~ShouldApply(read[w], Of(w))
          /\ notice' = [notice EXCEPT ![w] = "none"]
          /\ UNCHANGED <<sub, origin, history>>
       \/ ShouldApply(read[w], Of(w)) /\ Of(w) \in Creates /\ UpsertContract(w)
       \/ ShouldApply(read[w], Of(w)) /\ Of(w) \notin Creates /\ UpdateContract(w)
    /\ Processed(w)
    /\ read' = [read EXCEPT ![w] = NoRow]
    /\ UNCHANGED <<told, overlap>>

(* The notification of a transition is emitted once the transaction is     *)
(* committed; its source key is the contract and the status.               *)
Emit(w) ==
    /\ At(w, "emit")
    /\ told' = told \cup ({notice[w]} \ {"none"})
    /\ Answer(w)
    /\ notice' = [notice EXCEPT ![w] = "none"]
    /\ UNCHANGED <<row, sub, origin, history, read, overlap>>

-----------------------------------------------------------------------------
Continue(w) ==
    \/ IngestionStep(w) /\ UNCHANGED <<mirror, read, notice, overlap>>
    \/ BeginTransaction(w)
    \/ CommitTransaction(w)
    \/ Emit(w)

Receive(w, e) == Deliver(w, e) /\ UNCHANGED <<mirror, read, notice, overlap>>

Break(w) ==
    /\ ProcessingFails(w) \/ Crash(w)
    /\ read' = [read EXCEPT ![w] = NoRow]
    /\ notice' = [notice EXCEPT ![w] = "none"]
    /\ UNCHANGED <<mirror, overlap>>

Next ==
    \E w \in Workers :
        \/ \E e \in Events : Receive(w, e)
        \/ Continue(w)
        \/ Break(w)

Spec == Init /\ [][Next]_vars

(* An invocation goes on until it ends or dies; an event without a 200 is  *)
(* sent again.                                                             *)
FairSpec ==
    /\ Spec
    /\ \A w \in Workers : WF_vars(Continue(w))
    /\ \A e \in Events : SF_vars(e \in owed /\ \E w \in Workers : Receive(w, e))

-----------------------------------------------------------------------------
(* What has been answered with 200 has been taken in: the mirror is at its *)
(* revision or beyond, or the contract has ended. Retries, duplicates,     *)
(* deaths and rows that a late failure opened again do not change that, as *)
(* long as no two transactions have overlapped.                            *)
Reached(e) == sub.revision >= Revision[e] \/ sub.status \in Terminal

AcknowledgedIsApplied ==
    ~overlap => \A e \in Events \ owed : Reached(e)

(* Late and repeated events do not turn the mirror back: its revision does *)
(* not fall, and an ended contract stays ended, as long as no two          *)
(* transactions have overlapped.                                           *)
NeverBack ==
    [][~overlap =>
         /\ sub'.revision >= sub.revision
         /\ (sub.status \in Terminal => sub'.status \in Terminal)]_vars

(* Whatever the order of arrival, the mirror ends as the last revision of  *)
(* the contract has it, and every event is answered.                       *)
Last == CHOOSE e \in Events : \A f \in Events : Revision[f] <= Revision[e]

MirrorConverges ==
    <>[](/\ owed = {}
         /\ overlap \/ sub = [status   |-> StatusOf[Last],
                              revision |-> Revision[Last],
                              lines    |-> LinesOf[Last]])

(* "a late ACTIVE revision cannot reopen a cancelled contract": it can     *)
(* when its transaction has read the mirror before the cancellation is     *)
(* committed.                                                              *)
EndedStaysEnded == [][(sub.status \in Terminal) => sub'.status \in Terminal]_vars

(* The first order of a contract, and the job of its gift, are recorded by *)
(* the time its creation is acknowledged. They are not when an update of a *)
(* later revision was faster.                                              *)
FirstOrderRecorded == \A e \in Creates : e \notin owed => origin
=============================================================================
