------------------------ MODULE ContractEventsProofs ------------------------
(***************************************************************************)
(* What holds of the mirror of a contract for any number of invocations,   *)
(* events and faults: the types, that an acknowledged event has been taken *)
(* in, and that the mirror does not turn back.                             *)
(***************************************************************************)
EXTENDS ContractEvents, TLAPS

(* The ingestion's part of the state. Whatever a move makes of a worker,   *)
(* it is the resting state or the same worker at another place or event.   *)
Desk == [pc : Places, event : Events]

LEMMA RestingType == Resting \in Desk
<1>1. (CHOOSE e \in Events : TRUE) \in Events
  BY IngestionAssumption
<1> QED
  BY <1>1 DEF Resting, Desk, Places

LEMMA IngestionInitType == IngestionInit => IngestionTypeOK
BY RestingType, IngestionAssumption DEF IngestionInit, IngestionTypeOK, Desk

LEMMA OfType ==
  ASSUME IngestionTypeOK, NEW w \in Workers
  PROVE  Of(w) \in Events
BY DEF IngestionTypeOK, Of

LEMMA MoveType ==
  ASSUME IngestionTypeOK, NEW w \in Workers, IngestionMove(w)
  PROVE  IngestionTypeOK'
<1>1. UNCHANGED worker \/ \E r \in Desk : worker' = [worker EXCEPT ![w] = r]
  <2>1. Rest(w) => worker' = [worker EXCEPT ![w] = Resting]
    BY DEF Rest
  <2>2. ASSUME NEW pc \in Places, Goto(w, pc)
        PROVE  \E r \in Desk : worker' = [worker EXCEPT ![w] = r]
    <3>1. worker' = [worker EXCEPT ![w] = [worker[w] EXCEPT !.pc = pc]]
      BY <2>2 DEF Goto
    <3>2. [worker[w] EXCEPT !.pc = pc] \in Desk
      BY DEF IngestionTypeOK, Desk
    <3> QED
      BY <3>1, <3>2
  <2>3. ASSUME NEW e \in Events, Deliver(w, e)
        PROVE  UNCHANGED worker \/ \E r \in Desk : worker' = [worker EXCEPT ![w] = r]
    <3>1. [pc |-> IF row[e] = "absent" THEN "create" ELSE "begin", event |-> e] \in Desk
      BY DEF Desk, Places
    <3> QED
      BY <2>3, <3>1 DEF Deliver
  <2>4. \/ \E e \in Events : Deliver(w, e)
        \/ Rest(w)
        \/ \E pc \in Places : Goto(w, pc)
    BY DEF IngestionMove, IngestionStep, CreateEvent, RereadEvent, MarkEventFailed, Answer,
       Processed, LeftPending, ProcessingFails, Crash, Places
  <2> QED
    BY <2>1, <2>2, <2>3, <2>4, RestingType
<1>2. worker' \in [Workers -> Desk]
  BY <1>1 DEF IngestionTypeOK, Desk
<1>3. row' \in [Events -> {"absent", "open", "done"}] /\ owed' \subseteq Events
  BY DEF IngestionTypeOK, IngestionMove, Deliver, IngestionStep, CreateEvent, RereadEvent,
     MarkEventFailed, Answer, Processed, LeftPending, ProcessingFails, Crash
<1>4. faults' \in 0 .. MaxFaults
  BY IngestionAssumption DEF IngestionTypeOK, IngestionMove, Deliver, IngestionStep, CreateEvent,
     RereadEvent, MarkEventFailed, Answer, Processed, LeftPending, ProcessingFails, Crash, Fault
<1> QED
  BY <1>2, <1>3, <1>4 DEF IngestionTypeOK, Desk
-----------------------------------------------------------------------------
(* The variables of this module keep their types. *)
MirrorTypeOK ==
    /\ sub \in Mirror
    /\ origin \in BOOLEAN
    /\ history \subseteq Revisions \X Statuses
    /\ told \subseteq Statuses
    /\ read \in [Workers -> Mirror]
    /\ notice \in [Workers -> Statuses \cup {"none"}]
    /\ overlap \in BOOLEAN

LEMMA TypeParts == TypeOK <=> IngestionTypeOK /\ MirrorTypeOK
BY DEF TypeOK, MirrorTypeOK

LEMMA NoRowType == NoRow \in Mirror
BY DEF NoRow, Mirror, Revisions

LEMMA PatchedType ==
  ASSUME sub \in Mirror, NEW e \in Events
  PROVE  Patched(e) \in Mirror
<1>1. Revision[e] \in Revisions /\ sub.revision \in Revisions
  BY DEF Revisions, Mirror
<1>2. StatusOf[e] \in Statuses
  BY ContractAssumption
<1>3. LinesOf[e] \in SUBSET AllLines
  BY DEF AllLines
<1> QED
  BY <1>1, <1>2, <1>3 DEF Patched, ActiveLines, Mirror

LEMMA TypeInit == Init => TypeOK
<1> SUFFICES ASSUME Init PROVE TypeOK
  OBVIOUS
<1>1. IngestionTypeOK
  BY IngestionInitType DEF Init
<1>2. MirrorTypeOK
  BY NoRowType DEF Init, MirrorTypeOK
<1> QED
  BY <1>1, <1>2, TypeParts

LEMMA BeginType ==
  ASSUME TypeOK, NEW w \in Workers, BeginTransaction(w)
  PROVE  TypeOK'
<1>1. IngestionTypeOK'
  BY MoveType DEF TypeOK, BeginTransaction, IngestionMove
<1>2. overlap' \in BOOLEAN
  BY DEF TypeOK, BeginTransaction
<1>3. read' \in [Workers -> Mirror]
  BY DEF TypeOK, BeginTransaction
<1> QED
  BY <1>1, <1>2, <1>3 DEF TypeOK, BeginTransaction, mirror

LEMMA CommitType ==
  ASSUME TypeOK, NEW w \in Workers, CommitTransaction(w)
  PROVE  TypeOK'
<1>1. IngestionTypeOK'
  BY MoveType DEF TypeOK, CommitTransaction, IngestionMove
<1>e. Of(w) \in Events /\ StatusOf[Of(w)] \in Statuses /\ Revision[Of(w)] \in Revisions
  BY OfType, ContractAssumption DEF TypeOK, Revisions
<1>2. sub' \in Mirror
  BY <1>e, PatchedType DEF TypeOK, CommitTransaction, UpsertContract, UpdateContract
<1>3. notice' \in [Workers -> Statuses \cup {"none"}]
  BY <1>e DEF TypeOK, CommitTransaction, UpsertContract, UpdateContract
<1>4. history' \subseteq Revisions \X Statuses
  <2>1. HistoryRow(Of(w)) \subseteq Revisions \X Statuses
    BY <1>e DEF HistoryRow
  <2> QED
    BY <2>1 DEF TypeOK, CommitTransaction, UpsertContract, UpdateContract
<1>5. read' \in [Workers -> Mirror]
  BY NoRowType DEF TypeOK, CommitTransaction
<1>6. origin' \in BOOLEAN
  BY DEF TypeOK, CommitTransaction, UpsertContract, UpdateContract
<1> QED
  BY <1>1, <1>2, <1>3, <1>4, <1>5, <1>6 DEF TypeOK, CommitTransaction

LEMMA EmitType ==
  ASSUME TypeOK, NEW w \in Workers, Emit(w)
  PROVE  TypeOK'
<1>1. IngestionTypeOK'
  BY MoveType DEF TypeOK, Emit, IngestionMove
<1>2. told' \subseteq Statuses
  BY DEF TypeOK, Emit
<1>3. notice' \in [Workers -> Statuses \cup {"none"}]
  BY DEF TypeOK, Emit
<1> QED
  BY <1>1, <1>2, <1>3 DEF TypeOK, Emit

LEMMA BreakKeepsType ==
  ASSUME TypeOK, NEW w \in Workers, Break(w)
  PROVE  TypeOK'
<1>1. IngestionTypeOK'
  BY MoveType DEF TypeOK, Break, IngestionMove
<1>2. read' \in [Workers -> Mirror]
  BY NoRowType DEF TypeOK, Break
<1>3. notice' \in [Workers -> Statuses \cup {"none"}]
  BY DEF TypeOK, Break
<1> QED
  BY <1>1, <1>2, <1>3 DEF TypeOK, Break, mirror

LEMMA TypeNext == TypeOK /\ [Next]_vars => TypeOK'
<1> SUFFICES ASSUME TypeOK, [Next]_vars PROVE TypeOK'
  OBVIOUS
<1>1. ASSUME NEW w \in Workers, NEW e \in Events, Receive(w, e)
      PROVE  TypeOK'
  <2>1. IngestionTypeOK'
    BY <1>1, MoveType DEF TypeOK, Receive, IngestionMove
  <2> QED
    BY <1>1, <2>1 DEF TypeOK, Receive, mirror
<1>2. ASSUME NEW w \in Workers, IngestionStep(w), UNCHANGED <<mirror, read, notice, overlap>>
      PROVE  TypeOK'
  <2>1. IngestionTypeOK'
    BY <1>2, MoveType DEF TypeOK, IngestionMove
  <2> QED
    BY <1>2, <2>1 DEF TypeOK, mirror
<1>3. CASE UNCHANGED vars
  BY <1>3 DEF vars, ingestion, TypeOK, IngestionTypeOK
<1> QED
  BY <1>1, <1>2, <1>3, BeginType, CommitType, EmitType, BreakKeepsType DEF Next, Continue

(* Every variable keeps its type.                                          *)
THEOREM TypeCorrect == Spec => []TypeOK
BY TypeInit, TypeNext, PTL DEF Spec

-----------------------------------------------------------------------------
(* The inductive invariant. As long as no two transactions have overlapped *)
(* the one that is open has read the mirror as it is; what is processed,   *)
(* and what is about to be answered, has been taken in.                    *)
MirrorInv ==
    /\ sub.status = "none" => sub = NoRow
    /\ ~overlap =>
          /\ \A w \in Workers : At(w, "commit") => read[w] = sub
          /\ \A v, w \in Workers : At(v, "commit") /\ At(w, "commit") => v = w
          /\ \A e \in Events : row[e] = "done" => Reached(e)
          /\ \A w \in Workers, e \in Events : At(w, "emit") /\ Of(w) = e => Reached(e)
          /\ \A e \in Events \ owed : Reached(e)

Forward ==
    /\ sub'.revision >= sub.revision
    /\ sub.status \in Terminal => sub'.status \in Terminal

LEMMA Numbers ==
  ASSUME TypeOK
  PROVE  sub.revision \in Nat /\ \A e \in Events : Revision[e] \in Nat
BY ContractAssumption DEF TypeOK, Mirror, Revisions

(* The heart of it: an event that is applied to the mirror as it is moves  *)
(* it forward, and one that is not applied had nothing new to say.         *)
LEMMA CommitForward ==
  ASSUME TypeOK, MirrorInv, ~overlap, NEW w \in Workers, NEW e \in Events,
         Of(w) = e, CommitTransaction(w)
  PROVE  /\ Forward
         /\ sub'.revision >= Revision[e] \/ sub'.status \in Terminal
<1>1. read[w] = sub
  BY DEF MirrorInv, CommitTransaction
<1>2. Revision[e] \in Nat /\ sub.revision \in Nat
  BY Numbers
<1>3. CASE ~ShouldApply(sub, e) /\ sub' = sub
  <2>1. sub.revision >= Revision[e] \/ sub.status \in Terminal
    BY <1>2, <1>3, ContractAssumption DEF ShouldApply, InOrder, KnowsItsPlace
  <2> QED
    BY <1>2, <1>3, <2>1 DEF Forward
<1>4. CASE ShouldApply(sub, e) /\ sub' = Patched(e)
  <2>1. sub'.revision = IF Revision[e] = 0 THEN sub.revision ELSE Revision[e]
    BY <1>4 DEF Patched, ActiveLines
  <2>2. sub'.status = StatusOf[e]
    BY <1>4 DEF Patched, ActiveLines
  <2>3. sub.status = "none" => sub.revision = 0 /\ sub.status \notin Terminal
    BY DEF MirrorInv, NoRow, Terminal
  <2>4. sub.status # "none" =>
           /\ sub.revision # 0 /\ Revision[e] # 0 => Revision[e] >= sub.revision
           /\ sub.status \in Terminal => StatusOf[e] \in Terminal
    BY <1>4 DEF ShouldApply, InOrder
  <2>5. sub'.revision >= sub.revision /\ sub'.revision >= Revision[e]
    BY <1>2, <2>1, <2>3, <2>4
  <2> QED
    BY <2>2, <2>3, <2>4, <2>5 DEF Forward
<1> QED
  BY <1>1, <1>3, <1>4 DEF CommitTransaction, UpsertContract, UpdateContract

(* A mirror that moves forward keeps what it has taken in.                 *)
LEMMA ReachedStays ==
  ASSUME TypeOK, TypeOK', Forward, NEW e \in Events, Reached(e)
  PROVE  Reached(e)'
<1>1. sub.revision \in Nat /\ sub'.revision \in Nat /\ Revision[e] \in Nat
  BY ContractAssumption DEF TypeOK, Mirror, Revisions
<1> QED
  BY <1>1 DEF Forward, Reached

-----------------------------------------------------------------------------
(* What a step that leaves the mirror alone has to keep. *)
LEMMA QuietStep ==
  ASSUME MirrorInv, sub' = sub,
         ~overlap' =>
           /\ ~overlap
           /\ \A v \in Workers : At(v, "commit")' => At(v, "commit") /\ read'[v] = read[v]
           /\ \A e \in Events : row'[e] = "done" => Reached(e)
           /\ \A v \in Workers, e \in Events : At(v, "emit")' /\ Of(v)' = e => Reached(e)
           /\ \A e \in Events \ owed' : Reached(e)
  PROVE  MirrorInv'
<1>1. \A e \in Events : Reached(e)' <=> Reached(e)
  BY DEF Reached
<1>2. sub'.status = "none" => sub' = NoRow
  BY DEF MirrorInv
<1>3. ASSUME ~overlap' PROVE MirrorInv'
  <2>1. \A v \in Workers : At(v, "commit")' => read'[v] = sub'
    BY <1>3 DEF MirrorInv
  <2>2. \A u, v \in Workers : At(u, "commit")' /\ At(v, "commit")' => u = v
    BY <1>3 DEF MirrorInv
  <2> QED
    BY <1>1, <1>2, <1>3, <2>1, <2>2 DEF MirrorInv
<1> QED
  BY <1>2, <1>3 DEF MirrorInv

LEMMA ReceiveKeeps ==
  ASSUME TypeOK, MirrorInv, NEW w \in Workers, NEW e \in Events, Receive(w, e)
  PROVE  MirrorInv'
<1>1. \A v \in Workers : worker'[v] = worker[v] \/ worker'[v].pc \in {"create", "begin"}
  BY DEF TypeOK, IngestionTypeOK, Receive, Deliver
<1>2. \A d \in Events \ owed' : d \in Events \ owed \/ row[d] = "done"
  BY DEF Receive, Deliver
<1> QED
  BY <1>1, <1>2, QuietStep DEF Receive, Deliver, mirror, MirrorInv, At, Of

LEMMA IngestionKeeps ==
  ASSUME TypeOK, MirrorInv, NEW w \in Workers, IngestionStep(w),
         UNCHANGED <<mirror, read, notice, overlap>>
  PROVE  MirrorInv'
<1>1. \A v \in Workers :
        worker'[v] = worker[v] \/ worker'[v].pc \in {"begin", "reread", "idle"}
  BY DEF TypeOK, IngestionTypeOK, IngestionStep, CreateEvent, RereadEvent,
         MarkEventFailed, Answer, Rest, Goto, Resting
<1>2. \A d \in Events : row'[d] = "done" => row[d] = "done"
  BY DEF TypeOK, IngestionTypeOK, IngestionStep, CreateEvent, RereadEvent, MarkEventFailed
<1>3. \A d \in Events \ owed' : d \in Events \ owed \/ row[d] = "done"
  BY DEF IngestionStep, CreateEvent, RereadEvent, MarkEventFailed, Answer
<1> QED
  BY <1>1, <1>2, <1>3, QuietStep DEF mirror, MirrorInv, At, Of

LEMMA BreakKeeps ==
  ASSUME TypeOK, MirrorInv, NEW w \in Workers, Break(w)
  PROVE  MirrorInv'
<1>1. \A v \in Workers : \/ v # w /\ worker'[v] = worker[v] /\ read'[v] = read[v]
                         \/ worker'[v].pc \in {"fail", "idle"}
  BY DEF TypeOK, IngestionTypeOK, Break, ProcessingFails, Crash, Rest, Goto, Resting
<1>2. row' = row /\ owed' = owed /\ sub' = sub /\ overlap' = overlap
  BY DEF Break, ProcessingFails, Crash, mirror
<1> QED
  BY <1>1, <1>2, QuietStep DEF MirrorInv, At, Of

LEMMA EmitKeeps ==
  ASSUME TypeOK, MirrorInv, NEW w \in Workers, Emit(w)
  PROVE  MirrorInv'
<1>1. \A v \in Workers : worker'[v] = worker[v] \/ worker'[v].pc = "idle"
  BY DEF TypeOK, IngestionTypeOK, Emit, Answer, Rest, Resting
<1>2. \A d \in Events \ owed' : d \in Events \ owed \/ d = Of(w)
  BY DEF Emit, Answer
<1>3. Of(w) \in Events
  BY OfType DEF TypeOK
<1> QED
  BY <1>1, <1>2, <1>3, QuietStep DEF Emit, MirrorInv, At, Of

LEMMA BeginKeeps ==
  ASSUME TypeOK, MirrorInv, NEW w \in Workers, BeginTransaction(w)
  PROVE  MirrorInv'
<1>1. \A v \in Workers : v # w => worker'[v] = worker[v] /\ read'[v] = read[v]
  BY DEF TypeOK, IngestionTypeOK, BeginTransaction, Goto
<1>2. worker'[w].pc = "commit" /\ read'[w] = sub
  BY DEF TypeOK, IngestionTypeOK, BeginTransaction, Goto
<1>3. UNCHANGED <<row, owed, sub>>
  BY DEF BeginTransaction, mirror
<1>4. ~overlap' => ~overlap /\ \A v \in Workers \ {w} : ~At(v, "commit")
  BY DEF BeginTransaction
<1>5. \A e \in Events : Reached(e)' <=> Reached(e)
  BY <1>3 DEF Reached
<1>6. sub'.status = "none" => sub' = NoRow
  BY <1>3 DEF MirrorInv
<1>7. ASSUME ~overlap' PROVE MirrorInv'
  <2>1. \A v \in Workers : At(v, "commit")' => v = w
    BY <1>1, <1>4, <1>7 DEF At
  <2>2. \A v \in Workers : At(v, "commit")' => read'[v] = sub'
    BY <1>2, <1>3, <2>1
  <2>3. \A v \in Workers, e \in Events : At(v, "emit")' /\ Of(v)' = e => Reached(e)
    BY <1>1, <1>2, <1>4, <1>7 DEF At, Of, MirrorInv
  <2> QED
    BY <1>3, <1>4, <1>5, <1>6, <1>7, <2>1, <2>2, <2>3 DEF MirrorInv
<1> QED
  BY <1>6, <1>7 DEF MirrorInv

LEMMA CommitKeeps ==
  ASSUME TypeOK, TypeOK', MirrorInv, NEW w \in Workers, CommitTransaction(w)
  PROVE  MirrorInv'
<1>1. \A v \in Workers : v # w => worker'[v] = worker[v] /\ read'[v] = read[v]
  BY DEF TypeOK, IngestionTypeOK, CommitTransaction, Processed, Goto
<1>2. worker'[w].pc = "emit" /\ worker'[w].event = worker[w].event
  BY DEF TypeOK, IngestionTypeOK, CommitTransaction, Processed, Goto
<1>3. owed' = owed /\ overlap' = overlap
  BY DEF CommitTransaction, Processed
<1>4. \A d \in Events : row'[d] = "done" => row[d] = "done" \/ d = Of(w)
  BY DEF TypeOK, IngestionTypeOK, CommitTransaction, Processed
<1>5. Of(w) \in Events
  BY OfType DEF TypeOK
<1>6. sub'.status = "none" => sub' = NoRow
  <2>1. sub' = sub \/ sub'.status = StatusOf[Of(w)]
    BY DEF CommitTransaction, UpsertContract, UpdateContract, Patched, ActiveLines
  <2>2. StatusOf[Of(w)] # "none"
    BY <1>5, ContractAssumption DEF Statuses, Terminal
  <2> QED
    BY <2>1, <2>2 DEF MirrorInv
<1>7. ASSUME ~overlap' PROVE MirrorInv'
  <2>1. Forward /\ (sub'.revision >= Revision[Of(w)] \/ sub'.status \in Terminal)
    BY <1>3, <1>5, <1>7, CommitForward
  <2>2. \A e \in Events : Reached(e) \/ e = Of(w) => Reached(e)'
    BY <2>1, ReachedStays DEF Reached
  <2>3. \A v \in Workers : ~At(v, "commit")'
    BY <1>1, <1>2, <1>3, <1>7 DEF MirrorInv, At, CommitTransaction
  <2>4. \A v \in Workers, e \in Events : At(v, "emit")' /\ Of(v)' = e => Reached(e)'
    BY <1>1, <1>2, <1>3, <1>7, <2>2 DEF MirrorInv, At, Of
  <2>5. \A e \in Events : row'[e] = "done" => Reached(e)'
    BY <1>3, <1>4, <1>7, <2>2 DEF MirrorInv
  <2>6. \A e \in Events \ owed' : Reached(e)'
    BY <1>3, <1>7, <2>2 DEF MirrorInv
  <2> QED
    BY <1>6, <2>3, <2>4, <2>5, <2>6 DEF MirrorInv
<1> QED
  BY <1>6, <1>7 DEF MirrorInv

-----------------------------------------------------------------------------
IInv == TypeOK /\ MirrorInv

LEMMA MirrorInit == Init => IInv
<1> SUFFICES ASSUME Init PROVE MirrorInv
  BY TypeInit DEF IInv
<1>1. \A w \in Workers : worker[w].pc = "idle"
  BY DEF Init, IngestionInit, Resting
<1> QED
  BY <1>1 DEF Init, IngestionInit, MirrorInv, At

LEMMA MirrorNext == IInv /\ [Next]_vars => IInv'
<1> SUFFICES ASSUME TypeOK, MirrorInv, [Next]_vars PROVE MirrorInv'
  BY TypeNext DEF IInv
<1>t. TypeOK'
  BY TypeNext
<1>1. CASE UNCHANGED vars
  <2>1. UNCHANGED <<row, owed, worker, sub, read, overlap>>
    BY <1>1 DEF vars, ingestion
  <2> QED
    BY <2>1, QuietStep DEF MirrorInv, At, Of
<1> QED
  BY <1>t, <1>1, ReceiveKeeps, IngestionKeeps, BreakKeeps, EmitKeeps, BeginKeeps,
     CommitKeeps DEF Next, Continue

LEMMA InvCorrect == Spec => []IInv
BY MirrorInit, MirrorNext, PTL DEF Spec

(* What was answered with 200 has been taken in, for any number of         *)
(* invocations, events, duplicates and faults, until transactions overlap. *)
THEOREM AcknowledgedApplied == Spec => []AcknowledgedIsApplied
<1>1. IInv => AcknowledgedIsApplied
  BY DEF IInv, MirrorInv, AcknowledgedIsApplied
<1> QED
  BY <1>1, InvCorrect, PTL

(* The mirror never turns back, until transactions overlap.                *)
LEMMA StepForward ==
  ASSUME IInv, [Next]_vars, ~overlap
  PROVE  Forward
<1>1. sub.revision \in Nat
  BY Numbers DEF IInv
<1>2. CASE sub' = sub
  BY <1>1, <1>2 DEF Forward
<1>3. ASSUME NEW w \in Workers, CommitTransaction(w) PROVE Forward
  <2>1. Of(w) \in Events
    BY OfType DEF IInv, TypeOK
  <2> QED
    BY <1>3, <2>1, CommitForward DEF IInv
<1>4. sub' = sub \/ \E w \in Workers : CommitTransaction(w)
  BY DEF Next, Continue, Receive, Break, BeginTransaction, Emit, mirror, vars
<1> QED
  BY <1>2, <1>3, <1>4

THEOREM MirrorNeverBack == Spec => NeverBack
<1>1. IInv /\ [Next]_vars =>
        [~overlap => /\ sub'.revision >= sub.revision
                     /\ sub.status \in Terminal => sub'.status \in Terminal]_vars
  BY StepForward DEF Forward
<1> QED
  BY <1>1, InvCorrect, PTL DEF Spec, NeverBack
=============================================================================
