------------------------- MODULE BillingEventsProofs -------------------------
(***************************************************************************)
(* What holds of the events of billing attempts for any number of          *)
(* invocations, attempts, events and faults: the types, that an            *)
(* acknowledged success is complete, that what a customer is told is       *)
(* recorded, and that what an operator has reconciled is paid.             *)
(***************************************************************************)
EXTENDS BillingEvents, TLAPS

(* The ingestion's part of the state. Whatever a move makes of a worker,   *)
(* it is the resting state or the same worker at another place or event.   *)
Desk == [pc : Places, event : Events]

LEMMA RestingType == Resting \in Desk
<1>1. (CHOOSE e \in Events : TRUE) \in Events
  BY IngestionAssumption
<1> QED
  BY <1>1 DEF Resting, Desk, Places

LEMMA IngestionInitType == IngestionInit => IngestionTypeOK
BY RestingType, IngestionAssumption DEF IngestionInit, IngestionTypeOK, Desk

LEMMA OfType ==
  ASSUME IngestionTypeOK, NEW w \in Workers
  PROVE  Of(w) \in Events
BY DEF IngestionTypeOK, Of

LEMMA MoveType ==
  ASSUME IngestionTypeOK, NEW w \in Workers, IngestionMove(w)
  PROVE  IngestionTypeOK'
<1>1. UNCHANGED worker \/ \E r \in Desk : worker' = [worker EXCEPT ![w] = r]
  <2>1. Rest(w) => worker' = [worker EXCEPT ![w] = Resting]
    BY DEF Rest
  <2>2. ASSUME NEW pc \in Places, Goto(w, pc)
        PROVE  \E r \in Desk : worker' = [worker EXCEPT ![w] = r]
    <3>1. worker' = [worker EXCEPT ![w] = [worker[w] EXCEPT !.pc = pc]]
      BY <2>2 DEF Goto
    <3>2. [worker[w] EXCEPT !.pc = pc] \in Desk
      BY DEF IngestionTypeOK, Desk
    <3> QED
      BY <3>1, <3>2
  <2>3. ASSUME NEW e \in Events, Deliver(w, e)
        PROVE  UNCHANGED worker \/ \E r \in Desk : worker' = [worker EXCEPT ![w] = r]
    <3>1. [pc |-> IF row[e] = "absent" THEN "create" ELSE "begin", event |-> e] \in Desk
      BY DEF Desk, Places
    <3> QED
      BY <2>3, <3>1 DEF Deliver
  <2>4. \/ \E e \in Events : Deliver(w, e)
        \/ Rest(w)
        \/ \E pc \in Places : Goto(w, pc)
    BY DEF IngestionMove, IngestionStep, CreateEvent, RereadEvent, MarkEventFailed, Answer,
       Processed, LeftPending, ProcessingFails, Crash, Places
  <2> QED
    BY <2>1, <2>2, <2>3, <2>4, RestingType
<1>2. worker' \in [Workers -> Desk]
  BY <1>1 DEF IngestionTypeOK, Desk
<1>3. row' \in [Events -> {"absent", "open", "done"}] /\ owed' \subseteq Events
  BY DEF IngestionTypeOK, IngestionMove, Deliver, IngestionStep, CreateEvent, RereadEvent,
     MarkEventFailed, Answer, Processed, LeftPending, ProcessingFails, Crash
<1>4. faults' \in 0 .. MaxFaults
  BY IngestionAssumption DEF IngestionTypeOK, IngestionMove, Deliver, IngestionStep, CreateEvent,
     RereadEvent, MarkEventFailed, Answer, Processed, LeftPending, ProcessingFails, Crash, Fault
<1> QED
  BY <1>2, <1>3, <1>4 DEF IngestionTypeOK, Desk
-----------------------------------------------------------------------------
Rows == [status : Outcomes \cup {"none"}, complete : BOOLEAN]

BillingTypeOK ==
    /\ attempt \in [Attempts -> Rows]
    /\ orders \subseteq Attempts
    /\ gifts \subseteq Attempts
    /\ old \subseteq Attempts
    /\ cycle \in {"none", "open", "succeeded", "finalized"}
    /\ history \subseteq Events
    /\ audits \subseteq Attempts
    /\ told \subseteq Attempts \X Outcomes
    /\ body \in [Workers -> BOOLEAN]
    /\ existed \in [Workers -> BOOLEAN]

LEMMA TypeParts == TypeOK <=> IngestionTypeOK /\ BillingTypeOK
BY DEF TypeOK, BillingTypeOK, Rows

LEMMA TypePartsNext == TypeOK' <=> IngestionTypeOK' /\ BillingTypeOK'
BY DEF TypeOK, BillingTypeOK, Rows

(* The event in hand, its attempt and its outcome. *)
LEMMA InHand ==
  ASSUME TypeOK, NEW w \in Workers
  PROVE  Of(w) \in Events /\ A(w) \in Attempts /\ Outcome(w) \in Outcomes
BY OfType, BillingAssumption DEF TypeOK, A, Outcome

(* What a success has to have left behind. *)
Complete(a) == a \in orders \cap (gifts \cup old) /\ Settled

(* The inductive invariant: what is processed is complete, and what is     *)
(* about to be told and answered is recorded.                              *)
Recorded ==
    /\ orders # {} => Settled
    /\ \A e \in Events :
          row[e] = "done" \/ e \notin owed =>
              (OutcomeOf[e] = "succeeded" => Complete(AttemptOf[e]))
    /\ \A w \in Workers, e \in Events : At(w, "emit") /\ Of(w) = e =>
          /\ OutcomeOf[e] = "succeeded" => Complete(AttemptOf[e])
          /\ e \in history

IInv == TypeOK /\ Recorded /\ ToldIsRecorded /\ AuditedIsPaid

LEMMA InvInit == Init => IInv
<1> SUFFICES ASSUME Init PROVE IInv
  OBVIOUS
<1>1. IngestionTypeOK
  BY IngestionInitType DEF Init
<1>2. BillingTypeOK
  BY DEF Init, BillingTypeOK, NoAttempt, Rows
<1>3. \A w \in Workers : worker[w].pc = "idle"
  BY DEF Init, IngestionInit, Resting
<1>4. Recorded
  BY <1>3 DEF Init, IngestionInit, Recorded, At
<1>5. ToldIsRecorded /\ AuditedIsPaid
  BY DEF Init, ToldIsRecorded, AuditedIsPaid
<1> QED
  BY <1>1, <1>2, <1>4, <1>5, TypeParts DEF IInv

(* What the records are good for does not go away as they grow.            *)
Grows ==
    /\ orders \subseteq orders' /\ gifts \subseteq gifts' /\ old \subseteq old'
    /\ history \subseteq history'
    /\ Settled => Settled'

LEMMA ToldStays ==
  ASSUME IInv, Grows, told' = told, audits' = audits
  PROVE  ToldIsRecorded' /\ AuditedIsPaid'
<1>1. ToldIsRecorded'
  <2>1. ASSUME NEW t \in told
        PROVE  IF t[2] = "succeeded" THEN t[1] \in orders'
               ELSE \E e \in history' : AttemptOf[e] = t[1] /\ OutcomeOf[e] = t[2]
    BY DEF IInv, ToldIsRecorded, Grows
  <2> QED
    BY <2>1 DEF ToldIsRecorded
<1>2. AuditedIsPaid'
  BY DEF IInv, AuditedIsPaid, Grows
<1> QED
  BY <1>1, <1>2

(* A step that moves no worker to its emission, and answers and processes  *)
(* nothing new.                                                            *)
LEMMA QuietStep ==
  ASSUME IInv, Grows, orders' # {} => Settled',
         \A e \in Events : row'[e] = "done" \/ e \notin owed' =>
             \/ row[e] = "done" \/ e \notin owed
             \/ \E w \in Workers : At(w, "emit") /\ Of(w) = e,
         \A w \in Workers : worker'[w].pc = "emit" => worker'[w] = worker[w]
  PROVE  Recorded'
<1>1. \A e \in Events : Complete(AttemptOf[e]) => Complete(AttemptOf[e])'
  BY DEF Complete, Grows
<1>2. \A e \in Events : row'[e] = "done" \/ e \notin owed' =>
         (OutcomeOf[e] = "succeeded" => Complete(AttemptOf[e])')
  BY <1>1 DEF IInv, Recorded
<1>3. \A w \in Workers, e \in Events : At(w, "emit")' /\ Of(w)' = e =>
         /\ OutcomeOf[e] = "succeeded" => Complete(AttemptOf[e])'
         /\ e \in history'
  BY <1>1 DEF IInv, Recorded, At, Of, Grows
<1> QED
  BY <1>2, <1>3 DEF Recorded

-----------------------------------------------------------------------------
LEMMA ReceiveKeeps ==
  ASSUME IInv, NEW w \in Workers, NEW e \in Events, NEW enriched \in BOOLEAN,
         Receive(w, e, enriched)
  PROVE  IInv'
<1>1. UNCHANGED billing /\ existed' = existed
  BY DEF Receive
<1>2. TypeOK'
  <2>1. IngestionTypeOK'
    BY MoveType DEF IInv, TypeOK, Receive, IngestionMove
  <2>2. BillingTypeOK'
    BY <1>1, TypeParts DEF IInv, BillingTypeOK, Receive, billing
  <2> QED
    BY <2>1, <2>2, TypePartsNext
<1>3. Grows
  BY <1>1 DEF Grows, billing, Settled
<1>4. \A v \in Workers : worker'[v].pc = "emit" => worker'[v] = worker[v]
  BY DEF IInv, TypeOK, IngestionTypeOK, Receive, Deliver
<1>5. Recorded'
  BY <1>1, <1>3, <1>4, QuietStep DEF Receive, Deliver, IInv, Recorded, billing, Settled
<1> QED
  BY <1>1, <1>2, <1>3, <1>5, ToldStays DEF IInv, billing

LEMMA IngestionKeeps ==
  ASSUME IInv, NEW w \in Workers, IngestionStep(w),
         body' = [body EXCEPT ![w] = @ /\ worker'[w].pc # "idle"],
         UNCHANGED <<billing, existed>>
  PROVE  IInv'
<1>1. TypeOK'
  <2>1. IngestionTypeOK'
    BY MoveType DEF IInv, TypeOK, IngestionMove
  <2>2. (body[w] /\ worker'[w].pc # "idle") \in BOOLEAN
    OBVIOUS
  <2>3. body' \in [Workers -> BOOLEAN]
    BY <2>2 DEF IInv, TypeOK
  <2>4. BillingTypeOK'
    BY <2>3, TypeParts DEF IInv, BillingTypeOK, billing
  <2> QED
    BY <2>1, <2>4, TypePartsNext
<1>2. Grows
  BY DEF Grows, billing, Settled
<1>3. \A v \in Workers : worker'[v].pc = "emit" => worker'[v] = worker[v]
  BY DEF IInv, TypeOK, IngestionTypeOK, IngestionStep, CreateEvent, RereadEvent,
     MarkEventFailed, Answer, Rest, Goto, Resting
<1>4. \A d \in Events : row'[d] = "done" \/ d \notin owed' => row[d] = "done" \/ d \notin owed
  BY DEF IInv, TypeOK, IngestionTypeOK, IngestionStep, CreateEvent, RereadEvent,
     MarkEventFailed, Answer
<1>5. Recorded'
  BY <1>2, <1>3, <1>4, QuietStep DEF IInv, Recorded, billing, Settled
<1> QED
  BY <1>1, <1>2, <1>5, ToldStays DEF IInv, billing

LEMMA BreakKeeps ==
  ASSUME IInv, NEW w \in Workers, Break(w)
  PROVE  IInv'
<1>1. TypeOK'
  <2>1. IngestionTypeOK'
    BY MoveType DEF IInv, TypeOK, Break, IngestionMove
  <2>2. BillingTypeOK'
    BY TypeParts DEF IInv, BillingTypeOK, Break, billing
  <2> QED
    BY <2>1, <2>2, TypePartsNext
<1>2. Grows /\ UNCHANGED <<row, owed, orders, cycle, told, audits>>
  BY DEF Grows, Break, ProcessingFails, Crash, billing, Settled
<1>3. \A v \in Workers : worker'[v].pc = "emit" => worker'[v] = worker[v]
  BY DEF IInv, TypeOK, IngestionTypeOK, Break, ProcessingFails, Crash, Rest, Goto, Resting
<1>4. Recorded'
  BY <1>2, <1>3, QuietStep DEF IInv, Recorded, Settled
<1> QED
  BY <1>1, <1>2, <1>4, ToldStays DEF IInv

LEMMA BeginKeeps ==
  ASSUME IInv, NEW w \in Workers, BeginTransaction(w)
  PROVE  IInv'
<1>1. TypeOK'
  <2>1. IngestionTypeOK'
    BY MoveType DEF IInv, TypeOK, BeginTransaction, IngestionMove
  <2>2. (attempt[A(w)].status # "none") \in BOOLEAN
    OBVIOUS
  <2>3. existed' \in [Workers -> BOOLEAN]
    BY <2>2 DEF IInv, TypeOK, BeginTransaction
  <2>4. BillingTypeOK'
    BY <2>3, TypeParts DEF IInv, BillingTypeOK, BeginTransaction, billing
  <2> QED
    BY <2>1, <2>4, TypePartsNext
<1>2. Grows /\ UNCHANGED <<row, owed, orders, cycle, told, audits>>
  BY DEF Grows, BeginTransaction, billing, Settled
<1>3. \A v \in Workers : worker'[v].pc = "emit" => worker'[v] = worker[v]
  BY DEF IInv, TypeOK, IngestionTypeOK, BeginTransaction, Goto
<1>4. Recorded'
  BY <1>2, <1>3, QuietStep DEF IInv, Recorded, Settled
<1> QED
  BY <1>1, <1>2, <1>4, ToldStays DEF IInv

LEMMA RefusalKeeps ==
  ASSUME IInv, NEW w \in Workers, RefusedByUniqueness(w)
  PROVE  IInv'
<1>1. TypeOK'
  <2>1. IngestionTypeOK'
    BY MoveType DEF IInv, TypeOK, RefusedByUniqueness, IngestionMove
  <2>2. BillingTypeOK'
    BY TypeParts DEF IInv, BillingTypeOK, RefusedByUniqueness, billing
  <2> QED
    BY <2>1, <2>2, TypePartsNext
<1>2. Grows /\ UNCHANGED <<row, owed, orders, cycle, told, audits>>
  BY DEF Grows, RefusedByUniqueness, LeftPending, billing, Settled
<1>3. \A v \in Workers : worker'[v].pc = "emit" => worker'[v] = worker[v]
  BY DEF IInv, TypeOK, IngestionTypeOK, RefusedByUniqueness, LeftPending, Goto
<1>4. Recorded'
  BY <1>2, <1>3, QuietStep DEF IInv, Recorded, Settled
<1> QED
  BY <1>1, <1>2, <1>4, ToldStays DEF IInv

LEMMA EmitKeeps ==
  ASSUME IInv, NEW w \in Workers, Emit(w)
  PROVE  IInv'
<1> DEFINE t == <<A(w), Outcome(w)>>
<1>h. Of(w) \in Events /\ A(w) \in Attempts /\ Outcome(w) \in Outcomes
  BY InHand DEF IInv
<1>1. UNCHANGED <<row, attempt, orders, gifts, old, cycle, history, audits, body, existed>>
  BY DEF Emit
<1>2. TypeOK'
  <2>1. IngestionTypeOK'
    BY MoveType DEF IInv, TypeOK, Emit, IngestionMove
  <2>2. told' \subseteq Attempts \X Outcomes
    BY <1>h DEF IInv, TypeOK, Emit
  <2>3. BillingTypeOK'
    BY <1>1, <2>2, TypeParts DEF IInv, BillingTypeOK
  <2> QED
    BY <2>1, <2>3, TypePartsNext
<1>3. Recorded'
  <2>1. \A v \in Workers : worker'[v].pc = "emit" => worker'[v] = worker[v]
    BY DEF IInv, TypeOK, IngestionTypeOK, Emit, Answer, Rest, Resting
  <2>2. \A e \in Events : e \notin owed' => e \notin owed \/ e = Of(w)
    BY DEF Emit, Answer
  <2>3. At(w, "emit")
    BY DEF Emit
  <2>4. Grows /\ (orders' # {} => Settled')
    BY <1>1 DEF Grows, IInv, Recorded, Settled
  <2> QED
    BY <1>1, <2>1, <2>2, <2>3, <2>4, QuietStep
<1>4. ToldIsRecorded'
  <2>1. Outcome(w) # "challenged" =>
          IF t[2] = "succeeded" THEN t[1] \in orders
          ELSE \E e \in history : AttemptOf[e] = t[1] /\ OutcomeOf[e] = t[2]
    BY <1>h DEF Emit, IInv, Recorded, Complete, A, Outcome
  <2>2. \A s \in told' : s \in told \/ (s = t /\ Outcome(w) # "challenged")
    BY DEF Emit
  <2> QED
    BY <1>1, <2>1, <2>2 DEF IInv, ToldIsRecorded
<1>5. AuditedIsPaid'
  BY <1>1 DEF IInv, AuditedIsPaid, Settled
<1> QED
  BY <1>2, <1>3, <1>4, <1>5 DEF IInv

LEMMA EngineRecordsKeeps ==
  ASSUME IInv, NEW a \in Attempts, EngineRecords(a)
  PROVE  IInv'
<1>1. UNCHANGED <<ingestion, gifts, old, history, audits, body, existed>>
  BY DEF EngineRecords
<1>2. Grows /\ orders' = orders \cup {a} /\ cycle' = "succeeded" /\ Settled'
  BY DEF EngineRecords, Grows, Settled
<1>3. TypeOK'
  <2>1. attempt' \in [Attempts -> Rows]
    BY TypeParts DEF IInv, BillingTypeOK, EngineRecords, Rows, Outcomes
  <2>2. told' \subseteq Attempts \X Outcomes
    BY DEF IInv, TypeOK, EngineRecords, Outcomes
  <2>3. BillingTypeOK'
    BY <1>1, <1>2, <2>1, <2>2, TypeParts DEF IInv, BillingTypeOK
  <2>4. IngestionTypeOK'
    BY <1>1 DEF IInv, TypeOK, IngestionTypeOK, ingestion
  <2> QED
    BY <2>3, <2>4, TypePartsNext
<1>4. Recorded'
  BY <1>1, <1>2, QuietStep DEF ingestion
<1>5. ToldIsRecorded'
  <2>1. \A t \in told' : t \in told \/ t = <<a, "succeeded">>
    BY DEF EngineRecords
  <2> QED
    BY <1>1, <1>2, <2>1 DEF IInv, ToldIsRecorded
<1>6. AuditedIsPaid'
  BY <1>1, <1>2 DEF IInv, AuditedIsPaid
<1> QED
  BY <1>3, <1>4, <1>5, <1>6 DEF IInv

(* Neither the seed nor the final action opens a cycle that is settled.    *)
LEMMA EngineCycleKeeps ==
  ASSUME IInv, EngineSeeds \/ EngineActs
  PROVE  IInv'
<1>1. UNCHANGED <<ingestion, facts, body, existed>>
  BY DEF EngineSeeds, EngineActs
<1>2. /\ Settled => Settled'
      /\ cycle' \in {"none", "open", "succeeded", "finalized"}
  BY DEF EngineSeeds, EngineActs, Settled, IInv, TypeOK
<1>3. TypeOK'
  BY <1>1, <1>2 DEF IInv, TypeOK, IngestionTypeOK, ingestion, facts
<1>4. Grows /\ (orders' # {} => Settled')
  BY <1>1, <1>2 DEF Grows, facts, IInv, Recorded
<1>5. Recorded'
  BY <1>1, <1>4, QuietStep DEF ingestion
<1> QED
  BY <1>1, <1>3, <1>4, <1>5, ToldStays DEF IInv, facts

LEMMA OrderAgesKeeps ==
  ASSUME IInv, NEW a \in Attempts, OrderAges(a)
  PROVE  IInv'
<1>1. UNCHANGED <<ingestion, attempt, orders, gifts, cycle, history, audits, told, body, existed>>
  BY DEF OrderAges
<1>2. TypeOK'
  BY <1>1 DEF IInv, TypeOK, IngestionTypeOK, ingestion, OrderAges
<1>3. Grows /\ (orders' # {} => Settled')
  BY <1>1 DEF Grows, OrderAges, Settled, IInv, Recorded
<1>4. Recorded'
  BY <1>1, <1>3, QuietStep DEF ingestion
<1> QED
  BY <1>1, <1>2, <1>3, <1>4, ToldStays DEF IInv

LEMMA ReconcileKeeps ==
  ASSUME IInv, NEW a \in Attempts, Reconcile(a)
  PROVE  IInv'
<1>1. UNCHANGED <<ingestion, orders, gifts, old, history, told, body, existed>>
  BY DEF Reconcile
<1>2. a \in orders /\ cycle' = "succeeded" /\ Settled'
  BY DEF Reconcile, Reconcilable, IInv, Recorded, Settled
<1>3. TypeOK'
  <2>1. attempt' \in [Attempts -> Rows]
    BY TypeParts DEF IInv, BillingTypeOK, Reconcile, Rows, Outcomes
  <2>2. BillingTypeOK'
    BY <1>1, <1>2, <2>1, TypeParts DEF IInv, BillingTypeOK, Reconcile
  <2>3. IngestionTypeOK'
    BY <1>1 DEF IInv, TypeOK, IngestionTypeOK, ingestion
  <2> QED
    BY <2>2, <2>3, TypePartsNext
<1>4. Grows
  BY <1>1, <1>2 DEF Grows
<1>5. Recorded'
  BY <1>1, <1>2, <1>4, QuietStep DEF ingestion
<1>6. ToldIsRecorded'
  BY <1>1 DEF IInv, ToldIsRecorded
<1>7. AuditedIsPaid'
  BY <1>1, <1>2 DEF IInv, AuditedIsPaid, Reconcile
<1> QED
  BY <1>3, <1>5, <1>6, <1>7 DEF IInv

(* The transaction that records an attempt: a success that is answered     *)
(* has recorded its order, its gift and its cycle.                         *)
LEMMA RecordType ==
  ASSUME IInv, NEW w \in Workers, RecordBillingAttempt(w)
  PROVE  TypeOK'
<1>h. Of(w) \in Events /\ A(w) \in Attempts /\ Outcome(w) \in Outcomes
  BY InHand DEF IInv
<1>1. IngestionTypeOK'
  BY MoveType DEF IInv, TypeOK, RecordBillingAttempt, IngestionMove
<1>2. attempt' \in [Attempts -> Rows]
  <2>1. [status |-> Outcome(w), complete |-> body[w]] \in Rows
    BY <1>h DEF IInv, TypeOK, Rows
  <2> QED
    BY <1>h, <2>1, TypeParts DEF IInv, BillingTypeOK, RecordBillingAttempt
<1>3. /\ orders' \subseteq Attempts /\ gifts' \subseteq Attempts
      /\ cycle' \in {"none", "open", "succeeded", "finalized"}
  BY <1>h DEF IInv, TypeOK, RecordBillingAttempt, RecordOrder
<1>4. history' \subseteq Events
  BY <1>h DEF IInv, TypeOK, RecordBillingAttempt
<1>5. body' \in [Workers -> BOOLEAN] /\ existed' \in [Workers -> BOOLEAN]
  BY DEF IInv, TypeOK, RecordBillingAttempt
<1>6. BillingTypeOK'
  BY <1>2, <1>3, <1>4, <1>5, TypeParts DEF IInv, BillingTypeOK, RecordBillingAttempt
<1> QED
  BY <1>1, <1>6, TypePartsNext

LEMMA RecordKeeps ==
  ASSUME IInv, NEW w \in Workers, RecordBillingAttempt(w)
  PROVE  IInv'
<1>h. Of(w) \in Events /\ A(w) \in Attempts /\ Outcome(w) \in Outcomes
  BY InHand DEF IInv
<1>1. TypeOK'
  BY RecordType
<1>2. Grows /\ (orders' # {} => Settled')
  BY DEF Grows, RecordBillingAttempt, RecordOrder, IInv, Recorded, Settled
<1>3. ToldIsRecorded' /\ AuditedIsPaid'
  BY <1>2, ToldStays DEF RecordBillingAttempt
<1>4. CASE Pending(w)
  <2>1. UNCHANGED <<row, owed>>
    BY <1>4 DEF RecordBillingAttempt, LeftPending
  <2>2. \A v \in Workers : worker'[v].pc = "emit" => worker'[v] = worker[v]
    BY <1>4 DEF IInv, TypeOK, IngestionTypeOK, RecordBillingAttempt, LeftPending, Goto
  <2>3. Recorded'
    BY <1>2, <2>1, <2>2, QuietStep
  <2> QED
    BY <1>1, <1>3, <2>3 DEF IInv
<1>5. CASE ~Pending(w)
  <2>0. PICK d \in Events : d = Of(w)
    BY <1>h
  <2>1. OutcomeOf[d] = "succeeded" => Complete(AttemptOf[d])'
    BY <1>5, <2>0 DEF Pending, CompleteSuccess, Outcome, A, RecordBillingAttempt, RecordOrder,
       Complete, Settled
  <2>2. \A e \in Events : Complete(AttemptOf[e]) => Complete(AttemptOf[e])'
    BY <1>2 DEF Complete, Grows
  <2>3. /\ owed' = owed
        /\ \A e \in Events : row'[e] = "done" => row[e] = "done" \/ e = d
    BY <1>5, <1>h, <2>0 DEF RecordBillingAttempt, Processed, IInv, TypeOK, IngestionTypeOK
  <2>4. /\ \A v \in Workers : v # w => worker'[v] = worker[v]
        /\ worker'[w].event = d
    BY <1>5, <2>0 DEF RecordBillingAttempt, Processed, Goto, IInv, TypeOK, IngestionTypeOK, Of
  <2>5. history' = history \cup {d}
    BY <2>0 DEF RecordBillingAttempt
  <2>6. \A e \in Events : row'[e] = "done" \/ e \notin owed' =>
           (OutcomeOf[e] = "succeeded" => Complete(AttemptOf[e])')
    BY <2>1, <2>2, <2>3 DEF IInv, Recorded
  <2>7. \A v \in Workers, e \in Events : At(v, "emit")' /\ Of(v)' = e =>
           /\ OutcomeOf[e] = "succeeded" => Complete(AttemptOf[e])'
           /\ e \in history'
    BY <2>1, <2>2, <2>4, <2>5 DEF IInv, Recorded, At, Of
  <2>8. Recorded'
    BY <1>2, <2>6, <2>7 DEF Recorded
  <2> QED
    BY <1>1, <1>3, <2>8 DEF IInv
<1> QED
  BY <1>4, <1>5

-----------------------------------------------------------------------------
LEMMA InvNext == IInv /\ [Next]_vars => IInv'
<1> SUFFICES ASSUME IInv, [Next]_vars PROVE IInv'
  OBVIOUS
<1>1. CASE UNCHANGED vars
  BY <1>1 DEF vars, ingestion, IInv, TypeOK, IngestionTypeOK, Recorded, Complete, At, Of,
     ToldIsRecorded, AuditedIsPaid, Settled
<1>2. ASSUME NEW w \in Workers, Continue(w) PROVE IInv'
  BY <1>2, IngestionKeeps, BeginKeeps, RecordKeeps, RefusalKeeps, EmitKeeps DEF Continue
<1> QED
  BY <1>1, <1>2, ReceiveKeeps, BreakKeeps, EngineRecordsKeeps, EngineCycleKeeps, OrderAgesKeeps,
     ReconcileKeeps DEF Next

LEMMA InvCorrect == Spec => []IInv
BY InvInit, InvNext, PTL DEF Spec

(* Every variable keeps its type.                                          *)
THEOREM TypeCorrect == Spec => []TypeOK
BY InvCorrect, PTL DEF IInv

(* An acknowledged success has its order, its gift job unless the order    *)
(* was too old for one, and a settled cycle, for any number of attempts,   *)
(* events, invocations and faults, whatever the engine does meanwhile.     *)
THEOREM AcknowledgedComplete == Spec => []SuccessIsComplete
<1>1. IInv => SuccessIsComplete
  BY DEF IInv, Recorded, SuccessIsComplete, Complete
<1> QED
  BY <1>1, InvCorrect, PTL

(* Nobody is told of a renewal without an order, or of a failure that is   *)
(* not in the history.                                                     *)
THEOREM ToldRecorded == Spec => []ToldIsRecorded
BY InvCorrect, PTL DEF IInv

(* What an operator has reconciled has an order, and its cycle is paid or  *)
(* finally acted on.                                                       *)
THEOREM AuditedPaid == Spec => []AuditedIsPaid
BY InvCorrect, PTL DEF IInv
=============================================================================
