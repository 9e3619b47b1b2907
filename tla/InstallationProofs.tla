------------------------- MODULE InstallationProofs -------------------------
(***************************************************************************)
(* What holds of a shop's row for any number of invocations, installations *)
(* and uninstallations: the types, and that only the uninstallation of the *)
(* present installation makes it inactive.                                 *)
(***************************************************************************)
EXTENDS Installation, TLAPS

(* The ingestion's part of the state. Whatever a move makes of a worker,   *)
(* it is the resting state or the same worker at another place or event.   *)
Desk == [pc : Places, event : Events]

LEMMA RestingType == Resting \in Desk
<1>1. (CHOOSE e \in Events : TRUE) \in Events
  BY IngestionAssumption
<1> QED
  BY <1>1 DEF Resting, Desk, Places

LEMMA IngestionInitType == IngestionInit => IngestionTypeOK
BY RestingType, IngestionAssumption DEF IngestionInit, IngestionTypeOK, Desk

LEMMA OfType ==
  ASSUME IngestionTypeOK, NEW w \in Workers
  PROVE  Of(w) \in Events
BY DEF IngestionTypeOK, Of

LEMMA MoveType ==
  ASSUME IngestionTypeOK, NEW w \in Workers, IngestionMove(w)
  PROVE  IngestionTypeOK'
<1>1. UNCHANGED worker \/ \E r \in Desk : worker' = [worker EXCEPT ![w] = r]
  <2>1. Rest(w) => worker' = [worker EXCEPT ![w] = Resting]
    BY DEF Rest
  <2>2. ASSUME NEW pc \in Places, Goto(w, pc)
        PROVE  \E r \in Desk : worker' = [worker EXCEPT ![w] = r]
    <3>1. worker' = [worker EXCEPT ![w] = [worker[w] EXCEPT !.pc = pc]]
      BY <2>2 DEF Goto
    <3>2. [worker[w] EXCEPT !.pc = pc] \in Desk
      BY DEF IngestionTypeOK, Desk
    <3> QED
      BY <3>1, <3>2
  <2>3. ASSUME NEW e \in Events, Deliver(w, e)
        PROVE  UNCHANGED worker \/ \E r \in Desk : worker' = [worker EXCEPT ![w] = r]
    <3>1. [pc |-> IF row[e] = "absent" THEN "create" ELSE "begin", event |-> e] \in Desk
      BY DEF Desk, Places
    <3> QED
      BY <2>3, <3>1 DEF Deliver
  <2>4. \/ \E e \in Events : Deliver(w, e)
        \/ Rest(w)
        \/ \E pc \in Places : Goto(w, pc)
    BY DEF IngestionMove, IngestionStep, CreateEvent, RereadEvent, MarkEventFailed, Answer,
       Processed, LeftPending, ProcessingFails, Crash, Places
  <2> QED
    BY <2>1, <2>2, <2>3, <2>4, RestingType
<1>2. worker' \in [Workers -> Desk]
  BY <1>1 DEF IngestionTypeOK, Desk
<1>3. row' \in [Events -> {"absent", "open", "done"}] /\ owed' \subseteq Events
  BY DEF IngestionTypeOK, IngestionMove, Deliver, IngestionStep, CreateEvent, RereadEvent,
     MarkEventFailed, Answer, Processed, LeftPending, ProcessingFails, Crash
<1>4. faults' \in 0 .. MaxFaults
  BY IngestionAssumption DEF IngestionTypeOK, IngestionMove, Deliver, IngestionStep, CreateEvent,
     RereadEvent, MarkEventFailed, Answer, Processed, LeftPending, ProcessingFails, Crash, Fault
<1> QED
  BY <1>2, <1>3, <1>4 DEF IngestionTypeOK, Desk
-----------------------------------------------------------------------------
(* The variables of this module keep their types. An installation has been *)
(* asked for before it is made, so the generation is never above the calls *)
(* that have arrived.                                                      *)
ShopRow(c, t) == [row : {"none", "inactive", "active"}, generation : 0 .. c,
                  installedAt : 0 .. t, uninstalledAt : 0 .. t]

ShopTypeOK ==
    /\ now \in Nat
    /\ installed \in BOOLEAN
    /\ happened \in Nat
    /\ trigger \in [Events -> 0 .. now]
    /\ calls \in 0 .. MaxCalls
    /\ coming \in 0 .. calls
    /\ shop \in ShopRow(calls, now)
    /\ captured \in [Workers -> 0 .. calls]
    /\ crossed \in BOOLEAN

Arrived == shop.generation + coming <= calls

LEMMA TypeParts == TypeOK <=> IngestionTypeOK /\ ShopTypeOK
BY DEF TypeOK, ShopTypeOK, ShopRow

LEMMA TypePartsNext == TypeOK' <=> IngestionTypeOK' /\ ShopTypeOK'
BY DEF TypeOK, ShopTypeOK, ShopRow

(* To the ingestion every step is one of its moves, or none.               *)
LEMMA StepOfIngestion ==
  ASSUME [Next]_vars
  PROVE  UNCHANGED ingestion \/ \E w \in Workers : IngestionMove(w)
BY DEF Next, Authorise, Uninstall, Install, Receive, Continue, BeginTransaction, Deactivate,
   AnswerUninstall, Break, IngestionMove, vars

LEMMA IngestionTypeNext == IngestionTypeOK /\ [Next]_vars => IngestionTypeOK'
<1>1. ASSUME IngestionTypeOK, UNCHANGED ingestion PROVE IngestionTypeOK'
  BY <1>1 DEF IngestionTypeOK, ingestion
<1> QED
  BY <1>1, MoveType, StepOfIngestion

LEMMA TypeInit == Init => TypeOK /\ Arrived
<1> SUFFICES ASSUME Init PROVE TypeOK /\ Arrived
  OBVIOUS
<1>1. ShopTypeOK /\ Arrived
  <2>1. calls = 0 /\ coming = 0 /\ now = 1 /\ shop = NoShop
    BY DEF Init
  <2>2. shop \in ShopRow(calls, now) /\ Arrived
    BY <2>1 DEF ShopRow, NoShop, Arrived
  <2>3. calls \in 0 .. MaxCalls /\ coming \in 0 .. calls /\ 0 \in 0 .. calls /\ 0 \in 0 .. now
    BY <2>1, InstallationAssumption
  <2>4. installed \in BOOLEAN /\ crossed \in BOOLEAN /\ happened \in Nat
    BY DEF Init
  <2>5. trigger \in [Events -> 0 .. now] /\ captured \in [Workers -> 0 .. calls]
    BY <2>3 DEF Init
  <2> QED
    BY <2>1, <2>2, <2>3, <2>4, <2>5 DEF ShopTypeOK
<1> QED
  BY <1>1, IngestionInitType, TypeParts DEF Init

(* What is not later than a time, or a count, is not later than a larger.  *)
LEMMA RowGrows ==
  ASSUME NEW c \in Nat, NEW d \in Nat, NEW t \in Nat, NEW u \in Nat, c <= d, t <= u
  PROVE  ShopRow(c, t) \subseteq ShopRow(d, u)
<1>1. 0 .. c \subseteq 0 .. d /\ 0 .. t \subseteq 0 .. u
  OBVIOUS
<1> QED
  BY <1>1 DEF ShopRow

LEMMA AuthoriseType ==
  ASSUME TypeOK, Arrived, Authorise
  PROVE  ShopTypeOK' /\ Arrived'
<1>t. ShopTypeOK
  BY TypeParts
<1>1. calls \in Nat /\ MaxCalls \in Nat /\ coming \in Nat /\ now \in Nat
  BY <1>t, InstallationAssumption DEF ShopTypeOK
<1>2. calls' \in 0 .. MaxCalls /\ coming' \in 0 .. calls' /\ calls' = calls + 1
  BY <1>t, <1>1 DEF Authorise, ShopTypeOK
<1>3. shop' \in ShopRow(calls', now')
  BY <1>t, <1>1, <1>2, RowGrows DEF Authorise, ShopTypeOK
<1>4. captured' \in [Workers -> 0 .. calls']
  <2>1. 0 .. calls \subseteq 0 .. calls'
    BY <1>1, <1>2
  <2> QED
    BY <1>t, <2>1 DEF Authorise, ShopTypeOK
<1>5. Arrived'
  <2>1. shop.generation \in Nat
    BY <1>t DEF ShopTypeOK, ShopRow
  <2> QED
    BY <1>1, <2>1 DEF Authorise, Arrived
<1> QED
  BY <1>t, <1>2, <1>3, <1>4, <1>5 DEF Authorise, ShopTypeOK

LEMMA UninstallType ==
  ASSUME TypeOK, Arrived, Uninstall
  PROVE  ShopTypeOK' /\ Arrived'
<1>t. ShopTypeOK
  BY TypeParts
<1>1. calls \in Nat /\ now \in Nat /\ now' = now + 1 /\ happened' = happened + 1
  BY <1>t, InstallationAssumption DEF ShopTypeOK, Uninstall
<1>2. 0 .. now \subseteq 0 .. now' /\ now + 1 \in 0 .. now'
  BY <1>1
<1>3. trigger' \in [Events -> 0 .. now']
  BY <1>t, <1>2 DEF Uninstall, ShopTypeOK
<1>4. shop' \in ShopRow(calls', now')
  BY <1>t, <1>1, RowGrows DEF Uninstall, ShopTypeOK
<1>5. now' \in Nat /\ happened' \in Nat
  BY <1>t, <1>1 DEF ShopTypeOK
<1>6. installed' \in BOOLEAN /\ crossed' \in BOOLEAN
  BY <1>t DEF Uninstall, ShopTypeOK
<1>7. UNCHANGED <<calls, coming, shop, captured>>
  BY DEF Uninstall
<1> QED
  BY <1>t, <1>3, <1>4, <1>5, <1>6, <1>7 DEF ShopTypeOK, Arrived

LEMMA InstallType ==
  ASSUME TypeOK, Arrived, Install
  PROVE  ShopTypeOK' /\ Arrived'
<1>t. ShopTypeOK
  BY TypeParts
<1>1. calls \in Nat /\ coming \in Nat /\ now \in Nat /\ now' = now + 1 /\ coming' = coming - 1
  BY <1>t, InstallationAssumption DEF ShopTypeOK, Install
<1>2. shop.generation \in Nat
  BY <1>t DEF ShopTypeOK, ShopRow
<1>3. 0 .. now \subseteq 0 .. now' /\ now + 1 \in 0 .. now' /\ 0 \in 0 .. now'
  BY <1>1
<1>4. coming > 0 /\ coming' \in 0 .. calls
  BY <1>t, <1>1 DEF ShopTypeOK, Install
<1>5. trigger' \in [Events -> 0 .. now']
  BY <1>t, <1>3 DEF Install, ShopTypeOK
<1>6. shop' \in ShopRow(calls, now') /\ shop'.generation + coming' <= calls
  <2>1. CASE shop.row = "none"
    <3>1. shop' = [row |-> "active", generation |-> 1, installedAt |-> now + 1,
                   uninstalledAt |-> 0]
      BY <2>1 DEF Install
    <3>2. 1 \in 0 .. calls /\ 1 + coming' <= calls
      BY <1>t, <1>1, <1>4 DEF ShopTypeOK
    <3> QED
      BY <1>3, <3>1, <3>2 DEF ShopRow
  <2>2. CASE shop.row = "active"
    <3>1. shop' = shop
      BY <2>2 DEF Install
    <3>2. shop' \in ShopRow(calls, now')
      BY <1>t, <1>1, <3>1, RowGrows DEF ShopTypeOK
    <3> QED
      BY <1>1, <1>2, <3>1, <3>2 DEF Arrived
  <2>3. CASE shop.row = "inactive"
    <3>1. shop' = Reactivated
      BY <2>3 DEF Install
    <3>2. /\ shop'.row = "active" /\ shop'.generation = shop.generation + 1
          /\ shop' = [row |-> shop'.row, generation |-> shop'.generation,
                      installedAt |-> now + 1, uninstalledAt |-> 0]
      BY <1>t, <3>1 DEF Reactivated, ShopTypeOK, ShopRow
    <3>3. shop'.generation \in 0 .. calls /\ shop'.generation + coming' <= calls
      BY <1>1, <1>2, <1>4, <3>2 DEF Arrived
    <3> QED
      BY <1>3, <3>2, <3>3 DEF ShopRow
  <2> QED
    BY <1>t, <2>1, <2>2, <2>3 DEF ShopTypeOK, ShopRow
<1>7. crossed' \in BOOLEAN
  BY <1>t DEF Install, ShopTypeOK
<1>8. UNCHANGED <<installed, happened, calls, captured>> /\ now' \in Nat
  BY <1>1 DEF Install
<1> QED
  BY <1>t, <1>4, <1>5, <1>6, <1>7, <1>8 DEF ShopTypeOK, Arrived

(* A step of an invocation changes the row and what it has read of it.     *)
LEMMA WorkerType ==
  ASSUME TypeOK, Arrived, NEW w \in Workers,
         Continue(w) \/ Break(w) \/ \E e \in Events : Receive(w, e)
  PROVE  ShopTypeOK' /\ Arrived'
<1>t. ShopTypeOK
  BY TypeParts
<1>1. UNCHANGED <<world, crossed>>
  BY DEF Continue, Break, Receive, BeginTransaction, Deactivate, AnswerUninstall
<1>2. 0 \in 0 .. calls /\ shop.generation \in 0 .. calls
  BY <1>t DEF ShopTypeOK, ShopRow
<1>3. captured' \in [Workers -> 0 .. calls]
  BY <1>t, <1>2 DEF Continue, Break, Receive, BeginTransaction, Deactivate,
     AnswerUninstall, ShopTypeOK
<1>4. shop' \in ShopRow(calls, now) /\ shop'.generation = shop.generation
  <2>1. trigger[Of(w)] \in 0 .. now
    BY <1>t, OfType, TypeParts DEF ShopTypeOK
  <2>2. [shop EXCEPT !.row = "inactive", !.uninstalledAt = trigger[Of(w)]]
           \in ShopRow(calls, now)
    BY <1>t, <2>1 DEF ShopTypeOK, ShopRow
  <2>3. shop' = shop \/ shop' = [shop EXCEPT !.row = "inactive",
                                             !.uninstalledAt = trigger[Of(w)]]
    BY DEF Continue, Break, Receive, BeginTransaction, Deactivate, AnswerUninstall
  <2> QED
    BY <1>t, <2>2, <2>3 DEF ShopTypeOK, ShopRow
<1> QED
  BY <1>t, <1>1, <1>3, <1>4 DEF world, ShopTypeOK, Arrived

LEMMA TypeNext == TypeOK /\ Arrived /\ [Next]_vars => TypeOK' /\ Arrived'
<1> SUFFICES ASSUME TypeOK, Arrived, [Next]_vars PROVE ShopTypeOK' /\ Arrived'
  BY IngestionTypeNext, TypeParts, TypePartsNext
<1>1. CASE UNCHANGED vars
  BY <1>1, TypeParts DEF vars, world, ShopTypeOK, Arrived
<1> QED
  BY <1>1, AuthoriseType, UninstallType, InstallType, WorkerType DEF Next

(* Every variable keeps its type.                                          *)
THEOREM TypeCorrect == Spec => []TypeOK
<1>1. Spec => [](TypeOK /\ Arrived)
  BY TypeInit, TypeNext, PTL DEF Spec
<1> QED
  BY <1>1, PTL

-----------------------------------------------------------------------------
(* The inductive invariant. Only uninstallations that have happened, to a  *)
(* shop that has a row, are delivered, and nothing is later than now       *)
(* (Known). One that is processed has ended the installation it found, or  *)
(* is of an earlier one (Answered); one that has captured an older         *)
(* generation is of an earlier one (Overtaken). Therefore, while no call   *)
(* of /install has crossed an uninstallation and none is on its way, an    *)
(* installed shop is active since after its last uninstallation (Settled). *)
Before(e) == trigger[e] < shop.installedAt

Known ==
    /\ \A e \in Events : IF e <= happened THEN trigger[e] > 0 ELSE row[e] = "absent"
    /\ \A w \in Workers : ~At(w, "idle") => Of(w) <= happened /\ shop.row # "none"
    /\ shop.row = "active" => shop.uninstalledAt = 0

Answered ==
    \A e \in Events : row[e] = "done" => shop.row = "inactive" \/ Before(e)

Overtaken ==
    \A w \in Workers :
        At(w, "commit") /\ captured[w] # shop.generation
            => shop.row = "inactive" \/ Before(Of(w))

Settled ==
    ~crossed /\ installed /\ coming = 0 =>
        /\ shop.row = "active"
        /\ \A e \in Events : e <= happened => Before(e)

History == Known /\ Answered /\ Overtaken /\ Settled
IInv    == TypeOK /\ Arrived /\ History

LEMMA Numbers ==
  ASSUME TypeOK
  PROVE  /\ now \in Nat /\ happened \in Nat
         /\ shop.installedAt \in Nat /\ shop.installedAt <= now
         /\ \A e \in Events : trigger[e] \in Nat /\ trigger[e] <= now
         /\ \A e \in Events : e \in Nat \ {0}
<1>1. now \in Nat /\ happened \in Nat /\ shop.installedAt \in 0 .. now
  BY DEF TypeOK
<1>2. \A e \in Events : trigger[e] \in 0 .. now
  BY DEF TypeOK
<1> QED
  BY <1>1, <1>2, InstallationAssumption

LEMMA HistoryInit == Init => IInv
<1> SUFFICES ASSUME Init PROVE History
  BY TypeInit DEF IInv
<1>1. \A w \in Workers : At(w, "idle")
  BY DEF Init, IngestionInit, Resting, At
<1>2. \A e \in Events : e \in Nat \ {0}
  BY InstallationAssumption
<1>3. Known
  BY <1>1, <1>2 DEF Init, IngestionInit, Known, NoShop
<1> QED
  BY <1>1, <1>3 DEF Init, IngestionInit, History, Answered, Overtaken, Settled, At

-----------------------------------------------------------------------------
(* A step of an invocation other than the one that writes the row: what is *)
(* processed was, and who is about to write has read the row as it is.     *)
LEMMA QuietStep ==
  ASSUME TypeOK, History, UNCHANGED <<world, shop, crossed>>,
         \A e \in Events : row'[e] = row[e] \/ (row'[e] = "open" /\ e <= happened),
         \A w \in Workers : ~At(w, "idle")' =>
             \/ ~At(w, "idle") /\ Of(w)' = Of(w)
             \/ Of(w)' <= happened /\ shop.row # "none",
         \A w \in Workers : At(w, "commit")' =>
             \/ At(w, "commit") /\ Of(w)' = Of(w) /\ captured'[w] = captured[w]
             \/ captured'[w] = shop.generation
  PROVE  History'
<1>1. UNCHANGED <<now, installed, happened, trigger, calls, coming>>
  BY DEF world
<1>2. \A e \in Events : Before(e)' <=> Before(e)
  BY <1>1 DEF Before
<1>3. Known'
  BY <1>1 DEF History, Known
<1>4. Answered'
  BY <1>2 DEF History, Answered
<1>5. Overtaken'
  <2> SUFFICES ASSUME NEW w \in Workers, At(w, "commit")', captured'[w] # shop'.generation
               PROVE  shop'.row = "inactive" \/ Before(Of(w))'
    BY DEF Overtaken
  <2>1. At(w, "commit") /\ Of(w)' = Of(w) /\ captured[w] # shop.generation
    OBVIOUS
  <2>2. shop.row = "inactive" \/ Before(Of(w))
    BY <2>1 DEF History, Overtaken
  <2> QED
    BY <1>1, <2>1, <2>2 DEF Before
<1>6. Settled'
  BY <1>1, <1>2 DEF History, Settled
<1> QED
  BY <1>3, <1>4, <1>5, <1>6 DEF History

LEMMA ReceiveKeeps ==
  ASSUME TypeOK, History, NEW w \in Workers, NEW e \in Events, Receive(w, e)
  PROVE  History'
<1>1. \A v \in Workers :
        \/ worker'[v] = worker[v]
        \/ worker'[v].pc \in {"create", "begin"} /\ worker'[v].event = e
  BY DEF TypeOK, IngestionTypeOK, Receive, Deliver
<1>2. e <= happened /\ shop.row # "none" /\ UNCHANGED <<row, world, shop, captured, crossed>>
  BY DEF Receive, Deliver
<1> QED
  BY <1>1, <1>2, QuietStep DEF At, Of

LEMMA IngestionKeeps ==
  ASSUME TypeOK, History, NEW w \in Workers, IngestionStep(w),
         UNCHANGED <<world, shop, captured, crossed>>
  PROVE  History'
<1>1. \A v \in Workers :
        \/ worker'[v] = worker[v]
        \/ worker'[v].pc = "idle"
        \/ /\ worker'[v].pc \in {"begin", "reread"} /\ worker'[v].event = worker[v].event
           /\ worker[v].pc # "idle"
  BY DEF TypeOK, IngestionTypeOK, IngestionStep, CreateEvent, RereadEvent,
         MarkEventFailed, Answer, Rest, Goto, Resting, At
<1>2. Of(w) \in Events /\ Of(w) <= happened
  BY OfType DEF TypeOK, History, Known, IngestionStep, CreateEvent, RereadEvent,
     MarkEventFailed, At
<1>3. \A e \in Events : row'[e] = row[e] \/ (row'[e] = "open" /\ e <= happened)
  BY <1>2 DEF TypeOK, IngestionTypeOK, IngestionStep, CreateEvent, RereadEvent,
     MarkEventFailed
<1> QED
  BY <1>1, <1>3, QuietStep DEF At, Of

LEMMA BeginKeeps ==
  ASSUME TypeOK, History, NEW w \in Workers, BeginTransaction(w)
  PROVE  History'
<1>1. \A v \in Workers \ {w} : worker'[v] = worker[v] /\ captured'[v] = captured[v]
  BY DEF TypeOK, IngestionTypeOK, BeginTransaction, Goto
<1>2. /\ worker'[w].event = worker[w].event /\ worker[w].pc # "idle"
      /\ captured'[w] = shop.generation
  BY DEF TypeOK, IngestionTypeOK, BeginTransaction, Goto, At
<1> QED
  BY <1>1, <1>2, QuietStep DEF BeginTransaction, At, Of

LEMMA AnswerKeeps ==
  ASSUME TypeOK, History, NEW w \in Workers, AnswerUninstall(w)
  PROVE  History'
<1>1. \A v \in Workers : worker'[v] = worker[v] \/ worker'[v].pc = "idle"
  BY DEF TypeOK, IngestionTypeOK, AnswerUninstall, Answer, Rest, Resting
<1> QED
  BY <1>1, QuietStep DEF AnswerUninstall, At, Of

LEMMA BreakKeeps ==
  ASSUME TypeOK, History, NEW w \in Workers, Break(w)
  PROVE  History'
<1>1. \A v \in Workers \ {w} : worker'[v] = worker[v] /\ captured'[v] = captured[v]
  BY DEF TypeOK, IngestionTypeOK, Break, ProcessingFails, Crash, Rest, Goto
<1>2. \/ worker'[w].pc = "idle"
      \/ /\ worker'[w].pc = "fail" /\ worker'[w].event = worker[w].event
         /\ worker[w].pc # "idle"
  BY DEF TypeOK, IngestionTypeOK, Break, ProcessingFails, Crash, Rest, Goto, Resting
<1>3. UNCHANGED <<row, world, shop, crossed>>
  BY DEF Break, ProcessingFails, Crash
<1> QED
  BY <1>1, <1>2, <1>3, QuietStep DEF At, Of

(* The heart of it: the transaction of an uninstallation that does not end *)
(* the installation it finds leaves an inactive row, or one installed      *)
(* since. One that does end it is not of an installation before.           *)
LEMMA DeactivateKeeps ==
  ASSUME TypeOK, History, NEW w \in Workers, Deactivate(w)
  PROVE  History'
<1>0. UNCHANGED <<now, installed, happened, trigger, calls, coming, crossed>>
  BY DEF Deactivate, world
<1>e. PICK e \in Events : e = Of(w)
  BY OfType DEF TypeOK
<1>1. e <= happened /\ trigger[e] > 0 /\ shop.row # "none"
  BY <1>e DEF History, Known, Deactivate, At
<1>2. \A v \in Workers \ {w} : worker'[v] = worker[v] /\ captured'[v] = captured[v]
  BY DEF TypeOK, IngestionTypeOK, Deactivate, Processed, Goto
<1>3. worker'[w].pc = "emit" /\ worker'[w].event = e
  BY <1>e DEF TypeOK, IngestionTypeOK, Deactivate, Processed, Goto, Of
<1>4. /\ row'[e] = "done"
      /\ \A d \in Events : d # e => row'[d] = row[d]
  BY <1>e DEF TypeOK, IngestionTypeOK, Deactivate, Processed
<1>5. shop'.generation = shop.generation /\ shop'.installedAt = shop.installedAt
  BY DEF TypeOK, Deactivate
<1>6. \/ shop'.row = "inactive" /\ Concerns(w)
      \/ shop' = shop /\ ~Concerns(w)
  BY DEF TypeOK, Deactivate
<1>7. ~Concerns(w) => shop.row = "inactive" \/ Before(e)
  <2> SUFFICES ASSUME ~Concerns(w), shop.row = "active"
               PROVE  Before(e)
    BY <1>1 DEF TypeOK
  <2>1. CASE captured[w] # shop.generation
    BY <1>e, <2>1 DEF History, Overtaken, Deactivate
  <2>2. CASE captured[w] = shop.generation
    <3>1. ~(shop.installedAt <= trigger[e])
      BY <1>e, <1>1, <2>2 DEF Concerns, History, Known
    <3> QED
      BY <3>1, Numbers DEF Before
  <2> QED
    BY <2>1, <2>2
<1>8. \A d \in Events : Before(d)' <=> Before(d)
  BY <1>0, <1>5 DEF Before
<1>9. Known'
  BY <1>0, <1>1, <1>2, <1>3, <1>4, <1>6 DEF History, Known, At, Of
<1>10. Answered'
  BY <1>4, <1>6, <1>7, <1>8 DEF History, Answered
<1>11. Overtaken'
  BY <1>0, <1>2, <1>3, <1>5, <1>6 DEF History, Overtaken, At, Of, Before
<1>12. Settled'
  <2>1. Concerns(w) => ~Before(e)
    BY <1>e, Numbers DEF Concerns, Before
  <2> QED
    BY <1>0, <1>1, <1>6, <1>8, <2>1 DEF History, Settled
<1> QED
  BY <1>9, <1>10, <1>11, <1>12 DEF History

-----------------------------------------------------------------------------
LEMMA AuthoriseKeeps ==
  ASSUME TypeOK, History, Authorise
  PROVE  History'
<1>1. UNCHANGED <<row, worker, happened, trigger, shop, captured>>
  BY DEF Authorise, ingestion
<1>2. coming' # 0
  BY DEF TypeOK, Authorise
<1> QED
  BY <1>1, <1>2 DEF History, Known, Answered, Overtaken, Settled, At, Of, Before

LEMMA UninstallKeeps ==
  ASSUME TypeOK, History, Uninstall
  PROVE  History'
<1>1. UNCHANGED <<row, worker, shop, captured>> /\ ~installed' /\ happened' = happened + 1
  BY DEF Uninstall, ingestion
<1>2. \A e \in Events : e <= happened => trigger'[e] = trigger[e]
  BY Numbers DEF TypeOK, Uninstall
<1>3. trigger'[happened + 1] > 0
  BY Numbers DEF TypeOK, Uninstall
<1>4. Known'
  <2>1. ASSUME NEW e \in Events
        PROVE  IF e <= happened' THEN trigger'[e] > 0 ELSE row'[e] = "absent"
    <3>1. e \in Nat /\ happened \in Nat
      BY Numbers
    <3>2. CASE e <= happened
      BY <1>1, <1>2, <3>1, <3>2 DEF History, Known
    <3>3. CASE e = happened + 1
      BY <1>1, <1>3, <3>1, <3>3
    <3>4. CASE e > happened + 1
      BY <1>1, <3>1, <3>4 DEF History, Known
    <3> QED
      BY <3>1, <3>2, <3>3, <3>4
  <2>2. ASSUME NEW w \in Workers, ~At(w, "idle")'
        PROVE  Of(w)' <= happened' /\ shop'.row # "none"
    <3>1. Of(w) \in Nat /\ Of(w) <= happened /\ shop.row # "none"
      BY <1>1, <2>2, OfType, Numbers DEF History, Known, TypeOK, At, Of
    <3> QED
      BY <1>1, <3>1, Numbers DEF Of
  <2> QED
    BY <1>1, <2>1, <2>2 DEF Known, History
<1>5. Answered'
  <2>1. \A e \in Events : row[e] = "done" => e <= happened
    BY Numbers DEF History, Known
  <2> QED
    BY <1>1, <1>2, <2>1 DEF History, Answered, Before
<1>6. Overtaken'
  <2>1. \A w \in Workers : At(w, "commit") => Of(w) <= happened /\ Of(w) \in Events
    BY OfType DEF TypeOK, History, Known, At
  <2> QED
    BY <1>1, <1>2, <2>1 DEF History, Overtaken, Before, At, Of
<1> QED
  BY <1>1, <1>4, <1>5, <1>6 DEF History, Settled

LEMMA InstallKeeps ==
  ASSUME TypeOK, History, Install
  PROVE  History'
<1>0. UNCHANGED <<row, worker, installed, happened, trigger, captured>>
  BY DEF Install, ingestion
<1>1. CASE shop.row = "active"
  <2>1. shop' = shop
    BY <1>1 DEF Install
  <2>2. ~crossed' => installed /\ ~Outstanding
    BY <1>1 DEF Install
  <2>3. ~Outstanding => \A e \in Events : e <= happened => Before(e)
    <3> SUFFICES ASSUME ~Outstanding, NEW e \in Events, e <= happened
                 PROVE  Before(e)
      OBVIOUS
    <3>1. e \in 1 .. happened
      BY Numbers
    <3> QED
      BY <1>1, <3>1 DEF Outstanding, History, Answered
  <2>4. Settled'
    BY <1>0, <1>1, <2>1, <2>2, <2>3 DEF Settled, Before
  <2> QED
    BY <1>0, <2>1, <2>4 DEF History, Known, Answered, Overtaken, At, Of, Before
<1>2. CASE shop.row # "active"
  <2>1. shop'.row = "active" /\ shop'.installedAt = now + 1 /\ shop'.uninstalledAt = 0
    <3>1. shop.row \in {"none", "inactive"}
      BY <1>2 DEF TypeOK
    <3> QED
      BY <3>1 DEF Install, Reactivated, TypeOK
  <2>2. \A e \in Events : Before(e)'
    BY <1>0, <2>1, Numbers DEF Before
  <2>3. \A w \in Workers : Of(w)' \in Events
    BY <1>0, OfType DEF TypeOK, Of
  <2>4. Known'
    BY <1>0, <2>1 DEF History, Known, At, Of
  <2> QED
    BY <2>1, <2>2, <2>3, <2>4 DEF History, Answered, Overtaken, Settled
<1> QED
  BY <1>1, <1>2

-----------------------------------------------------------------------------
LEMMA HistoryNext == IInv /\ [Next]_vars => IInv'
<1> SUFFICES ASSUME TypeOK, Arrived, History, [Next]_vars PROVE History'
  BY TypeNext DEF IInv
<1>1. CASE UNCHANGED vars
  BY <1>1 DEF vars, world, ingestion, History, Known, Answered, Overtaken, Settled, At, Of, Before
<1> QED
  BY <1>1, AuthoriseKeeps, UninstallKeeps, InstallKeeps, ReceiveKeeps, IngestionKeeps, BeginKeeps,
     AnswerKeeps, BreakKeeps, DeactivateKeeps DEF Next, Continue

LEMMA InvCorrect == Spec => []IInv
BY HistoryInit, HistoryNext, PTL DEF Spec

(* Late, repeated and concurrent uninstallations make only a shop inactive *)
(* whose installation they ended, for any number of each, until a call of  *)
(* /install crosses an uninstallation.                                     *)
THEOREM InactiveCorrect == Spec => []InactiveIsUninstalled
<1>1. IInv => InactiveIsUninstalled
  <2> SUFFICES ASSUME IInv, shop.row = "inactive", ~crossed, installed, ~(coming > 0)
               PROVE  FALSE
    BY DEF InactiveIsUninstalled
  <2>1. coming = 0
    BY DEF IInv, TypeOK
  <2> QED
    BY <2>1 DEF IInv, History, Settled
<1> QED
  BY <1>1, InvCorrect, PTL
=============================================================================
