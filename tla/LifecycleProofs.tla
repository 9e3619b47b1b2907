-------------------------- MODULE LifecycleProofs --------------------------
(* Theorems about Lifecycle: for any requests, keys and gateways.          *)
EXTENDS Lifecycle, TLAPS

LEMMA Constants == Keys # {} /\ Gateways \subseteq {"shopify", "stripe"} /\ MaxCrashes \in Nat
  BY LifecycleAssumption

LEMMA RowTypes ==
  /\ NoRow \in Row
  /\ \A a \in Actions : [NoRow EXCEPT !.status = "pending", !.action = a] \in Row
  /\ \A a \in Actions : Target[a] \in SubStatus
BY DEF NoRow, Row, Actions, Target, SubStatus, Terminal

LEMMA IdleType == Idle \in RequestState
<1>1. (CHOOSE k \in Keys : TRUE) \in Keys
  BY Constants
<1> QED
  BY <1>1, RowTypes DEF Idle, RequestState, Actions, SubStatus

Pcs == {"idle", "lookup", "check", "create", "reread", "recover", "call", "mark",
        "finalize", "fail"}

LEMMA MoveType ==
  ASSUME TypeOK, NEW w \in Requests
  PROVE  /\ Rest(w) => request' \in [Requests -> RequestState]
         /\ \A pc \in Pcs : Goto(w, pc) => request' \in [Requests -> RequestState]
<1>1. request \in [Requests -> RequestState]
  BY DEF TypeOK
<1>2. Rest(w) => request' \in [Requests -> RequestState]
  BY <1>1, IdleType DEF Rest
<1>3. ASSUME NEW pc \in Pcs, Goto(w, pc)
      PROVE  request' \in [Requests -> RequestState]
  <2>1. [request[w] EXCEPT !.pc = pc] \in RequestState
    BY <1>1 DEF RequestState, Pcs
  <2> QED
    BY <1>1, <1>3, <2>1 DEF Goto
<1> QED
  BY <1>2, <1>3

(* What a write of a record does to the record and to the requests.        *)
LEMMA WriteStep ==
  ASSUME TypeOK, NEW w \in Requests, NEW pc \in Pcs,
         NEW status \in {"recovering", "external_succeeded", "succeeded", "failed"},
         Write(w, pc, status)
  PROVE  LET k == request[w].key
         IN  /\ record' \in [Keys -> Row]
             /\ request' \in [Requests -> RequestState]
             /\ record'[k].status = status /\ record'[k].action = record[k].action
             /\ ~record'[k].stale
             /\ \A i \in Keys \ {k} : record'[i] = record[i]
             /\ pc = "idle" => request'[w].pc = "idle"
             /\ pc # "idle" => request'[w] = [request[w] EXCEPT !.pc = pc]
             /\ \A v \in Requests \ {w} :
                   request'[v] = [request[v] EXCEPT !.current = @ /\ request[v].key # k]
<1> DEFINE k == request[w].key
<1>1. /\ request \in [Requests -> RequestState] /\ record \in [Keys -> Row]
      /\ \A v \in Requests : request[v] \in RequestState
      /\ k \in Keys
  BY DEF TypeOK, RequestState
<1>2. record' = [record EXCEPT ![k] = Rewritten(record[k], status)]
  BY DEF Write
<1>3. /\ Rewritten(record[k], status) \in Row
      /\ Rewritten(record[k], status).status = status
      /\ Rewritten(record[k], status).action = record[k].action
      /\ ~Rewritten(record[k], status).stale
  BY <1>1 DEF Rewritten, Row
<1>4. request' = [v \in Requests |->
          IF v = w THEN (IF pc = "idle" THEN Idle ELSE [request[w] EXCEPT !.pc = pc])
          ELSE [request[v] EXCEPT !.current = @ /\ request[v].key # k]]
  BY DEF Write
<1>5. [request[w] EXCEPT !.pc = pc] \in RequestState
  BY <1>1 DEF RequestState, Pcs
<1>6. ASSUME NEW v \in Requests
      PROVE  [request[v] EXCEPT !.current = @ /\ request[v].key # k] \in RequestState
  <2> DEFINE c == request[v].current /\ request[v].key # k
  <2>1. c \in BOOLEAN
    OBVIOUS
  <2> HIDE DEF c
  <2>2. [request[v] EXCEPT !.current = c] \in RequestState
    BY <1>1, <2>1 DEF RequestState
  <2> QED
    BY <2>2 DEF c
<1>7. request' \in [Requests -> RequestState]
  BY <1>4, <1>5, <1>6, IdleType
<1>8. Idle.pc = "idle"
  BY DEF Idle
<1> QED
  BY <1>1, <1>2, <1>3, <1>4, <1>7, <1>8

(* A record that is stale is one in progress. *)
StaleInProgress == \A k \in Keys : record[k].stale => record[k].status \in {"pending", "recovering"}

LEMMA ContinueType ==
  ASSUME TypeOK, NEW w \in Requests, Continue(w)
  PROVE  TypeOK'
<1>r. /\ request \in [Requests -> RequestState] /\ request[w] \in RequestState
      /\ record \in [Keys -> Row] /\ request[w].key \in Keys
      /\ request[w].action \in Actions /\ record[request[w].key] \in Row
  BY DEF TypeOK, RequestState
<1>1. CASE Lookup(w)
  <2>1. request' \in [Requests -> RequestState]
    <3>1. ASSUME NEW pc \in Pcs
          PROVE  [request[w] EXCEPT !.pc = pc, !.row = record[request[w].key],
                                    !.current = TRUE] \in RequestState
      BY <1>r DEF RequestState, Pcs
    <3>2. \/ Rest(w)
          \/ \E pc \in Pcs : request' = [request EXCEPT ![w] =
                [request[w] EXCEPT !.pc = pc, !.row = record[request[w].key],
                                   !.current = TRUE]]
      BY <1>1 DEF Lookup, Pcs
    <3> QED
      BY <1>r, <3>1, <3>2, MoveType
  <2> QED
    BY <1>1, <2>1 DEF Lookup, OnlyRequest, Surroundings, TypeOK
<1>2. CASE CheckPending(w) \/ CreateRefused(w) \/ Reread(w)
  <2>1. Rest(w) \/ Goto(w, "create") \/ Goto(w, "reread") \/ Goto(w, "finalize")
    BY <1>2 DEF CheckPending, CreateRefused, Reread
  <2>2. request' \in [Requests -> RequestState]
    BY <2>1, MoveType DEF Pcs
  <2> QED
    BY <1>2, <2>2 DEF CheckPending, CreateRefused, Reread, OnlyRequest, Surroundings, TypeOK
<1>3. CASE Create(w)
  <2> DEFINE row == [NoRow EXCEPT !.status = "pending", !.action = request[w].action]
  <2>1. row \in Row /\ row.status = "pending"
    BY <1>r, RowTypes DEF NoRow
  <2>2. record' = [record EXCEPT ![request[w].key] = row] /\ Goto(w, "call")
    BY <1>3 DEF Create
  <2> HIDE DEF row
  <2>3. record' \in [Keys -> Row]
    BY <1>r, <2>1, <2>2
  <2>4. request' \in [Requests -> RequestState]
    BY <2>2, MoveType DEF Pcs
  <2>5. StaleInProgress'
    BY <1>r, <2>1, <2>2 DEF StaleInProgress, TypeOK
  <2> QED
    BY <1>3, <2>3, <2>4, <2>5 DEF Create, OnlyRecord, Surroundings, StaleInProgress, TypeOK
<1>4. CASE Recover(w) \/ Mark(w) \/ RecordFailure(w) \/ FinalizeLocal(w)
  <2>1. \/ Rest(w) /\ record' = record
        \/ \E pc \in Pcs,
              s \in {"recovering", "external_succeeded", "succeeded", "failed"} : Write(w, pc, s)
    BY <1>4 DEF Recover, Mark, RecordFailure, FinalizeLocal, FailureStatus, Pcs
  <2>2. /\ record' \in [Keys -> Row] /\ request' \in [Requests -> RequestState]
        /\ StaleInProgress'
    <3>1. CASE Rest(w) /\ record' = record
      BY <3>1, <1>r, MoveType DEF StaleInProgress, TypeOK
    <3>2. ASSUME NEW pc \in Pcs,
                 NEW s \in {"recovering", "external_succeeded", "succeeded", "failed"},
                 Write(w, pc, s)
          PROVE  /\ record' \in [Keys -> Row] /\ request' \in [Requests -> RequestState]
                 /\ StaleInProgress'
      BY <3>2, <1>r, WriteStep DEF StaleInProgress, TypeOK
    <3> QED
      BY <2>1, <3>1, <3>2
  <2>3. subscription' \in SubStatus
    BY <1>4, <1>r, RowTypes
       DEF Recover, Mark, RecordFailure, FinalizeLocal, OnlyRecord, Surroundings, TypeOK
  <2> QED
    BY <1>4, <2>2, <2>3
       DEF Recover, Mark, RecordFailure, FinalizeLocal, OnlyRecord, Surroundings,
           StaleInProgress, TypeOK
<1>5. CASE Call(w)
  <2>1. Goto(w, "mark") \/ Goto(w, "fail")
    BY <1>5 DEF Call
  <2>2. request' \in [Requests -> RequestState]
    BY <2>1, MoveType DEF Pcs
  <2>3. <<request[w].key, request[w].action>> \in Keys \X Actions
    BY <1>r
  <2>4. /\ external' \in SubStatus
        /\ applied' \subseteq Keys \X Actions /\ coming' \subseteq Keys \X Actions
    BY <1>5, <1>r, <2>3, RowTypes DEF Call, TypeOK
  <2> QED
    BY <1>5, <2>2, <2>4 DEF Call, TypeOK
<1> QED
  BY <1>1, <1>2, <1>3, <1>4, <1>5 DEF Continue

LEMMA NextType ==
  ASSUME TypeOK, [Next]_vars
  PROVE  TypeOK'
<1>1. ASSUME NEW w \in Requests, NEW k \in Keys, NEW a \in Actions, Begin(w, k, a)
      PROVE  TypeOK'
  <2>1. [Idle EXCEPT !.pc = "lookup", !.key = k, !.action = a, !.seen = subscription]
          \in RequestState
    BY IdleType DEF RequestState, TypeOK
  <2>2. request' \in [Requests -> RequestState]
    BY <1>1, <2>1 DEF Begin, TypeOK
  <2> QED
    BY <1>1, <2>2 DEF Begin, OnlyRequest, Surroundings, TypeOK
<1>2. ASSUME NEW w \in Requests, Crash(w)
      PROVE  TypeOK'
  <2>1. crashes' \in 0 .. MaxCrashes
    BY <1>2, Constants DEF Crash, TypeOK
  <2> QED
    BY <1>2, <2>1, MoveType DEF Crash, TypeOK
<1>3. ASSUME NEW k \in Keys, Age(k)
      PROVE  TypeOK'
  <2>1. record \in [Keys -> Row] /\ [record[k] EXCEPT !.stale = TRUE] \in Row
    BY DEF TypeOK, Row
  <2>2. record' = [record EXCEPT ![k] = [record[k] EXCEPT !.stale = TRUE]]
    BY <1>3 DEF Age
  <2>3. record' \in [Keys -> Row]
    BY <2>1, <2>2
  <2>4. StaleInProgress'
    BY <1>3, <2>1, <2>2 DEF Age, Row, StaleInProgress, TypeOK
  <2>5. overrun' \subseteq Keys /\ (overrun' # {} => gateway' = "stripe")
    BY <1>3 DEF Age, TypeOK
  <2> QED
    BY <1>3, <2>3, <2>4, <2>5 DEF Age, StaleInProgress, TypeOK
<1>4. CASE ApplyComing
  <2>1. PICK ka \in coming :
          /\ coming' = coming \ {ka}
          /\ \/ /\ external' = Target[ka[2]]
                /\ applied' = applied \cup {ka}
             \/ UNCHANGED <<external, applied>>
    BY <1>4 DEF ApplyComing
  <2>2. ka \in Keys \X Actions /\ ka[2] \in Actions
    BY DEF TypeOK
  <2> QED
    BY <1>4, <2>1, <2>2, RowTypes DEF ApplyComing, TypeOK
<1>5. CASE Expire \/ Webhook
  BY <1>5 DEF Expire, Webhook, TypeOK, SubStatus, Terminal
<1>6. CASE UNCHANGED vars
  BY <1>6 DEF vars, TypeOK
<1> QED
  BY <1>1, <1>2, <1>3, <1>4, <1>5, <1>6, ContinueType DEF Next

LEMMA InitType == Init => TypeOK
<1>1. Init => request \in [Requests -> RequestState]
  BY IdleType DEF Init
<1>2. Init => record \in [Keys -> Row] /\ StaleInProgress
  <2>1. NoRow \in Row /\ ~NoRow.stale
    BY RowTypes DEF NoRow
  <2> QED
    BY <2>1 DEF Init, StaleInProgress
<1> QED
  BY <1>1, <1>2, Constants DEF Init, TypeOK, SubStatus, StaleInProgress

(* Every variable keeps its type, and only records in progress go stale.   *)
THEOREM TypeCorrect == Spec => []TypeOK
BY InitType, NextType, PTL DEF Spec

-----------------------------------------------------------------------------
(* The inductive invariant. A request at the gateway, or writing down what *)
(* came of it, has a record of its own action; as long as no call under    *)
(* its key took longer than 60 s, that record is in progress and fresh.    *)
(* One that may recover a record holds the very row it read; one that      *)
(* writes to the subscription has a record of success.                     *)

Confirmed == {"external_succeeded", "succeeded"}

RecordsOwn ==
    \A w \in Requests : request[w].pc \in Holding \cup {"finalize"} =>
        LET row == record[request[w].key]
        IN  row.status # "absent" /\ row.action = request[w].action

HoldersInProgress ==
    \A w \in Requests : request[w].pc \in Holding /\ request[w].key \notin overrun =>
        LET row == record[request[w].key]
        IN  row.status \in {"pending", "recovering"} /\ ~row.stale

ReadersCurrent ==
    \A w \in Requests : At(w, "recover") /\ request[w].current =>
        LET row == record[request[w].key]
        IN  Recoverable(row) /\ row.action = request[w].action

FinalizersConfirmed ==
    \A w \in Requests : At(w, "finalize") /\ request[w].key \notin overrun =>
        record[request[w].key].status \in Confirmed

Inv == /\ TypeOK /\ OneHolder /\ SuccessIsReal /\ RecordsOwn
       /\ HoldersInProgress /\ ReadersCurrent /\ FinalizersConfirmed

(* A request of its own never makes a call outlast the 60 s.               *)
LEMMA SameOverrun ==
  ASSUME NEW w \in Requests, Continue(w)
  PROVE  overrun' = overrun
BY DEF Continue, Lookup, CheckPending, Create, CreateRefused, Reread, Recover, Call, Mark,
       RecordFailure, FinalizeLocal, OnlyRequest, OnlyRecord, Surroundings

(* How a step of request w changes the record of its key: a new record in  *)
(* progress when there was none, a recovery of one that nobody holds, the  *)
(* confirmation or the failure of one that w holds, or its last write.     *)
LEMMA RecordSteps ==
  ASSUME Inv, NEW w \in Requests, Continue(w), NEW k \in Keys
  PROVE  \/ record'[k] = record[k]
         \/ /\ k = request[w].key
            /\ \/ /\ Create(w) /\ record[k].status = "absent"
                  /\ record'[k] = [NoRow EXCEPT !.status = "pending",
                                                !.action = request[w].action]
               \/ /\ Write(w, "call", "recovering") /\ Recover(w) /\ request[w].current
                  /\ Recoverable(record[k]) /\ record[k].action = request[w].action
               \/ /\ Write(w, "finalize", "external_succeeded") /\ At(w, "mark")
               \/ /\ Write(w, "idle", "failed") /\ At(w, "fail")
               \/ /\ Write(w, "idle", "succeeded") /\ At(w, "finalize")
<1>r. /\ request \in [Requests -> RequestState] /\ record \in [Keys -> Row]
      /\ request[w].key \in Keys /\ request[w].action \in Actions
  BY DEF Inv, TypeOK, RequestState
<1>1. CASE Lookup(w) \/ CheckPending(w) \/ CreateRefused(w) \/ Reread(w) \/ Call(w)
  BY <1>1 DEF Lookup, CheckPending, CreateRefused, Reread, Call, OnlyRequest
<1>2. CASE Create(w)
  BY <1>2, <1>r DEF Create
<1>3. CASE Recover(w)
  <2>1. CASE request[w].current
    <3>1. Recoverable(record[request[w].key]) /\ record[request[w].key].action = request[w].action
      BY <1>3, <2>1 DEF Recover, Inv, ReadersCurrent
    <3>2. Write(w, "call", "recovering")
      BY <1>3, <2>1 DEF Recover, SameRow
    <3>3. k # request[w].key => record'[k] = record[k]
      BY <3>2, <1>r, WriteStep DEF Inv, Pcs
    <3> QED
      BY <1>3, <2>1, <3>1, <3>2, <3>3
  <2>2. CASE ~request[w].current
    BY <1>3, <2>2 DEF Recover, SameRow
  <2> QED
    BY <2>1, <2>2
<1>4. CASE Mark(w)
  <2>1. Write(w, "finalize", "external_succeeded") /\ At(w, "mark")
    BY <1>4 DEF Mark
  <2>2. k # request[w].key => record'[k] = record[k]
    BY <2>1, <1>r, WriteStep DEF Inv, Pcs
  <2> QED
    BY <2>1, <2>2
<1>5. CASE RecordFailure(w)
  <2>1. Write(w, "idle", "failed") /\ At(w, "fail")
    BY <1>5 DEF RecordFailure, FailureStatus
  <2>2. k # request[w].key => record'[k] = record[k]
    BY <2>1, <1>r, WriteStep DEF Inv, Pcs
  <2> QED
    BY <2>1, <2>2
<1>6. CASE FinalizeLocal(w)
  <2>1. Write(w, "idle", "succeeded") /\ At(w, "finalize")
    BY <1>6 DEF FinalizeLocal
  <2>2. k # request[w].key => record'[k] = record[k]
    BY <2>1, <1>r, WriteStep DEF Inv, Pcs
  <2> QED
    BY <2>1, <2>2
<1> QED
  BY <1>1, <1>2, <1>3, <1>4, <1>5, <1>6 DEF Continue

(* The other requests stay where they are. What one of them read is current *)
(* only if the record of its key was not written.                          *)
LEMMA OthersStay ==
  ASSUME Inv, NEW w \in Requests, Continue(w), NEW v \in Requests \ {w}
  PROVE  /\ request'[v].pc = request[v].pc
         /\ request'[v].key = request[v].key /\ request'[v].action = request[v].action
         /\ request'[v].current =>
               /\ request[v].current
               /\ \/ record'[request[v].key] = record[request[v].key]
                  \/ record[request[v].key].status = "absent"
<1>r. /\ request \in [Requests -> RequestState] /\ request[v] \in RequestState
      /\ request[v].key \in Keys
  BY DEF Inv, TypeOK, RequestState
<1>1. CASE request'[v] = request[v] /\ record' = record
  BY <1>1
<1>2. CASE Create(w)
  <2>1. request'[v] = request[v]
    BY <1>2, <1>r DEF Create, Goto
  <2> QED
    BY <1>r, <2>1, <1>2 DEF Create, Inv, TypeOK
<1>3. ASSUME NEW pc \in Pcs, Write(w, pc, "recovering") \/ Write(w, pc, "external_succeeded")
                             \/ Write(w, pc, "failed") \/ Write(w, pc, "succeeded")
      PROVE  /\ request'[v].pc = request[v].pc
             /\ request'[v].key = request[v].key /\ request'[v].action = request[v].action
             /\ request'[v].current =>
                   request[v].current /\ record'[request[v].key] = record[request[v].key]
  <2>1. /\ request'[v] = [request[v] EXCEPT !.current =
                             request[v].current /\ request[v].key # request[w].key]
        /\ \A i \in Keys \ {request[w].key} : record'[i] = record[i]
    BY <1>3, WriteStep DEF Inv
  <2>2. /\ request'[v].pc = request[v].pc /\ request'[v].key = request[v].key
        /\ request'[v].action = request[v].action
        /\ request'[v].current = (request[v].current /\ request[v].key # request[w].key)
    BY <2>1, <1>r DEF RequestState
  <2> QED
    BY <2>1, <2>2, <1>r
<1>4. CASE Lookup(w) \/ CheckPending(w) \/ CreateRefused(w) \/ Reread(w) \/ Call(w)
  <2>1. request'[v] = request[v]
    BY <1>4, <1>r DEF Lookup, CheckPending, CreateRefused, Reread, Call, Rest, Goto
  <2> QED
    BY <1>1, <1>4, <2>1 DEF Lookup, CheckPending, CreateRefused, Reread, Call, OnlyRequest
<1>5. CASE Recover(w) \/ Mark(w) \/ RecordFailure(w) \/ FinalizeLocal(w)
  <2>1. \/ \E pc \in Pcs : Write(w, pc, "recovering") \/ Write(w, pc, "external_succeeded")
                          \/ Write(w, pc, "failed") \/ Write(w, pc, "succeeded")
        \/ Rest(w) /\ record' = record
    BY <1>5 DEF Recover, Mark, RecordFailure, FinalizeLocal, FailureStatus, Pcs
  <2>2. Rest(w) => request'[v] = request[v]
    BY <1>r DEF Rest
  <2> QED
    BY <1>1, <1>3, <2>1, <2>2
<1> QED
  BY <1>2, <1>4, <1>5 DEF Continue

(* Where a step leads the request that takes it, and on what grounds.      *)
LEMMA OwnMove ==
  ASSUME Inv, NEW w \in Requests, Continue(w)
  PROVE  LET row == record[request[w].key]
         IN  /\ request'[w].pc # "idle" => /\ request'[w].key = request[w].key
                                           /\ request'[w].action = request[w].action
             /\ request'[w].pc \in Holding =>
                   \/ Create(w)
                   \/ Recover(w) /\ request[w].current /\ Write(w, "call", "recovering")
                   \/ Call(w) /\ request[w].pc \in Holding
             /\ request'[w].pc = "mark" =>
                   Call(w) /\ <<request[w].key, request[w].action>> \in applied'
             /\ request'[w].pc = "recover" =>
                   Lookup(w) /\ Recoverable(row) /\ row.action = request[w].action
             /\ request'[w].pc = "finalize" =>
                   \/ /\ Lookup(w) \/ Reread(w)
                      /\ row.status = "external_succeeded" /\ row.action = request[w].action
                   \/ At(w, "mark") /\ Write(w, "finalize", "external_succeeded")
<1>r. /\ request \in [Requests -> RequestState] /\ request[w] \in RequestState
      /\ Idle.pc = "idle" /\ request[w].key \in Keys
  BY DEF Inv, TypeOK, RequestState, Idle
<1>m. /\ Rest(w) => request'[w].pc = "idle"
      /\ \A pc \in Pcs : Goto(w, pc) => /\ request'[w].pc = pc
                                         /\ request'[w].key = request[w].key
                                         /\ request'[w].action = request[w].action
  BY <1>r DEF Rest, Goto, RequestState
<1>1. CASE Lookup(w)
  <2> DEFINE row == record[request[w].key]
  <2>1. \/ Rest(w)
        \/ \E pc \in {"finalize", "check", "recover"} :
              /\ request' = [request EXCEPT ![w] = [request[w] EXCEPT !.pc = pc, !.row = row,
                                                                     !.current = TRUE]]
              /\ pc = "finalize" => row.status = "external_succeeded"
              /\ pc = "recover" => Recoverable(row)
              /\ pc # "check" => row.action = request[w].action
    BY <1>1 DEF Lookup, Recoverable
  <2>2. ASSUME NEW pc \in {"finalize", "check", "recover"},
               request' = [request EXCEPT ![w] = [request[w] EXCEPT !.pc = pc, !.row = row,
                                                                    !.current = TRUE]]
        PROVE  /\ request'[w].pc = pc /\ request'[w].key = request[w].key
               /\ request'[w].action = request[w].action
    BY <2>2, <1>r DEF RequestState
  <2> QED
    BY <1>1, <1>m, <2>1, <2>2 DEF Holding
<1>2. CASE CheckPending(w) \/ CreateRefused(w)
  <2>1. Rest(w) \/ Goto(w, "create") \/ Goto(w, "reread")
    BY <1>2 DEF CheckPending, CreateRefused
  <2> QED
    BY <1>m, <2>1 DEF Holding, Pcs
<1>3. CASE Reread(w)
  BY <1>3, <1>m DEF Reread, ConfirmedByOther, Holding, Pcs
<1>4. CASE Create(w)
  BY <1>4, <1>m DEF Create, Holding, Pcs
<1>5. CASE Recover(w)
  <2>1. Rest(w) \/ (request[w].current /\ Write(w, "call", "recovering"))
    BY <1>5 DEF Recover, SameRow
  <2>2. Write(w, "call", "recovering") => request'[w] = [request[w] EXCEPT !.pc = "call"]
    BY WriteStep DEF Inv, Pcs
  <2>3. Write(w, "call", "recovering") => /\ request'[w].pc = "call"
                                          /\ request'[w].key = request[w].key
                                          /\ request'[w].action = request[w].action
    BY <2>2, <1>r DEF RequestState
  <2> QED
    BY <1>5, <1>m, <2>1, <2>3 DEF Holding
<1>6. CASE Call(w)
  <2>1. Goto(w, "fail") \/ (Goto(w, "mark") /\ <<request[w].key, request[w].action>> \in applied')
    BY <1>6 DEF Call
  <2>2. request[w].pc \in Holding
    BY <1>6 DEF Call, At, Holding
  <2> QED
    BY <1>6, <1>m, <2>1, <2>2 DEF Pcs
<1>7. CASE Mark(w)
  <2>1. Write(w, "finalize", "external_succeeded") /\ At(w, "mark")
    BY <1>7 DEF Mark
  <2>2. request'[w] = [request[w] EXCEPT !.pc = "finalize"]
    BY <2>1, WriteStep DEF Inv, Pcs
  <2>3. /\ request'[w].pc = "finalize" /\ request'[w].key = request[w].key
        /\ request'[w].action = request[w].action
    BY <2>2, <1>r DEF RequestState
  <2> QED
    BY <2>1, <2>3 DEF Holding
<1>8. CASE RecordFailure(w) \/ FinalizeLocal(w)
  <2>1. Write(w, "idle", "failed") \/ Write(w, "idle", "succeeded")
    BY <1>8 DEF RecordFailure, FinalizeLocal, FailureStatus
  <2>2. request'[w].pc = "idle"
    BY <2>1, WriteStep DEF Inv, Pcs
  <2> QED
    BY <2>2 DEF Holding
<1> QED
  BY <1>1, <1>2, <1>3, <1>4, <1>5, <1>6, <1>7, <1>8 DEF Continue

(* The gateway never takes back what it has carried out.                   *)
LEMMA AppliedGrows ==
  ASSUME NEW w \in Requests, Continue(w)
  PROVE  applied \subseteq applied'
<1>1. UNCHANGED applied \/ Call(w)
  BY DEF Continue, Lookup, CheckPending, Create, CreateRefused, Reread, Recover, Mark,
         RecordFailure, FinalizeLocal, OnlyRequest, OnlyRecord, Surroundings
<1> QED
  BY <1>1 DEF Call

(* A record keeps its action for good. One that someone holds is not       *)
(* written by anyone else, and one that is confirmed stays confirmed, as   *)
(* long as no call under its key took longer than 60 s.                    *)
LEMMA ActionKept ==
  ASSUME Inv, NEW w \in Requests, Continue(w), NEW k \in Keys, record[k].status # "absent"
  PROVE  record'[k].status # "absent" /\ record'[k].action = record[k].action
<1>1. ASSUME NEW pc \in Pcs,
             NEW s \in {"recovering", "external_succeeded", "succeeded", "failed"},
             Write(w, pc, s), k = request[w].key
      PROVE  record'[k].status # "absent" /\ record'[k].action = record[k].action
  BY <1>1, WriteStep DEF Inv
<1> QED
  BY <1>1, RecordSteps DEF Pcs

LEMMA HeldStays ==
  ASSUME Inv, NEW w \in Requests, Continue(w), NEW v \in Requests \ {w},
         request[v].pc \in Holding, request[v].key \notin overrun
  PROVE  record'[request[v].key] = record[request[v].key]
<1> DEFINE k == request[v].key
<1>r. k \in Keys /\ request[w].key \in Keys
  BY DEF Inv, TypeOK, RequestState
<1>1. record[k].status \in {"pending", "recovering"} /\ ~record[k].stale
  BY DEF Inv, HoldersInProgress
<1>2. ~(request[w].pc \in Holding /\ request[w].key = k)
  BY <1>r DEF Inv, OneHolder, Holds
<1>3. At(w, "finalize") /\ request[w].key = k => record[k].status \in Confirmed
  BY DEF Inv, FinalizersConfirmed
<1> QED
  BY <1>r, <1>1, <1>2, <1>3, RecordSteps DEF Recoverable, At, Holding, Confirmed

LEMMA ConfirmedKept ==
  ASSUME Inv, NEW w \in Requests, Continue(w), NEW k \in Keys \ overrun,
         record[k].status \in Confirmed
  PROVE  /\ record'[k].status \in Confirmed
         /\ record[k].status = "succeeded" => record'[k].status = "succeeded"
<1>1. ~(request[w].pc \in Holding /\ request[w].key = k)
  BY DEF Inv, HoldersInProgress, Confirmed
<1>2. Write(w, "idle", "succeeded") /\ request[w].key = k =>
         record'[k].status = "succeeded"
  BY WriteStep DEF Inv, Pcs
<1> QED
  BY <1>1, <1>2, RecordSteps DEF Recoverable, At, Holding, Confirmed

LEMMA ContinueHolders ==
  ASSUME Inv, NEW w \in Requests, Continue(w)
  PROVE  RecordsOwn' /\ HoldersInProgress' /\ OneHolder'
<1>r. /\ record \in [Keys -> Row] /\ request \in [Requests -> RequestState]
      /\ \A v \in Requests : request[v].key \in Keys /\ request[v].action \in Actions
      /\ overrun' = overrun
  BY SameOverrun DEF Inv, TypeOK, RequestState
<1>o. \A v \in Requests \ {w} :
         request'[v].pc = request[v].pc /\ request'[v].key = request[v].key
         /\ request'[v].action = request[v].action
  BY OthersStay
<1>w. ASSUME request'[w].pc \in Holding
      PROVE  /\ request'[w].key = request[w].key /\ request'[w].action = request[w].action
             /\ \/ Create(w)
                \/ Recover(w) /\ request[w].current /\ Write(w, "call", "recovering")
                \/ Call(w) /\ request[w].pc \in Holding
  BY <1>w, OwnMove DEF Holding
<1>c. ASSUME Create(w)
      PROVE  LET row == record'[request[w].key]
             IN  row.status = "pending" /\ ~row.stale /\ row.action = request[w].action
  <2> DEFINE row == [NoRow EXCEPT !.status = "pending", !.action = request[w].action]
  <2>1. row.status = "pending" /\ ~row.stale /\ row.action = request[w].action
    BY DEF NoRow
  <2>2. record'[request[w].key] = row
    BY <1>c, <1>r DEF Create
  <2> HIDE DEF row
  <2> QED
    BY <2>1, <2>2
<1>v. ASSUME Recover(w), request[w].current, Write(w, "call", "recovering")
      PROVE  LET row == record'[request[w].key]
             IN  row.status = "recovering" /\ ~row.stale /\ row.action = request[w].action
  <2>1. record[request[w].key].action = request[w].action
    BY <1>v DEF Recover, Inv, ReadersCurrent
  <2>2. /\ record'[request[w].key].status = "recovering" /\ ~record'[request[w].key].stale
        /\ record'[request[w].key].action = record[request[w].key].action
    BY <1>v, WriteStep DEF Inv, Pcs
  <2> QED
    BY <2>1, <2>2
<1>1. ASSUME NEW v \in Requests, request'[v].pc \in Holding \cup {"finalize"}
      PROVE  LET row == record'[request'[v].key]
             IN  row.status # "absent" /\ row.action = request'[v].action
  <2>1. CASE request[v].pc \in Holding \cup {"finalize"} /\ request'[v].key = request[v].key
             /\ request'[v].action = request[v].action
    <3>1. LET row == record[request[v].key]
          IN  row.status # "absent" /\ row.action = request[v].action
      BY <2>1 DEF Inv, RecordsOwn
    <3> QED
      BY <1>r, <2>1, <3>1, ActionKept
  <2>2. CASE v = w /\ (Create(w) \/ Recover(w)) /\ request'[w].pc \in Holding
    BY <1>c, <1>v, <1>w, <2>2 DEF Create, Recover, Call, At
  <2>3. CASE v = w /\ request'[w].pc = "finalize" /\ ~At(w, "mark")
    <3>1. /\ Lookup(w) \/ Reread(w)
          /\ record[request[w].key].status = "external_succeeded"
          /\ record[request[w].key].action = request[w].action
          /\ request'[w].key = request[w].key /\ request'[w].action = request[w].action
      BY <2>3, OwnMove
    <3>2. record' = record
      BY <3>1 DEF Lookup, Reread, OnlyRequest
    <3> QED
      BY <2>3, <3>1, <3>2
  <2>4. CASE v = w /\ request'[w].pc = "finalize" /\ At(w, "mark")
    BY <2>1, <2>4, OwnMove DEF At, Holding
  <2> QED
    BY <1>1, <1>o, <1>w, <2>1, <2>2, <2>3, <2>4
<1>2. RecordsOwn'
  BY <1>1 DEF RecordsOwn
<1>3. ASSUME NEW v \in Requests, request'[v].pc \in Holding, request'[v].key \notin overrun
      PROVE  LET row == record'[request'[v].key]
             IN  row.status \in {"pending", "recovering"} /\ ~row.stale
  <2>1. CASE v # w
    <3>1. record'[request[v].key] = record[request[v].key]
      BY <1>3, <1>o, <2>1, HeldStays
    <3> QED
      BY <1>3, <1>o, <2>1, <3>1 DEF Inv, HoldersInProgress
  <2>2. CASE v = w /\ Create(w)
    BY <1>3, <1>w, <1>c, <2>2
  <2>3. CASE /\ v = w /\ Recover(w) /\ request[w].current
            /\ Write(w, "call", "recovering")
    BY <1>3, <1>w, <1>v, <2>3
  <2>4. CASE v = w /\ Call(w) /\ request[w].pc \in Holding
    BY <1>3, <1>w, <2>4 DEF Call, Inv, HoldersInProgress
  <2> QED
    BY <1>3, <1>w, <2>1, <2>2, <2>3, <2>4
<1>4. HoldersInProgress'
  BY <1>3, <1>r DEF HoldersInProgress
<1>5. ASSUME NEW v \in Requests \ {w}, request'[v].pc \in Holding,
             request'[w].pc \in Holding, request'[v].key = request'[w].key,
             request'[v].key \notin overrun
      PROVE  FALSE
  <2>1. /\ request[v].pc \in Holding /\ request[v].key = request[w].key
        /\ request[w].key \in Keys \ overrun
    BY <1>5, <1>o, <1>w, <1>r
  <2>2. record[request[w].key].status \in {"pending", "recovering"}
        /\ ~record[request[w].key].stale
    BY <2>1 DEF Inv, HoldersInProgress
  <2>4. CASE Create(w)
    BY <2>2, <2>4 DEF Create
  <2>5. CASE Recover(w) /\ request[w].current /\ Write(w, "call", "recovering")
    BY <2>1, <2>2, <2>5 DEF Recover, Inv, ReadersCurrent, Recoverable
  <2>6. CASE Call(w) /\ request[w].pc \in Holding
    BY <2>1, <2>6 DEF Inv, OneHolder, Holds
  <2> QED
    BY <1>w, <1>5, <2>4, <2>5, <2>6
<1>6. OneHolder'
  <2> SUFFICES ASSUME NEW v \in Requests, NEW u \in Requests, NEW k \in Keys \ overrun,
                      Holds(v, k)', Holds(u, k)', v # u
               PROVE  FALSE
    BY <1>r DEF OneHolder
  <2>1. /\ request'[v].pc \in Holding /\ request'[u].pc \in Holding
        /\ request'[v].key = k /\ request'[u].key = k
    BY DEF Holds
  <2>2. CASE v # w /\ u # w
    BY <1>o, <2>1, <2>2 DEF Inv, OneHolder, Holds
  <2>3. CASE v = w \/ u = w
    BY <1>5, <2>1, <2>3
  <2> QED
    BY <2>2, <2>3
<1> QED
  BY <1>2, <1>4, <1>6

LEMMA ContinueReaders ==
  ASSUME Inv, NEW w \in Requests, Continue(w)
  PROVE  ReadersCurrent' /\ FinalizersConfirmed' /\ SuccessIsReal'
<1>r. /\ record \in [Keys -> Row] /\ request \in [Requests -> RequestState]
      /\ \A v \in Requests : request[v].key \in Keys
      /\ overrun' = overrun
  BY SameOverrun DEF Inv, TypeOK, RequestState
<1>o. \A v \in Requests \ {w} :
         request'[v].pc = request[v].pc /\ request'[v].key = request[v].key
         /\ request'[v].action = request[v].action
  BY OthersStay
<1>w. request'[w].pc # "idle" =>
         request'[w].key = request[w].key /\ request'[w].action = request[w].action
  BY OwnMove
<1>u. Lookup(w) \/ Reread(w) => record' = record
  BY DEF Lookup, Reread, OnlyRequest
<1>1. ASSUME NEW v \in Requests, request'[v].pc = "recover", request'[v].current
      PROVE  LET row == record'[request'[v].key]
             IN  Recoverable(row) /\ row.action = request'[v].action
  <2>1. CASE v # w
    <3>1. /\ request[v].pc = "recover" /\ request[v].current
          /\ \/ record'[request[v].key] = record[request[v].key]
             \/ record[request[v].key].status = "absent"
      BY <1>1, <2>1, OthersStay
    <3>2. LET row == record[request[v].key]
          IN  Recoverable(row) /\ row.action = request[v].action
      BY <3>1 DEF Inv, ReadersCurrent, At
    <3> QED
      BY <1>o, <2>1, <3>1, <3>2 DEF Recoverable
  <2>2. CASE v = w
    BY <1>1, <1>w, <1>u, <2>2, OwnMove
  <2> QED
    BY <2>1, <2>2
<1>2. ReadersCurrent'
  BY <1>1 DEF ReadersCurrent, At
<1>m. ASSUME At(w, "mark")
      PROVE  /\ record[request[w].key].action = request[w].action
             /\ <<request[w].key, request[w].action>> \in applied
  BY <1>m DEF At, Holding, Inv, RecordsOwn, SuccessIsReal
<1>x. Write(w, "finalize", "external_succeeded") =>
         /\ record'[request[w].key].status = "external_succeeded"
         /\ record'[request[w].key].action = record[request[w].key].action
  BY WriteStep DEF Inv, Pcs
<1>y. ASSUME At(w, "finalize")
      PROVE  /\ record[request[w].key].action = request[w].action
             /\ <<request[w].key, request[w].action>> \in applied
  BY <1>y DEF At, Inv, RecordsOwn, SuccessIsReal
<1>3. ASSUME NEW v \in Requests, request'[v].pc = "finalize",
             request'[v].key \notin overrun
      PROVE  record'[request'[v].key].status \in Confirmed
  <2>1. CASE v # w
    BY <1>3, <1>o, <1>r, <2>1, ConfirmedKept DEF Inv, FinalizersConfirmed, At
  <2>2. CASE v = w
    <3>1. \/ /\ Lookup(w) \/ Reread(w)
             /\ record[request[w].key].status = "external_succeeded"
          \/ At(w, "mark") /\ Write(w, "finalize", "external_succeeded")
      BY <1>3, <2>2, OwnMove
    <3> QED
      BY <1>3, <1>w, <1>u, <1>x, <2>2, <3>1 DEF Confirmed
  <2> QED
    BY <2>1, <2>2
<1>4. FinalizersConfirmed'
  BY <1>3, <1>r DEF FinalizersConfirmed, At
<1>5. ASSUME NEW k \in Keys, record'[k].status \in Confirmed
      PROVE  <<k, record'[k].action>> \in applied'
  <2>1. CASE record'[k] = record[k]
    BY <1>5, <2>1, AppliedGrows DEF Inv, SuccessIsReal, Confirmed
  <2>2. CASE k = request[w].key /\ At(w, "mark") /\ Write(w, "finalize", "external_succeeded")
    BY <1>m, <1>x, <2>2, AppliedGrows
  <2>3. CASE k = request[w].key /\ At(w, "finalize") /\ Write(w, "idle", "succeeded")
    <3>1. record'[k].action = record[k].action
      BY <2>3, WriteStep DEF Inv, Pcs
    <3> QED
      BY <1>y, <2>3, <3>1, AppliedGrows
  <2>4. CASE Write(w, "call", "recovering") /\ k = request[w].key
    <3>1. record'[k].status = "recovering"
      BY <2>4, WriteStep DEF Inv, Pcs
    <3> QED
      BY <1>5, <3>1 DEF Confirmed
  <2>5. CASE Write(w, "idle", "failed") /\ k = request[w].key
    <3>1. record'[k].status = "failed"
      BY <2>5, WriteStep DEF Inv, Pcs
    <3> QED
      BY <1>5, <3>1 DEF Confirmed
  <2>6. CASE record'[k] = [NoRow EXCEPT !.status = "pending", !.action = request[w].action]
    BY <1>5, <2>6 DEF NoRow, Confirmed
  <2> QED
    BY <2>1, <2>2, <2>3, <2>4, <2>5, <2>6, RecordSteps
<1>6. ASSUME NEW v \in Requests, request'[v].pc \in {"mark", "finalize"}
      PROVE  <<request'[v].key, request'[v].action>> \in applied'
  <2>1. CASE v # w
    BY <1>6, <1>o, <2>1, AppliedGrows DEF Inv, SuccessIsReal
  <2>2. CASE v = w /\ request'[v].pc = "mark"
    BY <1>w, <2>2, OwnMove
  <2>3. CASE v = w /\ request'[v].pc = "finalize"
    <3>1. \/ /\ record[request[w].key].status = "external_succeeded"
             /\ record[request[w].key].action = request[w].action
          \/ At(w, "mark")
      BY <2>3, OwnMove
    <3>2. <<request[w].key, request[w].action>> \in applied
      BY <1>m, <1>r, <3>1 DEF Inv, SuccessIsReal
    <3> QED
      BY <1>w, <2>3, <3>2, AppliedGrows
  <2> QED
    BY <1>6, <2>1, <2>2, <2>3
<1>7. SuccessIsReal'
  BY <1>5, <1>6 DEF SuccessIsReal, Confirmed
<1> QED
  BY <1>2, <1>4, <1>7

LEMMA NextInv ==
  ASSUME Inv, [Next]_vars
  PROVE  Inv'
<1>t. TypeOK'
  BY NextType DEF Inv
<1>r. /\ record \in [Keys -> Row] /\ request \in [Requests -> RequestState]
  BY DEF Inv, TypeOK
<1>1. ASSUME NEW w \in Requests, Continue(w)
      PROVE  Inv'
  BY <1>1, <1>t, ContinueHolders, ContinueReaders DEF Inv
<1>2. ASSUME NEW w \in Requests, request'[w].pc \in {"idle", "lookup"},
             \A v \in Requests \ {w} : request'[v] = request[v],
             UNCHANGED <<record, applied, overrun>>
      PROVE  Inv'
  <2>2. OneHolder' /\ HoldersInProgress' /\ RecordsOwn'
    BY <1>2 DEF Inv, OneHolder, HoldersInProgress, RecordsOwn, Holds, Holding
  <2>3. SuccessIsReal'
    BY <1>2 DEF Inv, SuccessIsReal
  <2>4. ReadersCurrent' /\ FinalizersConfirmed'
    BY <1>2 DEF Inv, ReadersCurrent, FinalizersConfirmed, At
  <2> QED
    BY <1>t, <2>2, <2>3, <2>4 DEF Inv
<1>3. ASSUME NEW w \in Requests, NEW k \in Keys, NEW a \in Actions, Begin(w, k, a)
      PROVE  Inv'
  <2> DEFINE r == [Idle EXCEPT !.pc = "lookup", !.key = k, !.action = a, !.seen = subscription]
  <2>1. r.pc = "lookup"
    BY DEF Idle
  <2>2. request' = [request EXCEPT ![w] = r] /\ UNCHANGED <<record, applied, overrun>>
    BY <1>3 DEF Begin, OnlyRequest, Surroundings
  <2> HIDE DEF r
  <2>3. request'[w] = r /\ \A v \in Requests \ {w} : request'[v] = request[v]
    BY <1>r, <2>2
  <2> QED
    BY <1>2, <2>1, <2>2, <2>3
<1>4. ASSUME NEW w \in Requests, Crash(w)
      PROVE  Inv'
  <2>1. Idle.pc = "idle"
    BY DEF Idle
  <2>2. request'[w] = Idle /\ \A v \in Requests \ {w} : request'[v] = request[v]
    BY <1>4, <1>r DEF Crash, Rest
  <2> QED
    BY <1>2, <1>4, <2>1, <2>2 DEF Crash
<1>5. ASSUME NEW k \in Keys, Age(k)
      PROVE  Inv'
  <2>1. /\ record[k].status \in {"pending", "recovering"} /\ ~record[k].stale
        /\ record'[k].status = record[k].status /\ record'[k].action = record[k].action
        /\ record'[k].stale
        /\ \A i \in Keys \ {k} : record'[i] = record[i]
        /\ overrun \subseteq overrun'
        /\ \A w \in Requests : Holds(w, k) => k \in overrun'
        /\ UNCHANGED <<request, applied>>
    BY <1>5, <1>r DEF Age, Held, Row
  <2>2. \A w \in Requests : request[w].key \in Keys
    BY <1>r DEF RequestState
  <2>3. OneHolder' /\ HoldersInProgress'
    BY <2>1, <2>2 DEF Inv, OneHolder, HoldersInProgress, Holds
  <2>4. SuccessIsReal' /\ RecordsOwn'
    BY <2>1, <2>2 DEF Inv, SuccessIsReal, RecordsOwn
  <2>5. ReadersCurrent'
    BY <2>1, <2>2 DEF Inv, ReadersCurrent, Recoverable, At
  <2>6. FinalizersConfirmed'
    BY <2>1, <2>2 DEF Inv, FinalizersConfirmed, At
  <2> QED
    BY <1>t, <2>3, <2>4, <2>5, <2>6 DEF Inv
<1>6. ASSUME UNCHANGED <<record, request, overrun>>, applied \subseteq applied'
      PROVE  Inv'
  <2>1. /\ OneHolder' /\ HoldersInProgress' /\ RecordsOwn'
        /\ ReadersCurrent' /\ FinalizersConfirmed'
    BY <1>6 DEF Inv, OneHolder, Holds, HoldersInProgress, RecordsOwn, ReadersCurrent,
                FinalizersConfirmed, At, Recoverable
  <2>2. SuccessIsReal'
    BY <1>6 DEF Inv, SuccessIsReal
  <2> QED
    BY <1>t, <2>1, <2>2 DEF Inv
<1>7. CASE ApplyComing \/ Expire \/ Webhook \/ UNCHANGED vars
  BY <1>6, <1>7 DEF ApplyComing, Expire, Webhook, vars
<1> QED
  BY <1>1, <1>3, <1>4, <1>5, <1>7 DEF Next

LEMMA InvCorrect == Spec => []Inv
<1>1. Init => Inv
  <2> SUFFICES ASSUME Init PROVE Inv
    OBVIOUS
  <2>1. TypeOK
    BY InitType
  <2>2. \A w \in Requests : request[w].pc = "idle"
    BY DEF Init, Idle
  <2>3. \A k \in Keys : record[k].status = "absent"
    BY DEF Init, NoRow
  <2>4. OneHolder /\ HoldersInProgress /\ RecordsOwn
    BY <2>2 DEF OneHolder, HoldersInProgress, RecordsOwn, Holds, Holding
  <2>5. SuccessIsReal /\ ReadersCurrent /\ FinalizersConfirmed
    BY <2>2, <2>3 DEF SuccessIsReal, ReadersCurrent, FinalizersConfirmed, At
  <2> QED
    BY <2>1, <2>4, <2>5 DEF Inv
<1>2. Inv /\ [Next]_vars => Inv'
  BY NextInv
<1> QED
  BY <1>1, <1>2, PTL DEF Spec

(* Two requests under one key are never both at the gateway, or between    *)
(* its answer and the record of it, in every history up to the first call  *)
(* under that key that took longer than the 60 s after which its record    *)
(* may be taken over; at Shopify there is none.                            *)
THEOREM OneHolderCorrect == Spec => []OneHolder
<1>1. Inv => OneHolder
  BY DEF Inv
<1> QED
  BY <1>1, InvCorrect, PTL

(* What is recorded as done, or about to be written to the subscription,   *)
(* the gateway has carried out for that very key and action, however long  *)
(* its calls take.                                                         *)
THEOREM SuccessCorrect == Spec => []SuccessIsReal
<1>1. Inv => SuccessIsReal
  BY DEF Inv
<1> QED
  BY <1>1, InvCorrect, PTL

LEMMA ConfirmedStep ==
  ASSUME Inv, [Next]_vars, NEW k \in Keys \ overrun, record[k].status \in Confirmed
  PROVE  /\ record'[k].status \in Confirmed
         /\ record[k].status = "succeeded" => record'[k].status = "succeeded"
         /\ \A w \in Requests : Call(w) => request[w].key # k
<1>1. \A w \in Requests : Call(w) => request[w].key # k
  BY DEF Call, At, Holding, Inv, HoldersInProgress, Confirmed
<1>2. ASSUME NEW w \in Requests, Continue(w)
      PROVE  /\ record'[k].status \in Confirmed
             /\ record[k].status = "succeeded" => record'[k].status = "succeeded"
  BY <1>2, ConfirmedKept
<1>3. ASSUME NEW i \in Keys, Age(i)
      PROVE  record'[k] = record[k]
  <2>1. i # k
    BY <1>3 DEF Age, Confirmed
  <2> QED
    BY <1>3, <2>1 DEF Age, Inv, TypeOK
<1>4. CASE UNCHANGED record
  BY <1>1, <1>4
<1>5. ASSUME NEW w \in Requests,
             Crash(w) \/ \E i \in Keys, a \in Actions : Begin(w, i, a)
      PROVE  UNCHANGED record
  BY <1>5 DEF Crash, Begin, OnlyRequest
<1>6. ApplyComing \/ Expire \/ Webhook \/ UNCHANGED vars => UNCHANGED record
  BY DEF ApplyComing, Expire, Webhook, vars
<1> QED
  BY <1>1, <1>2, <1>3, <1>4, <1>5, <1>6 DEF Next

(* A success that is recorded stays recorded, and nothing repeats the call *)
(* to the gateway for it, in every history up to the first call under that *)
(* key that took longer than 60 s.                                         *)
THEOREM ConfirmedCorrect == Spec => ConfirmedStays
<1>1. Inv /\ [Next]_vars =>
        [\A k \in Keys \ overrun :
           /\ record[k].status \in {"external_succeeded", "succeeded"} =>
                 /\ record'[k].status \in {"external_succeeded", "succeeded"}
                 /\ \A w \in Requests : Call(w) => request[w].key # k
           /\ record[k].status = "succeeded" => record'[k].status = "succeeded"]_vars
  BY ConfirmedStep DEF Confirmed
<1> QED
  BY <1>1, InvCorrect, PTL DEF Spec, ConfirmedStays
=============================================================================
