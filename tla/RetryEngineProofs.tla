------------------------- MODULE RetryEngineProofs -------------------------
(* What RetryEngine keeps for every number of workers, dates, retries and  *)
(* faults: its types, and the invariants the TLC runs check.               *)
EXTENDS RetryEngine, TLAPS

LEMMA LastTryType == LastTry \in Nat /\ Outside \in Nat
  BY ConstantsAssumption DEF LastTry, Outside, Kinds

LEMMA JobFields ==
  ASSUME NEW j \in Job
  PROVE  j.cycle \in Dates /\ j.kind \in Kinds /\ j.n \in 0 .. LastTry
  BY DEF Job

LEMMA FirstJobType ==
  ASSUME NEW c \in Dates, NEW k \in Kinds
  PROVE  FirstJob(c, k) \in Job
  BY LastTryType DEF FirstJob, Job

LEMMA IdleType == Idle \in WorkerState
<1>1. 1 \in Dates /\ "INVENTORY" \in Kinds
  BY ConstantsAssumption DEF Dates, Kinds
<1> QED
  BY <1>1, FirstJobType DEF Idle, WorkerState, SubStatus

LEMMA NewJobType == NewJob(TRUE) \in JobRow /\ NewJob(FALSE) \in JobRow
  BY DEF NewJob, NoJob, JobRow

LEMMA InitType == Init => TypeOK
<1> SUFFICES ASSUME Init PROVE TypeOK
  OBVIOUS
<1>1. NoJob \in JobRow /\ NoCycle \in CycleRow
  BY DEF NoJob, JobRow, NoCycle, CycleRow
<1>2. today \in Dates /\ 1 \in 1 .. Cycles + 1
  BY ConstantsAssumption DEF Init, Dates
<1>3. faults \in 0 .. MaxFaults
  BY ConstantsAssumption DEF Init
<1> QED
  BY <1>1, <1>2, <1>3, IdleType DEF Init, TypeOK, SubStatus, ChargeState

-----------------------------------------------------------------------------
(* Types of what the actions write. *)

LEMMA FinishedType ==
  ASSUME TypeOK, NEW j \in Job,
         NEW s \in {"SUCCEEDED", "FAILED", "EXHAUSTED", "SKIPPED", "UNCERTAIN"}
  PROVE  Finished(j, s) \in JobRow
  BY ZenonT(40) DEF Finished, TypeOK, JobRow

LEMMA FinalActionType ==
  ASSUME TypeOK, NEW j \in Job
  PROVE  WithFinalAction(j) \in [Dates -> CycleRow]
<1>1. j.cycle \in Dates /\ FailureAction[j.kind] \in Actions
  BY JobFields, ConstantsAssumption
<1>2. cycle \in [Dates -> CycleRow]
  BY DEF TypeOK
<1>3. [cycle[j.cycle] EXCEPT !.final = "pending", !.action = FailureAction[j.kind]]
        \in CycleRow
  BY <1>1, <1>2 DEF CycleRow
<1> QED
  BY <1>1, <1>2, <1>3 DEF WithFinalAction

LEMMA WorkerUpdates ==
  ASSUME TypeOK, NEW w \in Workers
  PROVE  /\ Rest(w) => worker' \in [Workers -> WorkerState]
         /\ \A pc \in {"finalCall", "finalWrite", "exception"} :
              Goto(w, pc) => worker' \in [Workers -> WorkerState]
         /\ \A pc \in {"seedJob", "claimed"}, j \in Job :
              Start(w, pc, j) => worker' \in [Workers -> WorkerState]
         /\ CommittedThenEmit(w) =>
              worker' \in [Workers -> WorkerState] /\ faults' \in 0 .. MaxFaults
<1>1. Rest(w) => worker' \in [Workers -> WorkerState]
  BY IdleType DEF Rest, TypeOK
<1>2. ASSUME NEW pc \in {"finalCall", "finalWrite", "exception"}, Goto(w, pc)
      PROVE  worker' \in [Workers -> WorkerState]
  BY <1>2 DEF Goto, TypeOK, WorkerState
<1>3. ASSUME NEW pc \in {"seedJob", "claimed"}, NEW j \in Job, Start(w, pc, j)
      PROVE  worker' \in [Workers -> WorkerState]
  <2>1. [Idle EXCEPT !.pc = pc, !.task = j] \in WorkerState
    BY IdleType DEF WorkerState
  <2> QED
    BY <1>3, <2>1 DEF Start, TypeOK
<1>4. ASSUME CommittedThenEmit(w)
      PROVE  worker' \in [Workers -> WorkerState] /\ faults' \in 0 .. MaxFaults
  <2>1. MaxFaults \in Nat
    BY ConstantsAssumption
  <2> QED
    BY <1>1, <1>2, <1>4, <2>1 DEF CommittedThenEmit, Fault, TypeOK
<1> QED
  BY <1>1, <1>2, <1>3, <1>4

-----------------------------------------------------------------------------
LEMMA BeginType ==
  ASSUME TypeOK, NEW w \in Workers, Begin(w)
  PROVE  TypeOK'
<1>1. CASE SeedCycle(w)
  <2> DEFINE c   == subscription.nextBillingAt
             row == [cycle[c] EXCEPT !.status = IF c \in complete THEN "succeeded"
                                     ELSE IF @ = "absent" THEN "pending" ELSE @]
  <2>1. c \in Dates
    BY <1>1, ConstantsAssumption DEF SeedCycle, TypeOK, Dates
  <2>2. row \in CycleRow
    BY <2>1 DEF TypeOK, CycleRow
  <2>3. cycle' \in [Dates -> CycleRow]
    BY <1>1, <2>1, <2>2 DEF SeedCycle, TypeOK
  <2>4. FirstJob(c, "INVENTORY") \in Job
    BY <2>1, FirstJobType DEF Kinds
  <2>5. worker' \in [Workers -> WorkerState]
    BY <1>1, <2>4, WorkerUpdates DEF SeedCycle
  <2> QED
    BY <1>1, <2>3, <2>5 DEF SeedCycle, TypeOK
<1>2. ASSUME NEW j \in Job, Claim(w, j)
      PROVE  TypeOK'
  <2>1. job' \in [Job -> JobRow]
    BY ZenonT(40), <1>2 DEF Claim, TypeOK, JobRow
  <2>2. worker' \in [Workers -> WorkerState]
    BY <1>2, WorkerUpdates DEF Claim
  <2> QED
    BY <1>2, <2>1, <2>2 DEF Claim, TypeOK
<1>3. ASSUME NEW c \in Dates, ReadFinalAction(w, c)
      PROVE  TypeOK'
  <2>1. FirstJob(c, "INVENTORY") \in Job
    BY FirstJobType DEF Kinds
  <2>2. subscription.status \in SubStatus /\ cycle[c].advanced \in BOOLEAN
    BY DEF TypeOK, CycleRow
  <2>3. [Idle EXCEPT !.pc = "finalClaim", !.task = FirstJob(c, "INVENTORY"),
                     !.status = subscription.status, !.advanced = cycle[c].advanced]
          \in WorkerState
    BY <2>1, <2>2, IdleType DEF WorkerState
  <2>4. worker' \in [Workers -> WorkerState]
    BY <1>3, <2>3 DEF ReadFinalAction, TypeOK
  <2> QED
    BY <1>3, <2>4 DEF ReadFinalAction, TypeOK
<1> QED
  BY <1>1, <1>2, <1>3 DEF Begin

LEMMA JobWritten ==
  ASSUME TypeOK, NEW j \in Job, NEW r \in JobRow, NEW i \in Job, NEW q \in JobRow
  PROVE  /\ [job EXCEPT ![j] = r] \in [Job -> JobRow]
         /\ [job EXCEPT ![j] = r, ![i] = q] \in [Job -> JobRow]
  BY DEF TypeOK

LEMMA NextType ==
  ASSUME NEW j \in Job, ~(j.n >= MaxRetries[j.kind])
  PROVE  Next_(j) \in Job
<1>1. j.n + 1 \in 0 .. LastTry
  BY JobFields, LastTryType, ConstantsAssumption DEF Kinds, LastTry
<1> QED
  BY <1>1 DEF Next_, Job

LEMMA AnswerType ==
  ASSUME TypeOK, NEW w \in Workers,
         NEW a \in {"available", "succeeded", "incomplete", "failed", "uncertain"},
         Answer(w, a)
  PROVE  /\ worker' \in [Workers -> WorkerState]
         /\ worker'[w].pc = "answered" /\ worker'[w].answer = a
         /\ worker'[w].task = worker[w].task
<1> DEFINE r == [worker[w] EXCEPT !.pc = "answered", !.answer = a,
                                  !.uncertain = (a = "uncertain") /\ worker[w].uncertain,
                                  !.recon = IF a = "uncertain" THEN worker[w].recon ELSE 0]
<1>1. worker[w] \in WorkerState
  BY DEF TypeOK
<1>2. /\ ((a = "uncertain") /\ worker[w].uncertain) \in BOOLEAN
      /\ (IF a = "uncertain" THEN worker[w].recon ELSE 0) \in Nat
  BY <1>1 DEF WorkerState
<1>3. r \in WorkerState
  BY <1>1, <1>2 DEF WorkerState
<1>4. r.pc = "answered" /\ r.answer = a /\ r.task = worker[w].task
  BY <1>1 DEF WorkerState
<1>5. worker' = [worker EXCEPT ![w] = r]
  BY DEF Answer
<1> QED
  BY <1>3, <1>4, <1>5 DEF TypeOK

LEMMA ContinueType ==
  ASSUME TypeOK, NEW w \in Workers, Continue(w)
  PROVE  TypeOK'
<1> DEFINE j == worker[w].task
           c == j.cycle
<1>j. /\ j \in Job /\ worker[w] \in WorkerState
      /\ worker[w].recon \in Nat /\ worker[w].uncertain \in BOOLEAN
      /\ job[j] \in JobRow
  BY DEF TypeOK, WorkerState
<1>c. c \in Dates /\ cycle[c] \in CycleRow
  BY <1>j, JobFields DEF TypeOK
<1>p. FirstJob(c, "PAYMENT") \in Job
  BY <1>c, FirstJobType DEF Kinds
<1>1. CASE SeedJob(w)
  <2>1. job' \in [Job -> JobRow]
    BY <1>1, <1>j, NewJobType DEF SeedJob, TypeOK
  <2> QED
    BY <1>1, <2>1, WorkerUpdates DEF SeedJob, TypeOK
<1>2. CASE ReadJob(w)
  <2>1. worker' \in [Workers -> WorkerState]
    BY <1>2, <1>j DEF ReadJob, TypeOK, WorkerState, JobRow
  <2> QED
    BY <1>2, <2>1 DEF ReadJob, TypeOK
<1>3. CASE SkipJob(w)
  <2>1. job' \in [Job -> JobRow]
    BY <1>3, <1>j, FinishedType, JobWritten DEF SkipJob
  <2> QED
    BY <1>3, <2>1, WorkerUpdates DEF SkipJob, TypeOK
<1>4. CASE CallInventory(w)
  <2>1. worker' \in [Workers -> WorkerState]
    BY <1>4, AnswerType DEF CallInventory
  <2> QED
    BY <1>4, <2>1 DEF CallInventory, TypeOK
<1>5. CASE CallPayment(w)
  <2>1. PICK s \in Outcomes(charge[j], worker[w].uncertain) :
            /\ charge' = [charge EXCEPT ![j] = s]
            /\ \E a \in Report(s) : Answer(w, a)
    BY <1>5 DEF CallPayment
  <2>2. s \in ChargeState
    BY <2>1, <1>j DEF Outcomes, ChargeState, TypeOK
  <2>3. charge' \in [Job -> ChargeState]
    BY <2>1, <2>2 DEF TypeOK
  <2>4. worker' \in [Workers -> WorkerState]
    BY <2>1, AnswerType DEF Report
  <2> QED
    BY <1>5, <2>3, <2>4 DEF CallPayment, TypeOK
<1>6. CASE InventorySucceeded(w)
  <2>1. job' \in [Job -> JobRow]
    BY <1>6, <1>j, <1>p, FinishedType, NewJobType DEF InventorySucceeded, TypeOK
  <2> QED
    BY <1>6, <2>1, WorkerUpdates DEF InventorySucceeded, TypeOK
<1>7. CASE PaymentSucceeded(w)
  <2>1. job' \in [Job -> JobRow]
    BY <1>7, <1>j, FinishedType, JobWritten DEF PaymentSucceeded
  <2>2. orders' \in [Dates -> SUBSET (0 .. Outside)]
    <3>1. j.n \in 0 .. Outside
      BY <1>j, JobFields, LastTryType DEF Outside
    <3> QED
      BY <1>7, <3>1, <1>c DEF PaymentSucceeded, TypeOK
  <2>3. cycle' \in [Dates -> CycleRow]
    BY <1>7, <1>c DEF PaymentSucceeded, TypeOK, CycleRow
  <2>4. subscription' \in [status : SubStatus, nextBillingAt : 0 .. Cycles + 1]
    <3>1. c + 1 \in 0 .. Cycles + 1
      BY <1>c, ConstantsAssumption DEF Dates
    <3> QED
      BY <1>7, <3>1 DEF PaymentSucceeded, TypeOK
  <2> QED
    BY <1>7, <2>1, <2>2, <2>3, <2>4, WorkerUpdates DEF PaymentSucceeded, TypeOK
<1>8. CASE IncompleteSuccess(w) \/ ReopeningRefused(w)
  BY <1>8, WorkerUpdates DEF IncompleteSuccess, ReopeningRefused, TypeOK
<1>9. CASE HandleUncertain(w)
  <2>1. NextCount(w) \in Nat
    BY <1>j DEF NextCount
  <2>2. \A s \in {"EXHAUSTED", "UNCERTAIN"} :
          [Finished(j, s) EXCEPT !.uncertain = TRUE, !.recon = NextCount(w)] \in JobRow
    BY ZenonT(40), <1>j, <2>1, FinishedType DEF JobRow
  <2>3. job' \in [Job -> JobRow]
    BY <1>9, <1>j, <2>2 DEF HandleUncertain, TypeOK
  <2>4. cycle' \in [Dates -> CycleRow]
    BY <1>9, <1>j, FinalActionType DEF HandleUncertain, TypeOK
  <2> QED
    BY <1>9, <2>3, <2>4, WorkerUpdates DEF HandleUncertain, TypeOK
<1>10. CASE FailOrReschedule(w)
  <2>1. job' \in [Job -> JobRow]
    <3>1. Finished(j, "EXHAUSTED") \in JobRow /\ Finished(j, "FAILED") \in JobRow
      BY <1>j, FinishedType
    <3>2. j.n >= MaxRetries[j.kind] \/ Next_(j) \in Job
      BY <1>j, NextType
    <3> QED
      BY <1>10, <1>j, <3>1, <3>2, NewJobType DEF FailOrReschedule, TypeOK
  <2>2. cycle' \in [Dates -> CycleRow]
    BY <1>10, <1>j, FinalActionType DEF FailOrReschedule, TypeOK
  <2>3. worker' \in [Workers -> WorkerState] /\ faults' \in 0 .. MaxFaults
    BY <1>10, WorkerUpdates DEF FailOrReschedule, TypeOK
  <2> QED
    BY <1>10, <2>1, <2>2, <2>3 DEF FailOrReschedule, TypeOK
<1>11. CASE HandleWorkerException(w)
  <2>1. worker' \in [Workers -> WorkerState]
    BY <1>11, <1>j DEF HandleWorkerException, TypeOK, WorkerState, JobRow
  <2> QED
    BY <1>11, <2>1 DEF HandleWorkerException, TypeOK
<1>12. CASE ClaimFinalAction(w)
  <2>1. cycle' \in [Dates -> CycleRow]
    <3>1. [cycle[c] EXCEPT !.final = "processing", !.leased = TRUE] \in CycleRow
      BY <1>c DEF CycleRow
    <3>2. cycle \in [Dates -> CycleRow]
      BY DEF TypeOK
    <3>3. \/ cycle' = [cycle EXCEPT ![c] = [cycle[c] EXCEPT !.final = "processing",
                                                           !.leased = TRUE]]
          \/ cycle' = cycle
      BY <1>12 DEF ClaimFinalAction
    <3> QED
      BY <3>1, <3>2, <3>3
  <2>2. worker' \in [Workers -> WorkerState]
    BY <1>12, WorkerUpdates DEF ClaimFinalAction
  <2> QED
    BY <1>12, <2>1, <2>2 DEF ClaimFinalAction, TypeOK
<1>13. CASE LifecycleDone(w) \/ LifecycleFailed(w)
  BY <1>13, WorkerUpdates DEF LifecycleDone, LifecycleFailed, TypeOK
<1>14. CASE FinalizeCycle(w)
  <2>1. c + 1 \in 0 .. Cycles + 1 /\ subscription.nextBillingAt \in 0 .. Cycles + 1
    BY <1>c, ConstantsAssumption DEF Dates, TypeOK
  <2>2. subscription' \in [status : SubStatus, nextBillingAt : 0 .. Cycles + 1]
    <3>1. subscription.status \in SubStatus /\ {"paused", "cancelled"} \subseteq SubStatus
      BY DEF TypeOK, SubStatus, Terminal
    <3>2. subscription'.status \in SubStatus
      BY <1>14, <3>1 DEF FinalizeCycle
    <3>3. subscription'.nextBillingAt \in 0 .. Cycles + 1
      BY <1>14, <2>1 DEF FinalizeCycle, AfterSkip
    <3> QED
      BY <1>14, <3>2, <3>3 DEF FinalizeCycle
  <2>3. worker[w].advanced \in BOOLEAN
    BY <1>j DEF WorkerState
  <2>4. cycle' \in [Dates -> CycleRow]
    BY <1>14, <1>c, <2>3 DEF FinalizeCycle, TypeOK, CycleRow
  <2> QED
    BY <1>14, <2>2, <2>4, WorkerUpdates DEF FinalizeCycle, TypeOK
<1> QED
  BY <1>1, <1>2, <1>3, <1>4, <1>5, <1>6, <1>7, <1>8, <1>9, <1>10, <1>11, <1>12,
     <1>13, <1>14 DEF Continue

LEMMA EnvironmentType ==
  ASSUME TypeOK, Environment
  PROVE  TypeOK'
<1>m. MaxFaults \in Nat
  BY ConstantsAssumption
<1>f. ASSUME NEW k, Fault(k)
      PROVE  faults' \in 0 .. MaxFaults
  BY <1>f, <1>m DEF Fault, TypeOK
<1>1. ASSUME NEW w \in Workers, Crash(w)
      PROVE  TypeOK'
  BY <1>1, <1>f, WorkerUpdates DEF Crash, TypeOK
<1>2. ASSUME NEW j \in Job, LeaseLapses(j)
      PROVE  TypeOK'
  <2>1. job' \in [Job -> JobRow]
    BY ZenonT(40), <1>2 DEF LeaseLapses, TypeOK, JobRow
  <2> QED
    BY <1>2, <2>1 DEF LeaseLapses, TypeOK
<1>3. ASSUME NEW j \in Job, Settle(j)
      PROVE  TypeOK'
  <2>1. charge' \in [Job -> ChargeState]
    BY <1>3 DEF Settle, TypeOK, ChargeState
  <2> QED
    BY <1>3, <2>1 DEF Settle, TypeOK
<1>4. ASSUME NEW c \in Dates, FinalLeaseLapses(c)
      PROVE  TypeOK'
  <2>1. cycle' \in [Dates -> CycleRow]
    BY ZenonT(40), <1>4 DEF FinalLeaseLapses, TypeOK, CycleRow
  <2> QED
    BY <1>4, <2>1 DEF FinalLeaseLapses, TypeOK
<1>5. ASSUME NEW c \in Dates, RecordBillingAttempt(c)
      PROVE  TypeOK'
  <2>1. PICK n \in 0 .. Outside :
            /\ IF n = Outside THEN Fault("outside")
               ELSE charge[Payment(c, n)] = "charged" /\ UNCHANGED faults
            /\ orders' = [orders EXCEPT ![c] = @ \cup {n}]
    BY <1>5 DEF RecordBillingAttempt
  <2>2. orders' \in [Dates -> SUBSET (0 .. Outside)] /\ faults' \in 0 .. MaxFaults
    BY <2>1, <1>f DEF TypeOK
  <2>3. PICK dated \in BOOLEAN :
            /\ cycle' = [cycle EXCEPT ![c] = [@ EXCEPT !.status = "succeeded",
                                                       !.advanced = dated]]
            /\ subscription' = IF dated THEN [subscription EXCEPT !.nextBillingAt = c + 1]
                               ELSE subscription
    BY <1>5 DEF RecordBillingAttempt
  <2>4. cycle' \in [Dates -> CycleRow]
    BY ZenonT(40), <2>3 DEF TypeOK, CycleRow
  <2>5. subscription' \in [status : SubStatus, nextBillingAt : 0 .. Cycles + 1]
    <3>1. c + 1 \in 0 .. Cycles + 1
      BY ConstantsAssumption DEF Dates
    <3> QED
      BY <2>3, <3>1 DEF TypeOK
  <2>6. complete' \subseteq Dates
    BY <1>5 DEF RecordBillingAttempt, TypeOK
  <2> QED
    BY <1>5, <2>2, <2>4, <2>5, <2>6 DEF RecordBillingAttempt, TypeOK
<1>6. CASE TimePasses
  <2>1. \A j \in Job :
          [job[j] EXCEPT !.due = @ \/ job[j].status \in {"PENDING", "UNCERTAIN"}] \in JobRow
    <3> SUFFICES ASSUME NEW j \in Job
                 PROVE  [job[j] EXCEPT !.due = @ \/ job[j].status \in {"PENDING", "UNCERTAIN"}]
                          \in JobRow
      OBVIOUS
    <3>1. job[j] \in JobRow
      BY DEF TypeOK
    <3>2. (job[j].due \/ job[j].status \in {"PENDING", "UNCERTAIN"}) \in BOOLEAN
      OBVIOUS
    <3> QED
      BY <3>1, <3>2 DEF JobRow
  <2>2. job' \in [Job -> JobRow]
    BY <1>6, <2>1, Zenon DEF TimePasses
  <2> QED
    BY <1>6, <2>2 DEF TimePasses, TypeOK
<1>7. CASE ContractWebhook
  <2>1. /\ ContractStatuses \subseteq SubStatus
        /\ Dates \subseteq 0 .. Cycles + 1 /\ NoDate \in 0 .. Cycles + 1
    BY ConstantsAssumption DEF Dates, NoDate
  <2>2. subscription' \in [status : SubStatus, nextBillingAt : 0 .. Cycles + 1]
    BY <1>7, <2>1 DEF ContractWebhook, TypeOK
  <2> QED
    BY <1>7, <2>2, <1>f DEF ContractWebhook, TypeOK
<1> QED
  BY <1>1, <1>2, <1>3, <1>4, <1>5, <1>6, <1>7 DEF Environment

LEMMA StepType == TypeOK /\ [Next]_vars => TypeOK'
<1> SUFFICES ASSUME TypeOK, [Next]_vars PROVE TypeOK'
  OBVIOUS
<1>1. CASE UNCHANGED vars
  BY <1>1 DEF vars, TypeOK
<1> QED
  BY <1>1, BeginType, ContinueType, EnvironmentType DEF Next

(* Every reachable state is well typed, whatever the instance: rows keep   *)
(* their shape, retry numbers and billing dates stay within their bounds.  *)
THEOREM TypeCorrect == Spec => []TypeOK
  BY InitType, StepType, PTL DEF Spec

-----------------------------------------------------------------------------
(* The inductive invariant: what workers hold is still there, and what an  *)
(* answer says of the payment attempt stays true until it is written.      *)

Exists(j)    == job[j].status # "absent"
HoldingJob   == {"claimed", "skip", "call", "answered", "exception"}

(* A worker that holds a job holds one that exists. *)
HeldJobsExist ==
    \A w \in Workers : worker[w].pc \in HoldingJob => Exists(worker[w].task)

(* What the App answered is still so when the worker acts on it. *)
AnswerHolds(w) ==
    LET j == worker[w].task
    IN  /\ worker[w].answer = "available" => j.kind = "INVENTORY"
        /\ worker[w].answer = "succeeded" => j.kind = "PAYMENT" /\ charge[j] = "charged"
        /\ worker[w].answer = "failed" /\ j.kind = "PAYMENT" /\ ~AppMayReject =>
              charge[j] = "declined"
AnswersHold == \A w \in Workers : At(w, "answered") => AnswerHolds(w)

(* Only existing payment jobs are charged, and one exists only when every  *)
(* attempt before it was declined.                                         *)
ChargesInTurn ==
    \A j \in Job :
        /\ Live(j) => j.kind = "PAYMENT" /\ Exists(j)
        /\ j.kind = "PAYMENT" /\ Exists(j) =>
              \A n \in 0 .. LastTry : n < j.n => charge[Payment(j.cycle, n)] = "declined"

(* The mirrored orders are charged, and what counts as paid has an order.  *)
OrdersPaid ==
    \A c \in Dates :
        /\ \A n \in orders[c] \ {Outside} : charge[Payment(c, n)] = "charged"
        /\ c \in complete \/ cycle[c].status = "succeeded" => orders[c] # {}

(* EveryJobHandsOver, with the successor of a failed job within bounds.    *)
HandedOver ==
    \A j \in Job :
        /\ job[j].status = "FAILED" => Next_(j) \in Job /\ Exists(Next_(j))
        /\ job[j].status = "EXHAUSTED" => cycle[j.cycle].final # "none"
        /\ job[j].status = "SUCCEEDED" /\ j.kind = "INVENTORY" =>
              Exists(FirstJob(j.cycle, "PAYMENT"))
        /\ job[j].status = "SUCCEEDED" /\ j.kind = "PAYMENT" =>
              cycle[j.cycle].status = "succeeded" \/ cycle[j.cycle].final = "succeeded"

(* seed opens inventory jobs only. *)
SeedsInventory ==
    \A w \in Workers : At(w, "seedJob") => worker[w].task.kind = "INVENTORY"

ActionNeedsFinal == \A c \in Dates : cycle[c].action # "none" => cycle[c].final # "none"

-----------------------------------------------------------------------------
(* Who moves a worker, and what its new state is about. *)

LEMMA OtherWorkersStay ==
  ASSUME TypeOK, NEW w \in Workers, Begin(w) \/ Continue(w) \/ Crash(w)
  PROVE  \A v \in Workers \ {w} : worker'[v] = worker[v]
<1>1. CASE Begin(w)
  BY <1>1 DEF Begin, SeedCycle, Claim, ReadFinalAction, Rest, Start, TypeOK
<1>2. CASE Crash(w)
  BY <1>2 DEF Crash, Rest, TypeOK
<1>3. CASE SeedJob(w) \/ ReadJob(w) \/ SkipJob(w) \/ InventorySucceeded(w)
           \/ IncompleteSuccess(w) \/ ReopeningRefused(w) \/ HandleUncertain(w)
           \/ HandleWorkerException(w)
  BY <1>3 DEF SeedJob, ReadJob, SkipJob, InventorySucceeded, IncompleteSuccess,
              ReopeningRefused, HandleUncertain, HandleWorkerException, Rest, Goto, TypeOK
<1>4. CASE CallInventory(w) \/ CallPayment(w)
  BY <1>4 DEF CallInventory, CallPayment, Answer, TypeOK
<1>5. CASE PaymentSucceeded(w) \/ FailOrReschedule(w)
  BY <1>5 DEF PaymentSucceeded, FailOrReschedule, CommittedThenEmit, Rest, Goto, TypeOK
<1>6. CASE ClaimFinalAction(w) \/ LifecycleDone(w) \/ LifecycleFailed(w) \/ FinalizeCycle(w)
  BY <1>6 DEF ClaimFinalAction, LifecycleDone, LifecycleFailed, FinalizeCycle, Rest, Goto, TypeOK
<1> QED
  BY <1>1, <1>2, <1>3, <1>4, <1>5, <1>6 DEF Continue

(* Only its own step moves a worker. *)
LEMMA WorkersMoveThemselves ==
  ASSUME TypeOK, [Next]_vars, NEW v \in Workers
  PROVE  worker'[v] = worker[v] \/ Begin(v) \/ Continue(v) \/ Crash(v)
<1>1. ASSUME NEW w \in Workers, Begin(w) \/ Continue(w) \/ Crash(w)
      PROVE  worker'[v] = worker[v] \/ w = v
  BY <1>1, OtherWorkersStay
<1>2. ASSUME \/ \E j \in Job : LeaseLapses(j) \/ Settle(j)
             \/ \E c \in Dates : FinalLeaseLapses(c) \/ RecordBillingAttempt(c)
             \/ TimePasses \/ ContractWebhook \/ UNCHANGED vars
      PROVE  worker' = worker
  BY <1>2 DEF LeaseLapses, Settle, FinalLeaseLapses, RecordBillingAttempt, TimePasses,
              ContractWebhook, vars
<1> QED
  BY <1>1, <1>2 DEF Next, Environment

LEMMA WorkerMoves ==
  ASSUME TypeOK, NEW w \in Workers
  PROVE  /\ Rest(w) => worker'[w].pc = "idle"
         /\ \A pc : Goto(w, pc) => worker'[w].task = worker[w].task /\ worker'[w].pc = pc
         /\ \A pc, j : Start(w, pc, j) => worker'[w].task = j /\ worker'[w].pc = pc
<1>1. worker[w] \in WorkerState /\ worker \in [Workers -> WorkerState]
  BY DEF TypeOK
<1>2. Rest(w) => worker'[w].pc = "idle"
  BY <1>1 DEF Rest, Idle
<1>3. ASSUME NEW pc, Goto(w, pc)
      PROVE  worker'[w].task = worker[w].task /\ worker'[w].pc = pc
  BY <1>1, <1>3 DEF Goto, WorkerState
<1>4. ASSUME NEW pc, NEW j, Start(w, pc, j)
      PROVE  worker'[w].task = j /\ worker'[w].pc = pc
  <2>1. worker'[w] = [Idle EXCEPT !.pc = pc, !.task = j]
    BY <1>1, <1>4 DEF Start
  <2> QED
    BY <2>1, IdleType DEF WorkerState
<1> QED
  BY <1>2, <1>3, <1>4

(* Where each step of a worker leads it, and about which job. *)
LEMMA NextPc ==
  ASSUME TypeOK, NEW w \in Workers
  PROVE  /\ SeedCycle(w) => \/ worker'[w].pc = "idle"
                            \/ worker'[w].pc = "seedJob" /\ worker'[w].task.kind = "INVENTORY"
         /\ \A j \in Job : Claim(w, j) => worker'[w].pc = "claimed" /\ worker'[w].task = j
         /\ \A c \in Dates : ReadFinalAction(w, c) => worker'[w].pc = "finalClaim"
         /\ Crash(w) \/ SeedJob(w) \/ SkipJob(w) \/ InventorySucceeded(w) \/ HandleUncertain(w)
              => worker'[w].pc = "idle"
         /\ ReadJob(w) => /\ worker'[w].pc \in {"call", "skip"}
                          /\ worker'[w].task = worker[w].task
         /\ HandleWorkerException(w) \/ CallInventory(w) \/ CallPayment(w)
              => worker'[w].pc = "answered" /\ worker'[w].task = worker[w].task
         /\ PaymentSucceeded(w) \/ FailOrReschedule(w) \/ IncompleteSuccess(w)
            \/ ReopeningRefused(w)
              => \/ worker'[w].pc = "idle"
                 \/ worker'[w].pc = "exception" /\ worker'[w].task = worker[w].task
         /\ ClaimFinalAction(w) \/ LifecycleDone(w) \/ LifecycleFailed(w) \/ FinalizeCycle(w)
              => worker'[w].pc \in {"idle", "finalCall", "finalWrite"}
<1>i. worker[w] \in WorkerState /\ worker \in [Workers -> WorkerState]
  BY DEF TypeOK
<1>1. SeedCycle(w) => \/ worker'[w].pc = "idle"
                      \/ worker'[w].pc = "seedJob" /\ worker'[w].task.kind = "INVENTORY"
  <2> DEFINE first == FirstJob(subscription.nextBillingAt, "INVENTORY")
  <2>1. SeedCycle(w) => Rest(w) \/ Start(w, "seedJob", first)
    BY DEF SeedCycle
  <2>2. first.kind = "INVENTORY"
    BY DEF FirstJob
  <2> HIDE DEF first
  <2> QED
    BY <2>1, <2>2, WorkerMoves
<1>2. ASSUME NEW j \in Job, Claim(w, j)
      PROVE  worker'[w].pc = "claimed" /\ worker'[w].task = j
  <2>1. Start(w, "claimed", j)
    BY <1>2 DEF Claim
  <2> QED
    BY <2>1, WorkerMoves
<1>3. ASSUME NEW c \in Dates, ReadFinalAction(w, c)
      PROVE  worker'[w].pc = "finalClaim"
  BY <1>3, <1>i DEF ReadFinalAction, Idle
<1>4. Crash(w) \/ SeedJob(w) \/ SkipJob(w) \/ InventorySucceeded(w) \/ HandleUncertain(w)
        => worker'[w].pc = "idle"
  <2>1. Crash(w) \/ SeedJob(w) \/ SkipJob(w) \/ InventorySucceeded(w) \/ HandleUncertain(w)
          => Rest(w)
    BY DEF Crash, SeedJob, SkipJob, InventorySucceeded, HandleUncertain
  <2> QED
    BY <2>1, WorkerMoves
<1>5. ReadJob(w) => worker'[w].pc \in {"call", "skip"} /\ worker'[w].task = worker[w].task
  BY <1>i DEF ReadJob, WorkerState
<1>6. HandleWorkerException(w) => worker'[w].pc = "answered" /\ worker'[w].task = worker[w].task
  BY <1>i DEF HandleWorkerException, WorkerState
<1>7. CallInventory(w) \/ CallPayment(w)
        => worker'[w].pc = "answered" /\ worker'[w].task = worker[w].task
  <2>1. CallInventory(w) \/ CallPayment(w)
          => \E a \in {"available", "succeeded", "incomplete", "failed", "uncertain"} :
               Answer(w, a)
    BY DEF CallInventory, CallPayment, Report
  <2> QED
    BY <2>1, AnswerType
<1>8. PaymentSucceeded(w) \/ FailOrReschedule(w) \/ IncompleteSuccess(w)
            \/ ReopeningRefused(w)
        => \/ worker'[w].pc = "idle"
           \/ worker'[w].pc = "exception" /\ worker'[w].task = worker[w].task
  <2>1. PaymentSucceeded(w) \/ FailOrReschedule(w) \/ IncompleteSuccess(w)
            \/ ReopeningRefused(w)
          => Rest(w) \/ Goto(w, "exception")
    BY DEF PaymentSucceeded, FailOrReschedule, IncompleteSuccess, ReopeningRefused,
           CommittedThenEmit
  <2> QED
    BY <2>1, WorkerMoves
<1>9. ClaimFinalAction(w) \/ LifecycleDone(w) \/ LifecycleFailed(w) \/ FinalizeCycle(w)
        => worker'[w].pc \in {"idle", "finalCall", "finalWrite"}
  <2>1. ClaimFinalAction(w) \/ LifecycleDone(w) \/ LifecycleFailed(w) \/ FinalizeCycle(w)
          => Rest(w) \/ Goto(w, "finalCall") \/ Goto(w, "finalWrite")
    BY DEF ClaimFinalAction, LifecycleDone, LifecycleFailed, FinalizeCycle
  <2> QED
    BY <2>1, WorkerMoves
<1> QED
  BY <1>1, <1>2, <1>3, <1>4, <1>5, <1>6, <1>7, <1>8, <1>9

(* A worker holds the job it held, or has just claimed one. *)
LEMMA HoldsItsJob ==
  ASSUME TypeOK, NEW w \in Workers, Begin(w) \/ Continue(w) \/ Crash(w),
         worker'[w].pc \in HoldingJob
  PROVE  \/ worker[w].pc \in HoldingJob /\ worker'[w].task = worker[w].task
         \/ \E j \in Job : Claim(w, j) /\ worker'[w].task = j
<1>1. ReadJob(w) \/ HandleWorkerException(w) \/ CallInventory(w) \/ CallPayment(w)
        => worker[w].pc \in HoldingJob
  BY DEF ReadJob, HandleWorkerException, CallInventory, CallPayment, At, HoldingJob
<1>2. PaymentSucceeded(w) \/ FailOrReschedule(w) \/ IncompleteSuccess(w)
            \/ ReopeningRefused(w)
        => worker[w].pc \in HoldingJob
  BY DEF PaymentSucceeded, FailOrReschedule, IncompleteSuccess, ReopeningRefused, At,
         HoldingJob
<1> QED
  BY <1>1, <1>2, NextPc DEF Begin, Continue, HoldingJob

-----------------------------------------------------------------------------
(* Who writes the jobs. *)

LEMMA JobWriters ==
  ASSUME TypeOK, [Next]_vars
  PROVE  \/ job' = job
         \/ \E w \in Workers :
               \/ SeedJob(w) \/ SkipJob(w) \/ InventorySucceeded(w) \/ PaymentSucceeded(w)
               \/ HandleUncertain(w) \/ FailOrReschedule(w)
               \/ \E j \in Job : Claim(w, j)
         \/ \E j \in Job : LeaseLapses(j)
         \/ TimePasses
<1>1. CASE UNCHANGED vars
  BY <1>1 DEF vars
<1>2. ASSUME NEW w \in Workers, SeedCycle(w) \/ (\E c \in Dates : ReadFinalAction(w, c))
      PROVE  job' = job
  BY <1>2 DEF SeedCycle, ReadFinalAction
<1>3. ASSUME NEW w \in Workers, ReadJob(w) \/ CallInventory(w) \/ CallPayment(w)
             \/ IncompleteSuccess(w) \/ ReopeningRefused(w) \/ HandleWorkerException(w)
             \/ ClaimFinalAction(w) \/ LifecycleDone(w) \/ LifecycleFailed(w) \/ FinalizeCycle(w)
      PROVE  job' = job
  BY <1>3 DEF ReadJob, CallInventory, CallPayment, IncompleteSuccess, ReopeningRefused,
              HandleWorkerException, ClaimFinalAction, LifecycleDone, LifecycleFailed,
              FinalizeCycle
<1>4. ASSUME \/ \E w \in Workers : Crash(w)
             \/ \E j \in Job : Settle(j)
             \/ \E c \in Dates : FinalLeaseLapses(c) \/ RecordBillingAttempt(c)
             \/ ContractWebhook
      PROVE  job' = job
  BY <1>4 DEF Crash, Settle, FinalLeaseLapses, RecordBillingAttempt, ContractWebhook
<1> QED
  BY <1>1, <1>2, <1>3, <1>4 DEF Next, Begin, Continue, Environment

LEMMA RowStatus ==
  ASSUME TypeOK, NEW j \in Job, NEW s
  PROVE  /\ Finished(j, s).status = s
         /\ NewJob(TRUE).status = "PENDING" /\ NewJob(FALSE).status = "PENDING"
<1>1. job[j] \in JobRow
  BY DEF TypeOK
<1> QED
  BY <1>1 DEF Finished, JobRow, NewJob, NoJob

(* No job is ever deleted. *)
LEMMA JobsStay ==
  ASSUME TypeOK, HeldJobsExist, [Next]_vars, NEW i \in Job, Exists(i)
  PROVE  Exists(i)'
<1> USE DEF Exists
<1>i. job \in [Job -> JobRow] /\ \A w \in Workers : worker[w].task \in Job
  BY DEF TypeOK, WorkerState
<1>1. ASSUME NEW w \in Workers, SeedJob(w)
      PROVE  Exists(i)'
  BY <1>1, <1>i DEF SeedJob
<1>2. ASSUME NEW w \in Workers, SkipJob(w)
      PROVE  Exists(i)'
  <2>1. job' = [job EXCEPT ![worker[w].task] = Finished(worker[w].task, "SKIPPED")]
    BY <1>2 DEF SkipJob
  <2>2. Finished(worker[w].task, "SKIPPED").status = "SKIPPED"
    BY <1>i, RowStatus
  <2> QED
    BY <2>1, <2>2, <1>i
<1>3. ASSUME NEW w \in Workers, PaymentSucceeded(w)
      PROVE  Exists(i)'
  <2>1. job' = [job EXCEPT ![worker[w].task] = Finished(worker[w].task, "SUCCEEDED")]
    BY <1>3 DEF PaymentSucceeded
  <2>2. Finished(worker[w].task, "SUCCEEDED").status = "SUCCEEDED"
    BY <1>i, RowStatus
  <2> QED
    BY <2>1, <2>2, <1>i
<1>4. ASSUME NEW w \in Workers, HandleUncertain(w)
      PROVE  Exists(i)'
  <2>1. PICK s \in {"EXHAUSTED", "UNCERTAIN"} :
          job' = [job EXCEPT ![worker[w].task] =
                    [Finished(worker[w].task, s) EXCEPT !.uncertain = TRUE,
                                                        !.recon = NextCount(w)]]
    BY <1>4 DEF HandleUncertain
  <2>2. [Finished(worker[w].task, s) EXCEPT !.uncertain = TRUE,
                                            !.recon = NextCount(w)].status = s
    BY <1>i DEF Finished, JobRow
  <2> QED
    BY <2>1, <2>2, <1>i
<1>8. ASSUME NEW w \in Workers, InventorySucceeded(w)
      PROVE  Exists(i)'
  <2>1. Finished(worker[w].task, "SUCCEEDED").status = "SUCCEEDED"
    BY <1>i, RowStatus
  <2> QED
    BY <2>1, <1>8, <1>i DEF InventorySucceeded
<1>9. ASSUME NEW w \in Workers, FailOrReschedule(w)
      PROVE  Exists(i)'
  <2> DEFINE j == worker[w].task
  <2>1. \/ \E s \in {"EXHAUSTED", "FAILED"} : job' = [job EXCEPT ![j] = Finished(j, s)]
        \/ job' = [job EXCEPT ![j] = Finished(j, "FAILED"), ![Next_(j)] = NewJob(FALSE)]
        \/ job' = job
    BY <1>9 DEF FailOrReschedule
  <2>2. /\ Finished(j, "EXHAUSTED").status = "EXHAUSTED"
        /\ Finished(j, "FAILED").status = "FAILED" /\ NewJob(FALSE).status = "PENDING"
    BY <1>i, RowStatus
  <2> QED
    BY <2>1, <2>2, <1>i
<1>5. ASSUME NEW w \in Workers, NEW j \in Job, Claim(w, j)
      PROVE  Exists(i)'
  BY <1>5 DEF Claim, TypeOK, JobRow
<1>6. ASSUME NEW j \in Job, LeaseLapses(j)
      PROVE  Exists(i)'
  BY <1>6 DEF LeaseLapses, TypeOK, JobRow
<1>7. CASE TimePasses
  BY <1>7 DEF TimePasses, TypeOK, JobRow
<1> QED
  BY <1>1, <1>2, <1>3, <1>4, <1>5, <1>6, <1>7, <1>8, <1>9, JobWriters

LEMMA HeldJobsStep ==
  ASSUME TypeOK, HeldJobsExist, [Next]_vars
  PROVE  HeldJobsExist'
<1> SUFFICES ASSUME NEW v \in Workers, worker'[v].pc \in HoldingJob
             PROVE  Exists(worker[v].task)'
  BY DEF HeldJobsExist
<1>t. worker[v].task \in Job
  BY DEF TypeOK, WorkerState
<1>1. CASE worker'[v] = worker[v]
  <2>1. Exists(worker[v].task)
    BY <1>1 DEF HeldJobsExist
  <2>2. job'[worker[v].task].status # "absent"
    BY <2>1, <1>t, JobsStay DEF Exists
  <2> QED
    BY <1>1, <2>2 DEF Exists
<1>2. CASE Begin(v) \/ Continue(v) \/ Crash(v)
  <2>1. CASE worker[v].pc \in HoldingJob /\ worker'[v].task = worker[v].task
    <3>1. Exists(worker[v].task)
      BY <2>1 DEF HeldJobsExist
    <3>2. job'[worker[v].task].status # "absent"
      BY <3>1, <1>t, JobsStay DEF Exists
    <3> QED
      BY <2>1, <3>2 DEF Exists
  <2>2. ASSUME NEW j \in Job, Claim(v, j), worker'[v].task = j
        PROVE  Exists(worker[v].task)'
    BY <2>2 DEF Claim, Exists, TypeOK, JobRow
  <2> QED
    BY <1>2, <2>1, <2>2, HoldsItsJob
<1>3. worker'[v] = worker[v] \/ Begin(v) \/ Continue(v) \/ Crash(v)
  BY WorkersMoveThemselves
<1> QED
  BY <1>1, <1>2, <1>3

-----------------------------------------------------------------------------
(* Who writes the cycles. *)

LEMMA CycleWriters ==
  ASSUME TypeOK, [Next]_vars
  PROVE  \/ cycle' = cycle
         \/ \E w \in Workers :
               \/ SeedCycle(w) \/ PaymentSucceeded(w) \/ HandleUncertain(w)
               \/ FailOrReschedule(w) \/ ClaimFinalAction(w) \/ FinalizeCycle(w)
         \/ \E c \in Dates : FinalLeaseLapses(c) \/ RecordBillingAttempt(c)
<1>1. CASE UNCHANGED vars
  BY <1>1 DEF vars
<1>2. ASSUME NEW w \in Workers, (\E j \in Job : Claim(w, j))
                                \/ (\E c \in Dates : ReadFinalAction(w, c))
      PROVE  cycle' = cycle
  BY <1>2 DEF Claim, ReadFinalAction
<1>3. ASSUME NEW w \in Workers, SeedJob(w) \/ ReadJob(w) \/ SkipJob(w) \/ CallInventory(w)
             \/ CallPayment(w) \/ InventorySucceeded(w)
             \/ IncompleteSuccess(w) \/ ReopeningRefused(w)
             \/ HandleWorkerException(w) \/ LifecycleDone(w) \/ LifecycleFailed(w)
      PROVE  cycle' = cycle
  BY <1>3 DEF SeedJob, ReadJob, SkipJob, CallInventory, CallPayment, InventorySucceeded,
              IncompleteSuccess, ReopeningRefused, HandleWorkerException, LifecycleDone,
              LifecycleFailed
<1>4. ASSUME \/ \E w \in Workers : Crash(w)
             \/ \E j \in Job : LeaseLapses(j) \/ Settle(j)
             \/ TimePasses \/ ContractWebhook
      PROVE  cycle' = cycle
  BY <1>4 DEF Crash, LeaseLapses, Settle, TimePasses, ContractWebhook
<1> QED
  BY <1>1, <1>2, <1>3, <1>4 DEF Next, Begin, Continue, Environment

(* What a step may do to one cycle: record its final action once, move its *)
(* final action on, and never take back that it was paid without settling  *)
(* the cycle by its final action.                                          *)
LEMMA CycleStep ==
  ASSUME TypeOK, [Next]_vars, NEW c \in Dates
  PROVE  /\ \/ cycle'[c].action = cycle[c].action
            \/ cycle[c].final = "none" /\ cycle'[c].final = "pending"
         /\ cycle[c].final # "none" => cycle'[c].final # "none"
         /\ cycle[c].final = "succeeded" => cycle'[c].final = "succeeded"
         /\ cycle[c].status = "succeeded" =>
              cycle'[c].status = "succeeded" \/ cycle'[c].final = "succeeded"
<1>i. /\ cycle \in [Dates -> CycleRow] /\ cycle[c] \in CycleRow
      /\ \A w \in Workers : worker[w].task \in Job /\ worker[w].task.cycle \in Dates
      /\ subscription.nextBillingAt \in Nat
  BY JobFields, ConstantsAssumption DEF TypeOK, WorkerState
<1>f. ASSUME NEW j \in Job, cycle' = WithFinalAction(j)
      PROVE  /\ \/ cycle'[c].action = cycle[c].action
                \/ cycle[c].final = "none" /\ cycle'[c].final = "pending"
             /\ cycle[c].final # "none" => cycle'[c] = cycle[c]
             /\ cycle'[c].status = cycle[c].status
  BY <1>f, <1>i DEF WithFinalAction, CycleRow
<1>1. ASSUME NEW w \in Workers, SeedCycle(w)
      PROVE  /\ cycle'[c].action = cycle[c].action /\ cycle'[c].final = cycle[c].final
             /\ cycle[c].status = "succeeded" => cycle'[c].status = "succeeded"
  BY <1>1, <1>i DEF SeedCycle, CycleRow
<1>2. ASSUME NEW w \in Workers, PaymentSucceeded(w)
      PROVE  /\ cycle'[c].action = cycle[c].action /\ cycle'[c].final = cycle[c].final
             /\ cycle[c].status = "succeeded" => cycle'[c].status = "succeeded"
  BY <1>2, <1>i DEF PaymentSucceeded, CycleRow
<1>3. ASSUME NEW w \in Workers, HandleUncertain(w) \/ FailOrReschedule(w), cycle' # cycle
      PROVE  \E j \in Job : cycle' = WithFinalAction(j)
  BY <1>3, <1>i DEF HandleUncertain, FailOrReschedule
<1>4. ASSUME NEW w \in Workers, ClaimFinalAction(w), cycle' # cycle
      PROVE  /\ cycle'[c].action = cycle[c].action /\ cycle'[c].status = cycle[c].status
             /\ cycle[c].final = "succeeded" => cycle'[c].final = "succeeded"
             /\ cycle[c].final # "none" => cycle'[c].final # "none"
  <2> DEFINE d == worker[w].task.cycle
  <2>1. /\ FinalActionDue(d)
        /\ cycle' = [cycle EXCEPT ![d] = [cycle[d] EXCEPT !.final = "processing",
                                                          !.leased = TRUE]]
    BY <1>4 DEF ClaimFinalAction
  <2>2. cycle[d].final \in {"pending", "processing"}
    BY <2>1 DEF FinalActionDue
  <2>3. d \in Dates /\ cycle[d] \in CycleRow
    BY <1>i
  <2>4. CASE c = d
    BY <2>1, <2>2, <2>3, <2>4, <1>i DEF CycleRow
  <2>5. CASE c # d
    BY <2>1, <2>5, <1>i
  <2> QED
    BY <2>4, <2>5
<1>5. ASSUME NEW w \in Workers, FinalizeCycle(w)
      PROVE  /\ cycle'[c].action = cycle[c].action
             /\ cycle'[c] = cycle[c] \/ cycle'[c].final = "succeeded"
  BY <1>5, <1>i DEF FinalizeCycle, CycleRow
<1>6. ASSUME NEW d \in Dates, FinalLeaseLapses(d) \/ RecordBillingAttempt(d)
      PROVE  /\ cycle'[c].action = cycle[c].action /\ cycle'[c].final = cycle[c].final
             /\ cycle[c].status = "succeeded" => cycle'[c].status = "succeeded"
  <2>1. CASE FinalLeaseLapses(d)
    BY <2>1, <1>i DEF FinalLeaseLapses, CycleRow
  <2>2. CASE RecordBillingAttempt(d)
    <3>1. PICK x \in BOOLEAN : cycle' = [cycle EXCEPT ![d] =
                                  [@ EXCEPT !.status = "succeeded", !.advanced = x]]
      BY <2>2 DEF RecordBillingAttempt
    <3> QED
      BY <3>1, <1>i DEF CycleRow
  <2> QED
    BY <1>6, <2>1, <2>2
<1> QED
  BY <1>1, <1>2, <1>3, <1>4, <1>5, <1>6, <1>f, CycleWriters

LEMMA ActionNeedsFinalStep ==
  ASSUME TypeOK, ActionNeedsFinal, [Next]_vars
  PROVE  ActionNeedsFinal'
  BY CycleStep DEF ActionNeedsFinal

(* The first recorded final action of a cycle stays, and a finished one is *)
(* never redone: in every instance, for any overlap of invocations.        *)
THEOREM FinalActionCorrect == Spec => FinalActionRecordedOnce
<1>1. Init => TypeOK /\ ActionNeedsFinal
  BY InitType DEF Init, ActionNeedsFinal, NoCycle
<1>2. (TypeOK /\ ActionNeedsFinal) /\ [Next]_vars => (TypeOK /\ ActionNeedsFinal)'
  BY StepType, ActionNeedsFinalStep
<1>3. TypeOK /\ ActionNeedsFinal /\ [Next]_vars =>
        [\A c \in Dates :
           /\ cycle[c].action # "none" => cycle'[c].action = cycle[c].action
           /\ cycle[c].final = "succeeded" => cycle'[c].final = "succeeded"]_vars
  BY CycleStep DEF ActionNeedsFinal
<1> QED
  BY <1>1, <1>2, <1>3, PTL DEF Spec, FinalActionRecordedOnce

-----------------------------------------------------------------------------
(* Who writes the charges, and what answers mean while they travel. *)

LEMMA ChargeStep ==
  ASSUME TypeOK, [Next]_vars
  PROVE  \/ charge' = charge
         \/ \E w \in Workers : CallPayment(w)
         \/ \E j \in Job : Settle(j)
<1>1. CASE UNCHANGED vars
  BY <1>1 DEF vars
<1>2. ASSUME NEW w \in Workers, Begin(w)
      PROVE  charge' = charge
  BY <1>2 DEF Begin, SeedCycle, Claim, ReadFinalAction
<1>3. ASSUME NEW w \in Workers, Continue(w), ~CallPayment(w)
      PROVE  charge' = charge
  BY <1>3 DEF Continue, SeedJob, ReadJob, SkipJob, CallInventory, InventorySucceeded,
              PaymentSucceeded, IncompleteSuccess, ReopeningRefused, HandleUncertain,
              FailOrReschedule, HandleWorkerException, ClaimFinalAction, LifecycleDone,
              LifecycleFailed, FinalizeCycle
<1>4. ASSUME \/ \E w \in Workers : Crash(w)
             \/ \E j \in Job : LeaseLapses(j)
             \/ \E c \in Dates : FinalLeaseLapses(c) \/ RecordBillingAttempt(c)
             \/ TimePasses \/ ContractWebhook
      PROVE  charge' = charge
  BY <1>4 DEF Crash, LeaseLapses, FinalLeaseLapses, RecordBillingAttempt, TimePasses,
              ContractWebhook
<1> QED
  BY <1>1, <1>2, <1>3, <1>4 DEF Next, Environment

(* A charge that was declined or made stays so. *)
LEMMA ChargesStay ==
  ASSUME TypeOK, [Next]_vars, NEW j \in Job, charge[j] \in {"declined", "charged"}
  PROVE  charge'[j] = charge[j]
<1>i. charge \in [Job -> ChargeState] /\ \A w \in Workers : worker[w].task \in Job
  BY DEF TypeOK, WorkerState
<1>1. ASSUME NEW w \in Workers, CallPayment(w)
      PROVE  charge'[j] = charge[j]
  <2>1. PICK s \in Outcomes(charge[worker[w].task], worker[w].uncertain) :
            charge' = [charge EXCEPT ![worker[w].task] = s]
    BY <1>1 DEF CallPayment
  <2>2. charge[worker[w].task] # "none" => s = charge[worker[w].task]
    BY <2>1 DEF Outcomes
  <2> QED
    BY <2>1, <2>2, <1>i
<1>2. ASSUME NEW i \in Job, Settle(i)
      PROVE  charge'[j] = charge[j]
  BY <1>2, <1>i DEF Settle
<1> QED
  BY <1>1, <1>2, ChargeStep

LEMMA AnswersStep ==
  ASSUME TypeOK, AnswersHold, [Next]_vars
  PROVE  AnswersHold'
<1> SUFFICES ASSUME NEW v \in Workers, At(v, "answered")'
             PROVE  AnswerHolds(v)'
  BY DEF AnswersHold
<1> DEFINE j == worker[v].task
<1>i. /\ worker \in [Workers -> WorkerState] /\ worker[v] \in WorkerState /\ j \in Job
      /\ charge \in [Job -> ChargeState]
  BY DEF TypeOK, WorkerState
<1>1. CASE worker'[v] = worker[v]
  <2>1. AnswerHolds(v)
    BY <1>1 DEF AnswersHold, At
  <2>2. charge[j] \in {"declined", "charged"} => charge'[j] = charge[j]
    BY <1>i, ChargesStay
  <2> QED
    BY <1>1, <2>1, <2>2 DEF AnswerHolds
<1>2. CASE CallInventory(v)
  <2>1. PICK a \in {"available", "failed", "uncertain"} : Answer(v, a)
    BY <1>2 DEF CallInventory
  <2>2. worker'[v].answer = a /\ worker'[v].task = j
    BY <2>1, AnswerType
  <2> QED
    BY <1>2, <2>2 DEF CallInventory, AnswerHolds
<1>3. CASE CallPayment(v)
  <2>1. PICK s \in Outcomes(charge[j], worker[v].uncertain) :
            /\ charge' = [charge EXCEPT ![j] = s]
            /\ \E a \in Report(s) : Answer(v, a)
    BY <1>3 DEF CallPayment
  <2>2. PICK a \in Report(s) : Answer(v, a)
    BY <2>1
  <2>3. a \in {"available", "succeeded", "incomplete", "failed", "uncertain"}
    BY <2>2 DEF Report
  <2>4. worker'[v].answer = a /\ worker'[v].task = j
    BY <2>2, <2>3, AnswerType
  <2>5. charge'[j] = s
    BY <2>1, <1>i
  <2>6. /\ a = "succeeded" => s = "charged"
        /\ a = "failed" /\ ~AppMayReject => s = "declined"
        /\ a # "available"
    BY <2>2 DEF Report
  <2> QED
    BY <1>3, <2>4, <2>5, <2>6 DEF CallPayment, AnswerHolds
<1>4. CASE HandleWorkerException(v)
  <2>1. worker'[v].answer = "error"
    BY <1>4, <1>i DEF HandleWorkerException, WorkerState
  <2> QED
    BY <2>1 DEF AnswerHolds
<1>5. ASSUME Begin(v) \/ Continue(v) \/ Crash(v),
             ~CallInventory(v), ~CallPayment(v), ~HandleWorkerException(v)
      PROVE  worker'[v].pc # "answered"
  BY <1>5, NextPc DEF Begin, Continue
<1> QED
  BY <1>1, <1>2, <1>3, <1>4, <1>5, WorkersMoveThemselves DEF At

-----------------------------------------------------------------------------
(* Every finished job hands over. *)

(* The row a step gives to a job it finishes comes with what follows it. *)
LEMMA FinishStep ==
  ASSUME TypeOK, AnswersHold, [Next]_vars, NEW i \in Job, job'[i].status # job[i].status
  PROVE  /\ job'[i].status = "FAILED" => Next_(i) \in Job /\ Exists(Next_(i))'
         /\ job'[i].status = "EXHAUSTED" => cycle'[i.cycle].final # "none"
         /\ job'[i].status = "SUCCEEDED" /\ i.kind = "INVENTORY" =>
               Exists(FirstJob(i.cycle, "PAYMENT"))'
         /\ job'[i].status = "SUCCEEDED" /\ i.kind = "PAYMENT" =>
               cycle'[i.cycle].status = "succeeded"
<1>i. /\ job \in [Job -> JobRow] /\ cycle \in [Dates -> CycleRow]
      /\ \A w \in Workers : worker[w].task \in Job
      /\ i.cycle \in Dates /\ cycle[i.cycle] \in CycleRow
  BY JobFields DEF TypeOK, WorkerState
<1>w. cycle' = WithFinalAction(i) => cycle'[i.cycle].final # "none"
  BY <1>i DEF WithFinalAction, CycleRow
<1>1. ASSUME NEW w \in Workers, SeedJob(w)
      PROVE  job'[i].status = "PENDING"
  BY <1>1, <1>i, RowStatus DEF SeedJob
<1>2. ASSUME NEW w \in Workers, SkipJob(w)
      PROVE  job'[i].status = "SKIPPED"
  <2>1. Finished(worker[w].task, "SKIPPED").status = "SKIPPED"
    BY <1>i, RowStatus
  <2> QED
    BY <1>2, <2>1, <1>i DEF SkipJob
<1>3. ASSUME NEW w \in Workers, InventorySucceeded(w)
      PROVE  \/ job'[i].status = "PENDING"
             \/ /\ job'[i].status = "SUCCEEDED" /\ i.kind = "INVENTORY"
                /\ Exists(FirstJob(i.cycle, "PAYMENT"))'
  <2> DEFINE j == worker[w].task
             p == FirstJob(j.cycle, "PAYMENT")
  <2>1. j.kind = "INVENTORY"
    BY <1>3 DEF InventorySucceeded, AnswersHold, AnswerHolds, At
  <2>2. p \in Job /\ p # j
    BY <2>1, <1>i, JobFields, FirstJobType DEF Kinds, FirstJob
  <2>3. Finished(j, "SUCCEEDED").status = "SUCCEEDED" /\ NewJob(TRUE).status = "PENDING"
    BY <1>i, RowStatus
  <2>4. job'[p].status # "absent" /\ job'[j].status = "SUCCEEDED"
    BY <1>3, <1>i, <2>2, <2>3 DEF InventorySucceeded
  <2>5. i = j \/ job'[i].status = "PENDING"
    BY <1>3, <1>i, <2>2, <2>3 DEF InventorySucceeded
  <2> QED
    BY <2>1, <2>4, <2>5 DEF Exists
<1>4. ASSUME NEW w \in Workers, PaymentSucceeded(w)
      PROVE  /\ job'[i].status = "SUCCEEDED" /\ i.kind = "PAYMENT"
             /\ cycle'[i.cycle].status = "succeeded"
  <2> DEFINE j == worker[w].task
  <2>1. j.kind = "PAYMENT"
    BY <1>4 DEF PaymentSucceeded, AnswersHold, AnswerHolds, At
  <2>2. Finished(j, "SUCCEEDED").status = "SUCCEEDED"
    BY <1>i, RowStatus
  <2>3. i = j
    BY <1>4, <1>i DEF PaymentSucceeded
  <2>4. cycle'[i.cycle].status = "succeeded"
    BY <1>4, <2>3, <1>i DEF PaymentSucceeded, CycleRow
  <2> QED
    BY <1>4, <1>i, <2>1, <2>2, <2>3, <2>4 DEF PaymentSucceeded
<1>5. ASSUME NEW w \in Workers, HandleUncertain(w)
      PROVE  \/ job'[i].status = "UNCERTAIN"
             \/ job'[i].status = "EXHAUSTED" /\ cycle'[i.cycle].final # "none"
  <2> DEFINE j == worker[w].task
  <2>1. PICK s \in {"EXHAUSTED", "UNCERTAIN"} :
          /\ job' = [job EXCEPT ![j] = [Finished(j, s) EXCEPT !.uncertain = TRUE,
                                                              !.recon = NextCount(w)]]
          /\ s = "EXHAUSTED" => cycle' = WithFinalAction(j)
    BY <1>5 DEF HandleUncertain
  <2>2. [Finished(j, s) EXCEPT !.uncertain = TRUE, !.recon = NextCount(w)].status = s
    BY <1>i DEF Finished, JobRow
  <2> QED
    BY <2>1, <2>2, <1>i, <1>w
<1>6. ASSUME NEW w \in Workers, FailOrReschedule(w)
      PROVE  \/ job'[i].status = "PENDING"
             \/ job'[i].status = "FAILED" /\ Next_(i) \in Job /\ Exists(Next_(i))'
             \/ job'[i].status = "EXHAUSTED" /\ cycle'[i.cycle].final # "none"
  <2> DEFINE j == worker[w].task
  <2>1. /\ Finished(j, "EXHAUSTED").status = "EXHAUSTED"
        /\ Finished(j, "FAILED").status = "FAILED" /\ NewJob(FALSE).status = "PENDING"
    BY <1>i, RowStatus
  <2>2. CASE job' = [job EXCEPT ![j] = Finished(j, "EXHAUSTED")] /\ cycle' = WithFinalAction(j)
    BY <2>1, <2>2, <1>i, <1>w
  <2>3. CASE /\ ~(j.n >= MaxRetries[j.kind])
             /\ job' = [job EXCEPT ![j] = Finished(j, "FAILED"), ![Next_(j)] = NewJob(FALSE)]
    <3>1. Next_(j) \in Job
      BY <2>3, <1>i, NextType
    <3>2. job'[Next_(j)].status = "PENDING"
      BY <2>1, <2>3, <3>1, <1>i
    <3>3. i = j \/ job'[i].status = "PENDING"
      BY <2>1, <2>3, <3>1, <1>i
    <3>4. job'[j].status \in {"FAILED", "PENDING"}
      BY <2>1, <2>3, <3>1, <1>i
    <3> QED
      BY <3>1, <3>2, <3>3, <3>4 DEF Exists
  <2> QED
    BY <1>6, <2>2, <2>3 DEF FailOrReschedule
<1>7. ASSUME NEW w \in Workers, NEW j \in Job, Claim(w, j)
      PROVE  job'[i].status = "CLAIMED"
  BY <1>7, <1>i DEF Claim, JobRow
<1>8. ASSUME NEW j \in Job, LeaseLapses(j)
      PROVE  FALSE
  BY <1>8, <1>i DEF LeaseLapses, JobRow
<1>9. CASE TimePasses
  BY <1>9, <1>i DEF TimePasses, JobRow
<1> QED
  BY <1>1, <1>2, <1>3, <1>4, <1>5, <1>6, <1>7, <1>8, <1>9, JobWriters

LEMMA HandedOverStep ==
  ASSUME TypeOK, HeldJobsExist, AnswersHold, HandedOver, [Next]_vars
  PROVE  HandedOver'
<1> SUFFICES ASSUME NEW i \in Job
             PROVE  /\ job'[i].status = "FAILED" => Next_(i) \in Job /\ Exists(Next_(i))'
                    /\ job'[i].status = "EXHAUSTED" => cycle'[i.cycle].final # "none"
                    /\ job'[i].status = "SUCCEEDED" /\ i.kind = "INVENTORY" =>
                          Exists(FirstJob(i.cycle, "PAYMENT"))'
                    /\ job'[i].status = "SUCCEEDED" /\ i.kind = "PAYMENT" =>
                          \/ cycle'[i.cycle].status = "succeeded"
                          \/ cycle'[i.cycle].final = "succeeded"
  BY DEF HandedOver
<1>1. CASE job'[i].status = job[i].status
  <2>1. i.cycle \in Dates /\ FirstJob(i.cycle, "PAYMENT") \in Job
    BY JobFields, FirstJobType DEF Kinds
  <2>2. Exists(FirstJob(i.cycle, "PAYMENT")) => Exists(FirstJob(i.cycle, "PAYMENT"))'
    BY <2>1, JobsStay
  <2>3. Next_(i) \in Job /\ Exists(Next_(i)) => Exists(Next_(i))'
    BY JobsStay
  <2> QED
    BY <1>1, <2>1, <2>2, <2>3, CycleStep DEF HandedOver
<1>2. CASE job'[i].status # job[i].status
  BY <1>2, FinishStep
<1> QED
  BY <1>1, <1>2

HandOverInv == TypeOK /\ HeldJobsExist /\ AnswersHold /\ HandedOver

LEMMA HandOverInductive ==
  /\ Init => HandOverInv
  /\ HandOverInv /\ [Next]_vars => HandOverInv'
  /\ HandOverInv => EveryJobHandsOver
<1>1. Init => HandOverInv
  <2> SUFFICES ASSUME Init PROVE HandOverInv
    OBVIOUS
  <2>1. TypeOK
    BY InitType
  <2>2. HeldJobsExist /\ AnswersHold
    BY DEF Init, HeldJobsExist, HoldingJob, AnswersHold, At, Idle
  <2>3. HandedOver
    BY DEF Init, HandedOver, NoJob
  <2> QED
    BY <2>1, <2>2, <2>3 DEF HandOverInv
<1>2. HandOverInv /\ [Next]_vars => HandOverInv'
  BY StepType, HeldJobsStep, AnswersStep, HandedOverStep DEF HandOverInv
<1>3. HandOverInv => EveryJobHandsOver
  BY JobFields DEF HandOverInv, HandedOver, EveryJobHandsOver, Exists, Kinds
<1> QED
  BY <1>1, <1>2, <1>3

(* No job of any instance ends without leaving what comes next, however    *)
(* invocations overlap, die or act on what is no longer so.                *)
THEOREM HandOverCorrect == Spec => []EveryJobHandsOver
  BY HandOverInductive, PTL DEF Spec

-----------------------------------------------------------------------------
(* Payments are attempted in turn. *)

LEMMA SeedsInventoryStep ==
  ASSUME TypeOK, SeedsInventory, [Next]_vars
  PROVE  SeedsInventory'
<1> SUFFICES ASSUME NEW v \in Workers, worker'[v].pc = "seedJob"
             PROVE  worker'[v].task.kind = "INVENTORY"
  BY DEF SeedsInventory, At
<1>i. worker \in [Workers -> WorkerState] /\ worker[v] \in WorkerState
  BY DEF TypeOK
<1>1. CASE worker'[v] = worker[v]
  BY <1>1 DEF SeedsInventory, At
<1>2. CASE Begin(v) \/ Continue(v) \/ Crash(v)
  BY <1>2, NextPc DEF Begin, Continue
<1> QED
  BY <1>1, <1>2, WorkersMoveThemselves

(* A payment job is opened for attempt 0, or after the attempt before it failed. *)
LEMMA OpenStep ==
  ASSUME TypeOK, HeldJobsExist, SeedsInventory, [Next]_vars,
         NEW i \in Job, i.kind = "PAYMENT", ~Exists(i), Exists(i)'
  PROVE  \/ i.n = 0
         \/ \E w \in Workers : /\ At(w, "answered") /\ worker[w].answer = "failed"
                               /\ i = Next_(worker[w].task)
<1>i. /\ job \in [Job -> JobRow] /\ job[i].status = "absent" /\ job'[i] # job[i]
      /\ \A w \in Workers : /\ worker[w].task \in Job
                            /\ worker[w].pc \in HoldingJob => worker[w].task # i
  BY DEF TypeOK, WorkerState, Exists, HeldJobsExist
<1> USE DEF HoldingJob, At
<1>1. ASSUME NEW w \in Workers, SeedJob(w)
      PROVE  FALSE
  BY <1>1, <1>i DEF SeedJob, SeedsInventory
<1>2. ASSUME NEW w \in Workers, SkipJob(w) \/ PaymentSucceeded(w)
      PROVE  FALSE
  BY <1>2, <1>i DEF SkipJob, PaymentSucceeded
<1>3. ASSUME NEW w \in Workers, HandleUncertain(w)
      PROVE  FALSE
  <2>1. \E r : job' = [job EXCEPT ![worker[w].task] = r]
    BY <1>3 DEF HandleUncertain
  <2>2. worker[w].task # i
    BY <1>3, <1>i DEF HandleUncertain
  <2> QED
    BY <2>1, <2>2, <1>i
<1>4. ASSUME NEW w \in Workers, InventorySucceeded(w)
      PROVE  i.n = 0
  <2>1. worker[w].task # i
    BY <1>4, <1>i DEF InventorySucceeded
  <2>2. i = FirstJob(worker[w].task.cycle, "PAYMENT")
    BY <2>1, <1>4, <1>i DEF InventorySucceeded
  <2> QED
    BY <2>2 DEF FirstJob
<1>5. ASSUME NEW w \in Workers, FailOrReschedule(w)
      PROVE  /\ worker[w].pc = "answered" /\ worker[w].answer = "failed"
             /\ i = Next_(worker[w].task)
  <2> DEFINE j == worker[w].task
  <2>1. worker[w].pc = "answered" /\ worker[w].answer = "failed" /\ j # i
    BY <1>5, <1>i DEF FailOrReschedule
  <2>2. \/ \E r : job' = [job EXCEPT ![j] = r]
        \/ \E r, q : job' = [job EXCEPT ![j] = r, ![Next_(j)] = q]
        \/ job' = job
    BY ZenonT(40), <1>5 DEF FailOrReschedule
  <2> QED
    BY <2>1, <2>2, <1>i
<1>6. ASSUME NEW w \in Workers, NEW j \in Job, Claim(w, j)
      PROVE  FALSE
  BY <1>6, <1>i DEF Claim, Claimable
<1>7. ASSUME NEW j \in Job, LeaseLapses(j)
      PROVE  job'[i].status = "absent"
  BY <1>7, <1>i DEF LeaseLapses, JobRow
<1>8. CASE TimePasses
  <2>1. job'[i].status = "absent"
    BY <1>8, <1>i DEF TimePasses, JobRow
  <2> QED
    BY <2>1 DEF Exists
<1> QED
  BY <1>1, <1>2, <1>3, <1>4, <1>5, <1>6, <1>7, <1>8, <1>i, JobWriters DEF Exists

LEMMA ChargesInTurnStep ==
  ASSUME ~AppMayReject, TypeOK, HeldJobsExist, AnswersHold, SeedsInventory, ChargesInTurn,
         [Next]_vars
  PROVE  ChargesInTurn'
<1> SUFFICES ASSUME NEW j \in Job
             PROVE  /\ Live(j)' => j.kind = "PAYMENT" /\ Exists(j)'
                    /\ j.kind = "PAYMENT" /\ Exists(j)' =>
                          \A n \in 0 .. LastTry : n < j.n =>
                             charge'[Payment(j.cycle, n)] = "declined"
  BY DEF ChargesInTurn
<1>i. /\ charge \in [Job -> ChargeState] /\ \A w \in Workers : worker[w].task \in Job
      /\ j.cycle \in Dates /\ j.n \in 0 .. LastTry /\ LastTry \in Nat
      /\ \A n \in 0 .. LastTry : Payment(j.cycle, n) \in Job
  BY JobFields, LastTryType DEF TypeOK, WorkerState, Payment, Job, Kinds
<1>1. ASSUME Live(j)'
      PROVE  j.kind = "PAYMENT" /\ Exists(j)'
  <2>1. j.kind = "PAYMENT" /\ Exists(j)
    <3>1. CASE charge' = charge
      BY <1>1, <3>1 DEF Live, ChargesInTurn
    <3>2. ASSUME NEW w \in Workers, CallPayment(w)
          PROVE  j.kind = "PAYMENT" /\ Exists(j)
      <4>1. CASE j = worker[w].task
        BY <3>2, <4>1 DEF CallPayment, HeldJobsExist, HoldingJob, At
      <4>2. CASE j # worker[w].task
        <5>1. charge'[j] = charge[j]
          BY <3>2, <4>2, <1>i DEF CallPayment
        <5> QED
          BY <1>1, <5>1 DEF Live, ChargesInTurn
      <4> QED
        BY <4>1, <4>2
    <3>3. ASSUME NEW i \in Job, Settle(i)
          PROVE  j.kind = "PAYMENT" /\ Exists(j)
      <4>1. Live(j)
        BY <1>1, <3>3, <1>i DEF Settle, Live
      <4> QED
        BY <4>1 DEF ChargesInTurn
    <3> QED
      BY <3>1, <3>2, <3>3, ChargeStep
  <2> QED
    BY <2>1, JobsStay
<1>2. ASSUME j.kind = "PAYMENT", Exists(j)', NEW n \in 0 .. LastTry, n < j.n
      PROVE  charge'[Payment(j.cycle, n)] = "declined"
  <2> SUFFICES charge[Payment(j.cycle, n)] = "declined"
    BY <1>i, ChargesStay
  <2>1. CASE Exists(j)
    BY <2>1, <1>2 DEF ChargesInTurn
  <2>2. CASE ~Exists(j)
    <3>1. j.n # 0
      BY <1>2, <1>i
    <3>2. PICK w \in Workers : /\ At(w, "answered") /\ worker[w].answer = "failed"
                               /\ j = Next_(worker[w].task)
      BY <1>2, <2>2, <3>1, OpenStep
    <3> DEFINE t == worker[w].task
    <3>3. /\ t \in Job /\ t.kind = "PAYMENT" /\ t.cycle = j.cycle /\ j.n = t.n + 1
          /\ t.n \in 0 .. LastTry /\ t = Payment(j.cycle, t.n)
      BY <3>2, <1>2, <1>i DEF Next_, Job, Payment
    <3>4. charge[t] = "declined"
      BY <3>2, <3>3 DEF AnswersHold, AnswerHolds
    <3>5. Exists(t)
      BY <3>2 DEF HeldJobsExist, HoldingJob, At
    <3>6. CASE n = t.n
      BY <3>3, <3>4, <3>6
    <3>7. CASE n < t.n
      BY <3>3, <3>5, <3>7 DEF ChargesInTurn
    <3>8. n = t.n \/ n < t.n
      BY <1>2, <3>3, <1>i
    <3> QED
      BY <3>6, <3>7, <3>8
  <2> QED
    BY <2>1, <2>2
<1> QED
  BY <1>1, <1>2

ChargeInv ==
    TypeOK /\ HeldJobsExist /\ AnswersHold /\ SeedsInventory /\ ChargesInTurn

LEMMA ChargesInTurnOnce == TypeOK /\ ChargesInTurn => AtMostOneCharge
<1> SUFFICES ASSUME TypeOK, ChargesInTurn, NEW i \in Job, NEW j \in Job,
                    i.cycle = j.cycle, Live(i), Live(j)
             PROVE  i = j
  BY DEF AtMostOneCharge
<1>1. /\ i.kind = "PAYMENT" /\ Exists(i) /\ i.n \in 0 .. LastTry
      /\ j.kind = "PAYMENT" /\ Exists(j) /\ j.n \in 0 .. LastTry
      /\ LastTry \in Nat
  BY JobFields, LastTryType DEF ChargesInTurn
<1>2. i = Payment(j.cycle, i.n) /\ j = Payment(i.cycle, j.n)
  BY <1>1 DEF Payment, Job
<1>3. ~(i.n < j.n)
  BY <1>1, <1>2 DEF ChargesInTurn, Live
<1>4. ~(j.n < i.n)
  BY <1>1, <1>2 DEF ChargesInTurn, Live
<1>5. i.n = j.n
  BY <1>1, <1>3, <1>4
<1> QED
  BY <1>2, <1>5

LEMMA ChargeInductive ==
  ASSUME ~AppMayReject
  PROVE  /\ Init => ChargeInv
         /\ ChargeInv /\ [Next]_vars => ChargeInv'
<1>1. Init => ChargeInv
  <2> SUFFICES ASSUME Init PROVE ChargeInv
    OBVIOUS
  <2>1. TypeOK /\ HeldJobsExist /\ AnswersHold
    BY HandOverInductive DEF HandOverInv
  <2>2. SeedsInventory
    BY DEF Init, SeedsInventory, At, Idle
  <2>3. ChargesInTurn
    BY DEF Init, ChargesInTurn, Live, Exists, NoJob
  <2> QED
    BY <2>1, <2>2, <2>3 DEF ChargeInv
<1>2. ChargeInv /\ [Next]_vars => ChargeInv'
  BY StepType, HeldJobsStep, AnswersStep, SeedsInventoryStep, ChargesInTurnStep DEF ChargeInv
<1> QED
  BY <1>1, <1>2

(* With an App that calls a payment failed only when its attempt is closed, *)
(* no instance ever charges a cycle twice.                                  *)
THEOREM OneChargeCorrect ==
  ASSUME ~AppMayReject
  PROVE  Spec => []AtMostOneCharge
<1>1. ChargeInv => AtMostOneCharge
  BY ChargesInTurnOnce DEF ChargeInv
<1> QED
  BY <1>1, ChargeInductive, PTL DEF Spec

-----------------------------------------------------------------------------
(* The mirrored orders are those of the charges. *)

LEMMA OrderWriters ==
  ASSUME TypeOK, [Next]_vars
  PROVE  \/ orders' = orders /\ complete' = complete
         \/ \E w \in Workers : PaymentSucceeded(w)
         \/ \E c \in Dates : RecordBillingAttempt(c)
<1>1. CASE UNCHANGED vars
  BY <1>1 DEF vars
<1>2. ASSUME NEW w \in Workers, Begin(w)
      PROVE  orders' = orders /\ complete' = complete
  BY <1>2 DEF Begin, SeedCycle, Claim, ReadFinalAction
<1>3. ASSUME NEW w \in Workers, Continue(w), ~PaymentSucceeded(w)
      PROVE  orders' = orders /\ complete' = complete
  BY <1>3 DEF Continue, SeedJob, ReadJob, SkipJob, CallInventory, CallPayment,
              InventorySucceeded, IncompleteSuccess, ReopeningRefused, HandleUncertain,
              FailOrReschedule, HandleWorkerException, ClaimFinalAction, LifecycleDone,
              LifecycleFailed, FinalizeCycle
<1>4. ASSUME \/ \E w \in Workers : Crash(w)
             \/ \E j \in Job : LeaseLapses(j) \/ Settle(j)
             \/ \E c \in Dates : FinalLeaseLapses(c)
             \/ TimePasses \/ ContractWebhook
      PROVE  orders' = orders /\ complete' = complete
  BY <1>4 DEF Crash, LeaseLapses, Settle, FinalLeaseLapses, TimePasses, ContractWebhook
<1> QED
  BY <1>1, <1>2, <1>3, <1>4 DEF Next, Environment

(* No order is forgotten, and a date gets one before it counts as paid. *)
LEMMA PaidStep ==
  ASSUME TypeOK, OrdersPaid, [Next]_vars, NEW c \in Dates
  PROVE  /\ orders[c] \subseteq orders'[c]
         /\ c \in complete' \/ cycle'[c].status = "succeeded" => orders'[c] # {}
<1>i. /\ cycle \in [Dates -> CycleRow] /\ cycle[c] \in CycleRow
      /\ orders \in [Dates -> SUBSET (0 .. Outside)]
      /\ \A w \in Workers : worker[w].task \in Job /\ worker[w].task.cycle \in Dates
  BY JobFields DEF TypeOK, WorkerState
<1>1. ASSUME NEW w \in Workers, PaymentSucceeded(w)
      PROVE  /\ orders[c] \subseteq orders'[c] /\ complete' = complete
             /\ cycle'[c] # cycle[c] => orders'[c] # {}
  BY <1>1, <1>i DEF PaymentSucceeded
<1>2. ASSUME NEW d \in Dates, RecordBillingAttempt(d)
      PROVE  /\ orders[c] \subseteq orders'[c] /\ complete' = complete \cup {d}
             /\ c # d => cycle'[c] = cycle[c]
             /\ c = d => orders'[c] # {}
  <2>1. PICK n \in 0 .. Outside : orders' = [orders EXCEPT ![d] = @ \cup {n}]
    BY <1>2 DEF RecordBillingAttempt
  <2>2. \E r : cycle' = [cycle EXCEPT ![d] = r]
    BY <1>2 DEF RecordBillingAttempt
  <2>3. complete' = complete \cup {d}
    BY <1>2 DEF RecordBillingAttempt
  <2> QED
    BY <2>1, <2>2, <2>3, <1>i
<1>3. ASSUME orders' = orders, complete' = complete, cycle'[c].status = "succeeded",
             cycle[c].status # "succeeded"
      PROVE  orders'[c] # {}
  <2>1. ASSUME NEW w \in Workers, SeedCycle(w)
        PROVE  orders'[c] # {}
    BY <2>1, <1>3, <1>i DEF SeedCycle, CycleRow, OrdersPaid
  <2>2. ASSUME NEW j \in Job, cycle' = WithFinalAction(j)
        PROVE  FALSE
    BY <2>2, <1>3, <1>i DEF WithFinalAction, CycleRow
  <2>3. ASSUME NEW w \in Workers, HandleUncertain(w) \/ FailOrReschedule(w)
        PROVE  cycle' = cycle \/ \E j \in Job : cycle' = WithFinalAction(j)
    BY <2>3, <1>i DEF HandleUncertain, FailOrReschedule
  <2>4. ASSUME NEW w \in Workers, ClaimFinalAction(w)
        PROVE  FALSE
    <3> DEFINE d == worker[w].task.cycle
    <3>1. \/ cycle' = cycle
          \/ cycle' = [cycle EXCEPT ![d] = [cycle[d] EXCEPT !.final = "processing",
                                                            !.leased = TRUE]]
      BY <2>4 DEF ClaimFinalAction
    <3>2. d \in Dates /\ cycle[d] \in CycleRow
      BY <1>i
    <3>3. [cycle[d] EXCEPT !.final = "processing", !.leased = TRUE].status = cycle[d].status
      BY <3>2 DEF CycleRow
    <3>4. cycle'[c].status = cycle[c].status
      BY <3>1, <3>2, <3>3, <1>i
    <3> QED
      BY <3>4, <1>3
  <2>5. ASSUME NEW w \in Workers, FinalizeCycle(w)
        PROVE  FALSE
    BY <2>5, <1>3, <1>i DEF FinalizeCycle, CycleRow
  <2>6. ASSUME NEW d \in Dates, FinalLeaseLapses(d)
        PROVE  FALSE
    BY <2>6, <1>3, <1>i DEF FinalLeaseLapses, CycleRow
  <2>7. ASSUME NEW d \in Dates, RecordBillingAttempt(d)
        PROVE  orders'[c] # {}
    BY <2>7, <1>2, <1>3
  <2>8. ASSUME NEW w \in Workers, PaymentSucceeded(w)
        PROVE  orders'[c] # {}
    BY <2>8, <1>1, <1>3
  <2> QED
    BY <1>3, <2>1, <2>2, <2>3, <2>4, <2>5, <2>6, <2>7, <2>8, CycleWriters
<1> QED
  BY <1>1, <1>2, <1>3, OrderWriters DEF OrdersPaid

LEMMA OrdersPaidStep ==
  ASSUME TypeOK, AnswersHold, OrdersPaid, [Next]_vars
  PROVE  OrdersPaid'
<1> SUFFICES ASSUME NEW c \in Dates, NEW n \in orders'[c] \ {Outside}
             PROVE  charge'[Payment(c, n)] = "charged"
  BY PaidStep DEF OrdersPaid
<1>i. /\ orders \in [Dates -> SUBSET (0 .. Outside)] /\ orders[c] \subseteq 0 .. Outside
      /\ \A w \in Workers : worker[w].task \in Job
      /\ LastTry \in Nat /\ Outside = LastTry + 1
      /\ \A m \in 0 .. LastTry : Payment(c, m) \in Job
  BY LastTryType DEF TypeOK, WorkerState, Payment, Job, Kinds, Outside
<1>1. n \in 0 .. LastTry /\ charge[Payment(c, n)] = "charged"
  <2>1. CASE n \in orders[c]
    BY <2>1, <1>i DEF OrdersPaid
  <2>2. ASSUME NEW w \in Workers, PaymentSucceeded(w), n \notin orders[c]
        PROVE  n \in 0 .. LastTry /\ charge[Payment(c, n)] = "charged"
    <3> DEFINE j == worker[w].task
    <3>1. j.kind = "PAYMENT" /\ charge[j] = "charged"
      BY <2>2 DEF PaymentSucceeded, AnswersHold, AnswerHolds, At
    <3>2. j.cycle = c /\ j.n = n
      BY <2>2, <1>i DEF PaymentSucceeded
    <3>3. j = Payment(c, n)
      BY <3>1, <3>2, <1>i DEF Payment, Job
    <3>4. j \in Job
      BY <1>i
    <3> QED
      BY <3>1, <3>2, <3>3, <3>4, JobFields
  <2>3. ASSUME NEW d \in Dates, RecordBillingAttempt(d), n \notin orders[c]
        PROVE  n \in 0 .. LastTry /\ charge[Payment(c, n)] = "charged"
    <3>1. PICK m \in 0 .. Outside : /\ m # Outside => charge[Payment(d, m)] = "charged"
                                    /\ orders' = [orders EXCEPT ![d] = @ \cup {m}]
      BY <2>3 DEF RecordBillingAttempt
    <3>2. d = c /\ m = n
      BY <2>3, <3>1, <1>i
    <3> QED
      BY <3>1, <3>2, <1>i
  <2>4. n \in orders[c] \/ orders' # orders
    OBVIOUS
  <2> QED
    BY <2>1, <2>2, <2>3, <2>4, OrderWriters
<1> QED
  BY <1>1, <1>i, ChargesStay

OrderInv == ChargeInv /\ OrdersPaid

LEMMA OrdersAgree == OrderInv => OrdersMatchCharges
<1> SUFFICES ASSUME OrderInv, NEW c \in Dates
             PROVE  \A m, n \in orders[c] \ {Outside} : m = n
  BY DEF OrderInv, OrdersPaid, OrdersMatchCharges
<1> SUFFICES ASSUME NEW m \in orders[c] \ {Outside}, NEW n \in orders[c] \ {Outside}
             PROVE  m = n
  OBVIOUS
<1>1. charge[Payment(c, m)] = "charged" /\ charge[Payment(c, n)] = "charged"
  BY DEF OrderInv, OrdersPaid
<1>2. m \in 0 .. LastTry /\ n \in 0 .. LastTry
  BY LastTryType DEF OrderInv, ChargeInv, TypeOK, Outside
<1>3. Payment(c, m) \in Job /\ Payment(c, n) \in Job
  BY <1>2 DEF Payment, Job, Kinds
<1>4. AtMostOneCharge
  BY ChargesInTurnOnce DEF OrderInv, ChargeInv
<1>5. Payment(c, m).cycle = Payment(c, n).cycle
  BY DEF Payment
<1>6. Payment(c, m) = Payment(c, n)
  BY <1>1, <1>3, <1>4, <1>5 DEF AtMostOneCharge, Live
<1>7. Payment(c, m).n = m /\ Payment(c, n).n = n
  BY DEF Payment
<1> QED
  BY <1>6, <1>7

LEMMA OrderInvCorrect == ASSUME ~AppMayReject PROVE Spec => []OrderInv
<1>1. Init => OrderInv
  <2> SUFFICES ASSUME Init PROVE OrderInv
    OBVIOUS
  <2>1. ChargeInv
    BY ChargeInductive
  <2>2. OrdersPaid
    BY DEF Init, OrdersPaid, NoCycle
  <2> QED
    BY <2>1, <2>2 DEF OrderInv
<1>2. OrderInv /\ [Next]_vars => OrderInv'
  BY ChargeInductive, OrdersPaidStep DEF OrderInv, ChargeInv
<1> QED
  BY <1>1, <1>2, PTL DEF Spec

(* The orders mirrored for a cycle are those Shopify charged for it, at     *)
(* most one of them the engine's, and a paid cycle has one.                 *)
THEOREM OrdersCorrect ==
  ASSUME ~AppMayReject
  PROVE  Spec => []OrdersMatchCharges
<1> QED
  BY OrderInvCorrect, OrdersAgree, PTL

-----------------------------------------------------------------------------
(* That the engine keeps what CycleBilling promises. Besides the above: an *)
(* action is recorded with its state, and who works on a final action      *)
(* works on one that is recorded.                                          *)

FinalNeedsAction == \A c \in Dates : cycle[c].final # "none" => cycle[c].action # "none"
Finalizing == {"finalClaim", "finalCall", "finalWrite"}
FinalizersKnow ==
    \A w \in Workers : worker[w].pc \in Finalizing => cycle[worker[w].task.cycle].final # "none"

PromiseInv == OrderInv /\ ActionNeedsFinal /\ FinalNeedsAction /\ FinalizersKnow

LEMMA FinalNeedsActionStep ==
  ASSUME TypeOK, FinalNeedsAction, FinalizersKnow, [Next]_vars
  PROVE  FinalNeedsAction'
<1> SUFFICES ASSUME NEW c \in Dates, cycle'[c].final # "none" PROVE cycle'[c].action # "none"
  BY DEF FinalNeedsAction
<1>i. /\ cycle \in [Dates -> CycleRow] /\ cycle[c] \in CycleRow
      /\ \A w \in Workers : worker[w].task \in Job /\ worker[w].task.cycle \in Dates
  BY JobFields DEF TypeOK, WorkerState
<1>1. cycle[c].final # "none" => cycle'[c].action # "none"
  BY CycleStep DEF FinalNeedsAction
<1>2. CASE cycle[c].final = "none"
  <2>1. ASSUME NEW w \in Workers, SeedCycle(w) \/ PaymentSucceeded(w)
        PROVE  cycle'[c].final = "none"
    BY <2>1, <1>2, <1>i DEF SeedCycle, PaymentSucceeded, CycleRow
  <2>2. ASSUME NEW w \in Workers, HandleUncertain(w) \/ FailOrReschedule(w)
        PROVE  cycle'[c].action # "none"
    <3>1. PICK j \in Job : cycle' = cycle \/ cycle' = WithFinalAction(j)
      BY <2>2, <1>i DEF HandleUncertain, FailOrReschedule
    <3>2. j.cycle \in Dates /\ FailureAction[j.kind] \in Actions /\ "none" \notin Actions
      BY JobFields, ConstantsAssumption DEF Actions
    <3> QED
      BY ZenonT(40), <3>1, <3>2, <1>2, <1>i DEF WithFinalAction, CycleRow
  <2>3. ASSUME NEW w \in Workers, ClaimFinalAction(w)
        PROVE  cycle'[c].final = "none"
    <3> DEFINE d == worker[w].task.cycle
    <3>1. \/ cycle' = cycle
          \/ cycle[d].final # "none" /\ \E r : cycle' = [cycle EXCEPT ![d] = r]
      BY <2>3 DEF ClaimFinalAction, FinalActionDue
    <3> QED
      BY <3>1, <1>2, <1>i
  <2>4. ASSUME NEW w \in Workers, FinalizeCycle(w)
        PROVE  cycle'[c].final = "none"
    <3> DEFINE d == worker[w].task.cycle
    <3>1. cycle[d].final # "none" /\ \E r : cycle' = [cycle EXCEPT ![d] = r]
      BY <2>4 DEF FinalizeCycle, FinalizersKnow, Finalizing, At
    <3> QED
      BY <3>1, <1>2, <1>i
  <2>5. ASSUME NEW d \in Dates, FinalLeaseLapses(d)
        PROVE  cycle'[c].final = "none"
    BY <2>5, <1>2, <1>i DEF FinalLeaseLapses, CycleRow
  <2>6. ASSUME NEW d \in Dates, RecordBillingAttempt(d)
        PROVE  cycle'[c].final = "none"
    <3>1. PICK x \in BOOLEAN : cycle' = [cycle EXCEPT ![d] =
                                  [@ EXCEPT !.status = "succeeded", !.advanced = x]]
      BY <2>6 DEF RecordBillingAttempt
    <3> QED
      BY <3>1, <1>2, <1>i DEF CycleRow
  <2> QED
    BY <1>2, <2>1, <2>2, <2>3, <2>4, <2>5, <2>6, CycleWriters
<1> QED
  BY <1>1, <1>2

LEMMA FinalizersKnowStep ==
  ASSUME TypeOK, FinalizersKnow, [Next]_vars
  PROVE  FinalizersKnow'
<1> SUFFICES ASSUME NEW v \in Workers, worker'[v].pc \in Finalizing
             PROVE  cycle'[worker'[v].task.cycle].final # "none"
  BY DEF FinalizersKnow
<1>i. /\ worker[v] \in WorkerState /\ worker \in [Workers -> WorkerState]
      /\ worker[v].task.cycle \in Dates
  BY JobFields DEF TypeOK, WorkerState
<1> USE DEF Finalizing
<1>1. ASSUME worker[v].pc \in Finalizing, worker'[v].task = worker[v].task
      PROVE  cycle'[worker'[v].task.cycle].final # "none"
  BY <1>1, <1>i, CycleStep DEF FinalizersKnow
<1>2. ASSUME NEW c \in Dates, ReadFinalAction(v, c)
      PROVE  cycle'[worker'[v].task.cycle].final # "none"
  <2> DEFINE r == [Idle EXCEPT !.pc = "finalClaim", !.task = FirstJob(c, "INVENTORY"),
                               !.status = subscription.status, !.advanced = cycle[c].advanced]
  <2>1. r.task.cycle = c
    BY DEF Idle, FirstJob
  <2>2. worker' = [worker EXCEPT ![v] = r]
    BY <1>2 DEF ReadFinalAction
  <2> HIDE DEF r
  <2>3. worker'[v].task.cycle = c
    BY <2>1, <2>2, <1>i
  <2>4. cycle[c].final # "none"
    BY <1>2 DEF ReadFinalAction, FinalActionDue
  <2> QED
    BY <2>3, <2>4, CycleStep
<1>3. ASSUME ClaimFinalAction(v) \/ LifecycleDone(v)
      PROVE  worker[v].pc \in Finalizing /\ worker'[v].task = worker[v].task
  <2>1. worker[v].pc \in Finalizing /\ (Rest(v) \/ \E pc : Goto(v, pc))
    BY <1>3 DEF ClaimFinalAction, LifecycleDone, At
  <2> QED
    BY <2>1, WorkerMoves
<1>4. worker'[v] = worker[v] \/ Begin(v) \/ Continue(v) \/ Crash(v)
  BY WorkersMoveThemselves
<1>5. CASE worker'[v] = worker[v]
  BY <1>1, <1>5
<1>6. CASE Begin(v) \/ Continue(v) \/ Crash(v)
  <2>0. LifecycleFailed(v) \/ FinalizeCycle(v) => worker'[v].pc = "idle"
    BY WorkerMoves DEF LifecycleFailed, FinalizeCycle
  <2>1. \/ \E c \in Dates : ReadFinalAction(v, c)
        \/ ClaimFinalAction(v) \/ LifecycleDone(v)
    BY <1>6, <2>0, NextPc DEF Begin, Continue
  <2> QED
    BY <2>1, <1>1, <1>2, <1>3
<1> QED
  BY <1>4, <1>5, <1>6

LEMMA PromiseInvCorrect ==
  ASSUME ~AppMayReject
  PROVE  Spec => []PromiseInv
<1>1. Init => ActionNeedsFinal /\ FinalNeedsAction /\ FinalizersKnow
  BY DEF Init, NoCycle, Idle, ActionNeedsFinal, FinalNeedsAction, FinalizersKnow, Finalizing
<1>2. OrderInv /\ ActionNeedsFinal /\ FinalNeedsAction /\ FinalizersKnow /\ [Next]_vars
        => (ActionNeedsFinal /\ FinalNeedsAction /\ FinalizersKnow)'
  BY ActionNeedsFinalStep, FinalNeedsActionStep, FinalizersKnowStep DEF OrderInv, ChargeInv
<1> QED
  BY <1>1, <1>2, OrderInvCorrect, PTL DEF Spec, PromiseInv

(* What one write of a charge, or of one cycle's row, is to the promise. *)
LEMMA AttemptWrite ==
  ASSUME TypeOK, NEW c \in Dates, NEW n \in 0 .. LastTry, NEW r,
         charge' = [charge EXCEPT ![Payment(c, n)] = r]
  PROVE  Attempts' = [Attempts EXCEPT ![c][n] = r]
<1>1. /\ charge \in [Job -> ChargeState]
      /\ \A d \in Dates, m \in 0 .. LastTry : Payment(d, m) \in Job
  BY DEF TypeOK, Payment, Job, Kinds
<1>2. ASSUME NEW d \in Dates, NEW m \in 0 .. LastTry
      PROVE  charge'[Payment(d, m)] = IF d = c /\ m = n THEN r ELSE charge[Payment(d, m)]
  <2>1. Payment(d, m) = Payment(c, n) <=> d = c /\ m = n
    BY DEF Payment
  <2> QED
    BY <1>1, <2>1
<1>3. [Attempts EXCEPT ![c][n] = r]
        = [d \in Dates |-> [m \in 0 .. LastTry |->
              IF d = c /\ m = n THEN r ELSE charge[Payment(d, m)]]]
  BY DEF Attempts
<1>4. Attempts' = [d \in Dates |-> [m \in 0 .. LastTry |-> charge'[Payment(d, m)]]]
  BY DEF Attempts
<1>5. \A d \in Dates :
        [m \in 0 .. LastTry |-> charge'[Payment(d, m)]]
          = [m \in 0 .. LastTry |-> IF d = c /\ m = n THEN r ELSE charge[Payment(d, m)]]
  BY <1>2
<1> QED
  BY <1>3, <1>4, <1>5

LEMMA RowWrite ==
  ASSUME TypeOK, NEW c \in Dates, NEW r, cycle' = [cycle EXCEPT ![c] = r]
  PROVE  /\ r.status = "succeeded" => PaidDates' = PaidDates \cup {c}
         /\ r.status # "succeeded" => PaidDates' = PaidDates \ {c}
         /\ (r.status = "succeeded" <=> cycle[c].status = "succeeded") => PaidDates' = PaidDates
         /\ ActionOf' = [ActionOf EXCEPT ![c] = r.action]
         /\ r.action = cycle[c].action => ActionOf' = ActionOf
         /\ r.final = "succeeded" => DoneDates' = DoneDates \cup {c}
         /\ r.final = cycle[c].final => DoneDates' = DoneDates
<1>1. /\ cycle \in [Dates -> CycleRow] /\ cycle'[c] = r
      /\ \A d \in Dates \ {c} : cycle'[d] = cycle[d]
  BY DEF TypeOK
<1>2. /\ r.status = "succeeded" => PaidDates' = PaidDates \cup {c}
      /\ r.status # "succeeded" => PaidDates' = PaidDates \ {c}
      /\ (r.status = "succeeded" <=> cycle[c].status = "succeeded") => PaidDates' = PaidDates
  BY <1>1 DEF PaidDates
<1>3. /\ ActionOf' = [ActionOf EXCEPT ![c] = r.action]
      /\ r.action = cycle[c].action => ActionOf' = ActionOf
  BY <1>1 DEF ActionOf
<1>4. /\ r.final = "succeeded" => DoneDates' = DoneDates \cup {c}
      /\ r.final = cycle[c].final => DoneDates' = DoneDates
  BY <1>1 DEF DoneDates
<1> QED
  BY <1>2, <1>3, <1>4

(* A payment call asks for an attempt, or finds one that was asked for. *)
LEMMA CallPromise ==
  ASSUME PromiseInv, NEW w \in Workers, CallPayment(w)
  PROVE  Promise!Next \/ UNCHANGED Promise!vars
<1> DEFINE j == worker[w].task
<1>i. /\ TypeOK /\ charge \in [Job -> ChargeState] /\ j \in Job /\ j.kind = "PAYMENT"
      /\ j.cycle \in Dates /\ j.n \in 0 .. LastTry /\ j = Payment(j.cycle, j.n)
      /\ UNCHANGED <<orders, cycle>>
  BY JobFields DEF PromiseInv, OrderInv, ChargeInv, TypeOK, WorkerState, CallPayment, Payment, Job
<1>1. PICK s \in Outcomes(charge[j], worker[w].uncertain) : charge' = [charge EXCEPT ![j] = s]
  BY DEF CallPayment
<1>2. /\ charge[j] # "none" => s = charge[j]
      /\ s \in ChargeState
  BY <1>1, <1>i DEF Outcomes, ChargeState
<1>3. CASE s = charge[j]
  <2>1. charge' = charge
    BY <1>1, <1>3, <1>i
  <2> QED
    BY <2>1, <1>i DEF Promise!vars, Attempts, PaidDates, ActionOf, DoneDates
<1>4. CASE s # charge[j]
  <2>1. charge[j] = "none" /\ s \in Promise!Results
    BY <1>2, <1>4 DEF ChargeState, Promise!Results
  <2>2. Exists(j)
    BY DEF PromiseInv, OrderInv, ChargeInv, HeldJobsExist, HoldingJob, CallPayment, At
  <2>3. \A m \in 0 .. LastTry : m < j.n => Attempts[j.cycle][m] = "declined"
    BY <1>i, <2>2 DEF PromiseInv, OrderInv, ChargeInv, ChargesInTurn, Attempts
  <2>4. Attempts[j.cycle][j.n] = "none"
    BY <1>i, <2>1 DEF Attempts
  <2>5. Attempts' = [Attempts EXCEPT ![j.cycle][j.n] = s]
    BY ZenonT(40), <1>i, <1>1, AttemptWrite
  <2>6. UNCHANGED <<orders, PaidDates, ActionOf, DoneDates>>
    BY <1>i DEF PaidDates, ActionOf, DoneDates
  <2>7. Promise!Ask(j.cycle, j.n)
    BY <2>1, <2>3, <2>4, <2>5, <2>6 DEF Promise!Ask, Promise!InTurn
  <2> QED
    BY <1>i, <2>7 DEF Promise!Next
<1> QED
  BY <1>3, <1>4

LEMMA SettlePromise ==
  ASSUME PromiseInv, NEW j \in Job, Settle(j)
  PROVE  Promise!Next
<1>i. TypeOK /\ charge[j] = "pending" /\ UNCHANGED <<orders, cycle>>
  BY DEF PromiseInv, OrderInv, ChargeInv, Settle
<1>1. j.kind = "PAYMENT"
  BY <1>i DEF PromiseInv, OrderInv, ChargeInv, ChargesInTurn, Live
<1>2. j.cycle \in Dates /\ j.n \in 0 .. LastTry /\ j = Payment(j.cycle, j.n)
  BY <1>1, JobFields DEF Payment, Job
<1>3. PICK s \in {"declined", "charged"} : charge' = [charge EXCEPT ![j] = s]
  BY DEF Settle
<1>4. Attempts' = [Attempts EXCEPT ![j.cycle][j.n] = s]
  <2> DEFINE c == j.cycle
             n == j.n
  <2>1. charge' = [charge EXCEPT ![Payment(c, n)] = s] /\ c \in Dates /\ n \in 0 .. LastTry
    BY <1>2, <1>3
  <2> HIDE DEF c, n
  <2>2. Attempts' = [Attempts EXCEPT ![c][n] = s]
    BY <1>i, <2>1, AttemptWrite
  <2> QED
    BY <2>2 DEF c, n
<1>5. Attempts[j.cycle][j.n] = "pending"
  BY <1>i, <1>2 DEF Attempts
<1>6. UNCHANGED <<orders, PaidDates, ActionOf, DoneDates>>
  BY <1>i DEF PaidDates, ActionOf, DoneDates
<1>7. Promise!Settle(j.cycle, j.n)
  BY <1>4, <1>5, <1>6 DEF Promise!Settle
<1> QED
  BY <1>2, <1>7 DEF Promise!Next

LEMMA RowKept ==
  ASSUME TypeOK, NEW c \in Dates, NEW r, cycle' = [cycle EXCEPT ![c] = r],
         r.status = cycle[c].status, r.action = cycle[c].action, r.final = cycle[c].final
  PROVE  UNCHANGED <<PaidDates, ActionOf, DoneDates>>
<1>1. PaidDates' = PaidDates
  BY RowWrite
<1>2. ActionOf' = ActionOf
  BY RowWrite
<1>3. DoneDates' = DoneDates
  BY RowWrite
<1> QED
  BY <1>1, <1>2, <1>3

(* The two writers of orders book a charge, or an attempt from outside. *)
LEMMA BookPromise ==
  ASSUME PromiseInv, NEW c \in Dates, NEW n \in 0 .. Outside,
         n # Outside => charge[Payment(c, n)] = "charged",
         orders' = [orders EXCEPT ![c] = @ \cup {n}], UNCHANGED charge,
         NEW r, cycle' = [cycle EXCEPT ![c] = r], r.status = "succeeded",
         r.action = cycle[c].action, r.final = cycle[c].final
  PROVE  Promise!Next
<1>1. PaidDates' = PaidDates \cup {c} /\ UNCHANGED <<ActionOf, DoneDates>>
  BY RowWrite DEF PromiseInv, OrderInv, ChargeInv
<1>2. UNCHANGED Attempts
  BY DEF Attempts
<1>3. n \in (0 .. LastTry) \cup {Outside}
  BY LastTryType DEF Outside
<1>4. n # Outside => Attempts[c][n] = "charged"
  BY <1>3 DEF Attempts
<1>5. Promise!Book(c, n)
  BY <1>1, <1>2, <1>4 DEF Promise!Book
<1> QED
  BY <1>3, <1>5 DEF Promise!Next

LEMMA PaymentPromise ==
  ASSUME PromiseInv, NEW w \in Workers, PaymentSucceeded(w)
  PROVE  Promise!Next
<1> DEFINE j == worker[w].task
           r == [cycle[j.cycle] EXCEPT !.status = "succeeded"]
<1>i. TypeOK /\ j \in Job /\ cycle \in [Dates -> CycleRow]
  BY DEF PromiseInv, OrderInv, ChargeInv, TypeOK, WorkerState
<1>1. j.cycle \in Dates /\ j.n \in 0 .. LastTry /\ j.n \in 0 .. Outside
  BY <1>i, JobFields, LastTryType DEF Outside
<1>2. j.kind = "PAYMENT" /\ charge[j] = "charged"
  BY DEF PromiseInv, OrderInv, ChargeInv, AnswersHold, AnswerHolds, PaymentSucceeded, At
<1>3. j = Payment(j.cycle, j.n)
  BY <1>i, <1>2 DEF Payment, Job
<1>4. /\ orders' = [orders EXCEPT ![j.cycle] = @ \cup {j.n}] /\ UNCHANGED charge
      /\ cycle' = [cycle EXCEPT ![j.cycle] = r]
  BY <1>i DEF PaymentSucceeded
<1>5. /\ r.status = "succeeded" /\ r.action = cycle[j.cycle].action
      /\ r.final = cycle[j.cycle].final
  BY <1>i, <1>1 DEF CycleRow
<1> HIDE DEF r
<1> QED
  BY <1>1, <1>2, <1>3, <1>4, <1>5, BookPromise

LEMMA RecordPromise ==
  ASSUME PromiseInv, NEW c \in Dates, RecordBillingAttempt(c)
  PROVE  Promise!Next
<1>i. TypeOK /\ cycle \in [Dates -> CycleRow]
  BY DEF PromiseInv, OrderInv, ChargeInv, TypeOK
<1>1. PICK n \in 0 .. Outside : /\ n # Outside => charge[Payment(c, n)] = "charged"
                                /\ orders' = [orders EXCEPT ![c] = @ \cup {n}]
  BY DEF RecordBillingAttempt
<1>2. PICK dated \in BOOLEAN :
        cycle' = [cycle EXCEPT ![c] = [@ EXCEPT !.status = "succeeded", !.advanced = dated]]
  BY DEF RecordBillingAttempt
<1> DEFINE r == [cycle[c] EXCEPT !.status = "succeeded", !.advanced = dated]
<1>3. cycle' = [cycle EXCEPT ![c] = r]
  BY <1>i, <1>2
<1>4. r.status = "succeeded" /\ r.action = cycle[c].action /\ r.final = cycle[c].final
  BY <1>i DEF CycleRow
<1>5. UNCHANGED charge
  BY DEF RecordBillingAttempt
<1> HIDE DEF r
<1> QED
  BY <1>1, <1>3, <1>4, <1>5, BookPromise

(* The other writers of a cycle. *)
LEMMA SeedPromise ==
  ASSUME PromiseInv, NEW w \in Workers, SeedCycle(w)
  PROVE  Promise!Next \/ UNCHANGED Promise!vars
<1> DEFINE c == subscription.nextBillingAt
           r == [cycle[c] EXCEPT !.status = IF c \in complete THEN "succeeded"
                                            ELSE IF @ = "absent" THEN "pending" ELSE @]
<1>i. TypeOK /\ cycle \in [Dates -> CycleRow] /\ c \in Dates
  <2>1. TypeOK /\ today \in 1 .. Cycles /\ cycle \in [Dates -> CycleRow]
    BY DEF PromiseInv, OrderInv, ChargeInv, TypeOK, Dates
  <2>2. c \in 1 .. today
    BY DEF SeedCycle
  <2>3. c \in 1 .. Cycles
    BY <2>1, <2>2, ConstantsAssumption
  <2> QED
    BY <2>1, <2>3 DEF Dates
<1>1. cycle' = [cycle EXCEPT ![c] = r] /\ UNCHANGED <<charge, orders>>
  BY DEF SeedCycle
<1>2. /\ r.action = cycle[c].action /\ r.final = cycle[c].final
      /\ r.status = "succeeded" <=> (c \in complete \/ cycle[c].status = "succeeded")
  BY <1>i DEF CycleRow
<1> HIDE DEF r
<1> HIDE DEF c
<1>3. UNCHANGED <<ActionOf, DoneDates, Attempts, orders>>
  <2>1. ActionOf' = ActionOf
    BY <1>i, <1>1, <1>2, RowWrite
  <2>2. DoneDates' = DoneDates
    BY <1>i, <1>1, <1>2, RowWrite
  <2> QED
    BY <1>1, <2>1, <2>2 DEF Attempts
<1>4. CASE c \in complete
  <2>1. PaidDates' = PaidDates \cup {c}
    BY <1>i, <1>1, <1>2, <1>4, RowWrite
  <2>2. Promise!Recognise(c)
    BY <1>i, <1>3, <1>4, <2>1 DEF Promise!Recognise, PromiseInv, OrderInv, OrdersPaid
  <2> QED
    BY <1>i, <2>2 DEF Promise!Next
<1>5. CASE c \notin complete
  <2>1. PaidDates' = PaidDates
    BY <1>i, <1>1, <1>2, <1>5, RowWrite
  <2> QED
    BY <1>3, <2>1 DEF Promise!vars
<1> QED
  BY <1>4, <1>5

LEMMA DecidePromise ==
  ASSUME PromiseInv, NEW w \in Workers, HandleUncertain(w) \/ FailOrReschedule(w)
  PROVE  Promise!Next \/ UNCHANGED Promise!vars
<1>i. TypeOK /\ cycle \in [Dates -> CycleRow] /\ worker[w].task \in Job
  BY DEF PromiseInv, OrderInv, ChargeInv, TypeOK, WorkerState
<1>1. UNCHANGED <<orders, Attempts>>
  BY DEF HandleUncertain, FailOrReschedule, Attempts
<1>2. PICK j \in Job : cycle' = cycle \/ cycle' = WithFinalAction(j)
  BY <1>i DEF HandleUncertain, FailOrReschedule
<1> DEFINE c == j.cycle
           a == FailureAction[j.kind]
           r == [cycle[c] EXCEPT !.final = "pending", !.action = a]
<1>3. c \in Dates /\ a \in Actions
  BY JobFields, ConstantsAssumption
<1>4. CASE cycle' = cycle
  BY <1>1, <1>4 DEF Promise!vars, PaidDates, ActionOf, DoneDates
<1>5. CASE cycle[c].final = "none" /\ cycle' = [cycle EXCEPT ![c] = r]
  <2>1. /\ r.status = cycle[c].status /\ r.action = a /\ r.final = "pending"
        /\ cycle[c].action = "none"
    BY <1>i, <1>3, <1>5 DEF CycleRow, PromiseInv, ActionNeedsFinal
  <2> HIDE DEF r, a
  <2>2. /\ UNCHANGED <<PaidDates, DoneDates>> /\ ActionOf' = [ActionOf EXCEPT ![c] = a]
    <3>1. UNCHANGED PaidDates /\ ActionOf' = [ActionOf EXCEPT ![c] = a]
      BY ZenonT(40), <1>i, <1>3, <1>5, <2>1, RowWrite
    <3>2. \A d \in Dates : cycle'[d].final = "succeeded" <=> cycle[d].final = "succeeded"
      BY <1>i, <1>3, <1>5, <2>1
    <3> QED
      BY <3>1, <3>2 DEF DoneDates
  <2>3. ActionOf[c] = "none" /\ c \notin DoneDates
    BY <1>3, <1>5, <2>1 DEF ActionOf, DoneDates
  <2>4. Promise!Decide(c, a)
    BY <1>1, <2>2, <2>3 DEF Promise!Decide
  <2> QED
    BY <1>3, <2>4 DEF Promise!Next
<1>6. cycle' = cycle \/ (cycle[c].final = "none" /\ cycle' = [cycle EXCEPT ![c] = r])
  BY <1>i, <1>2 DEF WithFinalAction
<1> QED
  BY <1>4, <1>5, <1>6

LEMMA FinalPromise ==
  ASSUME PromiseInv, NEW w \in Workers, ClaimFinalAction(w) \/ FinalizeCycle(w)
  PROVE  Promise!Next \/ UNCHANGED Promise!vars
<1> DEFINE c == worker[w].task.cycle
<1>i. TypeOK /\ cycle \in [Dates -> CycleRow] /\ c \in Dates /\ cycle[c] \in CycleRow
  BY JobFields DEF PromiseInv, OrderInv, ChargeInv, TypeOK, WorkerState
<1>1. UNCHANGED <<orders, Attempts>>
  BY DEF ClaimFinalAction, FinalizeCycle, Attempts
<1>2. CASE ClaimFinalAction(w)
  <2> DEFINE r == [cycle[c] EXCEPT !.final = "processing", !.leased = TRUE]
  <2>1. cycle' = cycle \/ (FinalActionDue(c) /\ cycle' = [cycle EXCEPT ![c] = r])
    BY <1>2, <1>i DEF ClaimFinalAction
  <2>2. r.status = cycle[c].status /\ r.action = cycle[c].action /\ r.final = "processing"
    BY <1>i DEF CycleRow
  <2>3. FinalActionDue(c) => cycle[c].final # "succeeded"
    BY DEF FinalActionDue
  <2> HIDE DEF r
  <2>4. UNCHANGED <<PaidDates, ActionOf, DoneDates>>
    <3>1. CASE cycle' = cycle
      BY <3>1 DEF PaidDates, ActionOf, DoneDates
    <3>2. CASE FinalActionDue(c) /\ cycle' = [cycle EXCEPT ![c] = r]
      <4>1. PaidDates' = PaidDates /\ ActionOf' = ActionOf
        <5>1. PaidDates' = PaidDates
          BY ZenonT(40), <1>i, <2>2, <3>2, RowWrite
        <5>2. ActionOf' = ActionOf
          BY <1>i, <2>2, <3>2, RowWrite
        <5> QED
          BY <5>1, <5>2
      <4>2. \A d \in Dates : cycle'[d].final = "succeeded" <=> cycle[d].final = "succeeded"
        BY <1>i, <2>2, <2>3, <3>2
      <4> QED
        BY <4>1, <4>2 DEF DoneDates
    <3> QED
      BY <2>1, <3>1, <3>2
  <2> QED
    BY <1>1, <2>4 DEF Promise!vars
<1>3. CASE FinalizeCycle(w)
  <2> DEFINE skip == cycle[c].action = "SKIP"
             r == [cycle[c] EXCEPT !.status = IF skip THEN "skipped" ELSE "finalized",
                                   !.final = "succeeded", !.leased = FALSE,
                                   !.advanced = skip \/ worker[w].advanced]
  <2>1. cycle' = [cycle EXCEPT ![c] = r]
    BY <1>3, <1>i DEF FinalizeCycle
  <2>2. r.status # "succeeded" /\ r.action = cycle[c].action /\ r.final = "succeeded"
    BY <1>i DEF CycleRow
  <2> HIDE DEF r
  <2>3. /\ PaidDates' = PaidDates \ {c} /\ DoneDates' = DoneDates \cup {c}
        /\ UNCHANGED ActionOf
    BY <1>i, <2>1, <2>2, RowWrite
  <2>4. ActionOf[c] # "none"
    BY <1>i, <1>3 DEF ActionOf, PromiseInv, FinalNeedsAction, FinalizersKnow, Finalizing,
                      FinalizeCycle, At
  <2>5. Promise!Act(c)
    BY <1>1, <2>3, <2>4 DEF Promise!Act
  <2> QED
    BY <1>i, <2>5 DEF Promise!Next
<1> QED
  BY <1>2, <1>3

LEMMA LeasePromise ==
  ASSUME PromiseInv, NEW c \in Dates, FinalLeaseLapses(c)
  PROVE  UNCHANGED Promise!vars
<1> DEFINE r == [cycle[c] EXCEPT !.leased = FALSE]
<1>1. TypeOK /\ cycle \in [Dates -> CycleRow] /\ cycle' = [cycle EXCEPT ![c] = r]
  BY DEF PromiseInv, OrderInv, ChargeInv, TypeOK, FinalLeaseLapses
<1>2. r.status = cycle[c].status /\ r.action = cycle[c].action /\ r.final = cycle[c].final
  BY <1>1 DEF CycleRow
<1> HIDE DEF r
<1>3. UNCHANGED <<PaidDates, ActionOf, DoneDates>>
  BY <1>1, <1>2, RowKept
<1>4. UNCHANGED <<orders, Attempts>>
  BY DEF FinalLeaseLapses, Attempts
<1> QED
  BY <1>3, <1>4 DEF Promise!vars

(* With an App that answers "failed" only of a closed attempt, the engine  *)
(* implements CycleBilling, for any number of invocations, dates, retries  *)
(* and faults: attempts in turn, orders of charges, one final action.      *)
THEOREM ImplementsBillingCorrect ==
  ASSUME ~AppMayReject
  PROVE  Spec => ImplementsBilling
<1>1. Init => Promise!Init
  <2> SUFFICES ASSUME Init PROVE Promise!Init
    OBVIOUS
  <2>1. Attempts = [c \in Dates |-> [n \in 0 .. LastTry |-> "none"]]
    BY DEF Init, Attempts, Payment, Job, Kinds
  <2>2. PaidDates = {} /\ DoneDates = {} /\ ActionOf = [c \in Dates |-> "none"]
    BY DEF Init, PaidDates, DoneDates, ActionOf, NoCycle
  <2> QED
    BY <2>1, <2>2 DEF Init, Promise!Init
<1>2. PromiseInv /\ [Next]_vars => [Promise!Next]_(Promise!vars)
  <2> SUFFICES ASSUME PromiseInv, [Next]_vars
               PROVE  Promise!Next \/ UNCHANGED Promise!vars
    OBVIOUS
  <2>t. TypeOK
    BY DEF PromiseInv, OrderInv, ChargeInv
  <2>1. ASSUME UNCHANGED <<charge, orders, cycle>>
        PROVE  UNCHANGED Promise!vars
    BY <2>1 DEF Promise!vars, Attempts, PaidDates, ActionOf, DoneDates
  <2>2. ASSUME NEW w \in Workers, CallPayment(w) \/ PaymentSucceeded(w) \/ SeedCycle(w)
               \/ HandleUncertain(w) \/ FailOrReschedule(w) \/ ClaimFinalAction(w)
               \/ FinalizeCycle(w)
        PROVE  Promise!Next \/ UNCHANGED Promise!vars
    BY <2>2, CallPromise, PaymentPromise, SeedPromise, DecidePromise, FinalPromise
  <2>3. ASSUME NEW c \in Dates, FinalLeaseLapses(c) \/ RecordBillingAttempt(c)
        PROVE  Promise!Next \/ UNCHANGED Promise!vars
    BY <2>3, LeasePromise, RecordPromise
  <2>4. ASSUME NEW j \in Job, Settle(j)
        PROVE  Promise!Next
    BY <2>4, SettlePromise
  <2> QED
    BY <2>t, <2>1, <2>2, <2>3, <2>4, ChargeStep, OrderWriters, CycleWriters
<1> QED
  BY <1>1, <1>2, PromiseInvCorrect, PTL DEF Spec, ImplementsBilling, Promise!Spec
=============================================================================
