-------------------------- MODULE GiftEngineProofs --------------------------
(***************************************************************************)
(* Theorems about GiftEngine: for any workers, variants and attempts, and  *)
(* any number of faults. What a promise about the gift excepts is in the   *)
(* property itself: see Exposures.                                         *)
(***************************************************************************)
EXTENDS GiftEngine, FiniteSetTheorems, TLAPS

Pcs == {"idle"} \cup Deciding \cup Editing \cup Checking

LEMMA PcSets == Pcs = {"idle", "read", "shop", "settings", "order", "stock", "intent", "skip",
                       "edit", "commit", "close", "uncertain", "scope", "requeue",
                       "find", "confirm", "query", "free", "charged", "mark"}
  BY DEF Pcs, Deciding, Editing, Checking

LEMMA Constants == /\ NoVariant \notin Variants /\ MaxAttempts \in Nat /\ MaxFaults \in Nat
  BY GiftAssumption

-----------------------------------------------------------------------------
(* Type correctness. What a worker is about to write is known too: its     *)
(* status when it closes the job, its variant when it gives one.           *)

Prepared(r) == /\ r.pc \in {"close", "skip"} => r.result \in Closed
               /\ r.pc \in {"intent", "edit", "commit"} => r.variant \in Variants
TypeInv == TypeOK /\ \A w \in Workers : Prepared(worker[w])

(* The steps of w: how they change workers. *)
LEMMA GotoMove ==
  ASSUME TypeInv, NEW w \in Workers, NEW pc \in Pcs, Goto(w, pc)
  PROVE  /\ worker' \in [Workers -> WorkerState]
         /\ worker'[w].pc = pc /\ worker'[w].variant = worker[w].variant
         /\ worker'[w].result = worker[w].result
         /\ \A v \in Workers \ {w} : worker'[v] = worker[v]
<1>1. worker \in [Workers -> WorkerState] /\ worker[w] \in WorkerState
  BY DEF TypeInv, TypeOK
<1>2. [worker[w] EXCEPT !.pc = pc] \in WorkerState
  BY <1>1 DEF WorkerState, Pcs
<1>3. worker' = [worker EXCEPT ![w] = [worker[w] EXCEPT !.pc = pc]]
  BY <1>1 DEF Goto
<1>4. worker'[w] = [worker[w] EXCEPT !.pc = pc]
  BY <1>1, <1>3
<1> QED
  BY <1>1, <1>2, <1>3, <1>4 DEF WorkerState

LEMMA RestMove ==
  ASSUME TypeInv, NEW w \in Workers, Rest(w)
  PROVE  /\ worker' \in [Workers -> WorkerState] /\ worker'[w].pc = "idle"
         /\ \A v \in Workers \ {w} : worker'[v] = worker[v]
<1>1. worker \in [Workers -> WorkerState]
  BY DEF TypeInv, TypeOK
<1>2. Idle \in WorkerState /\ Idle.pc = "idle"
  BY DEF Idle, WorkerState
<1> QED
  BY <1>1, <1>2 DEF Rest

LEMMA ConcludeMove ==
  ASSUME TypeInv, NEW w \in Workers, NEW pc \in {"close", "skip"}, NEW status \in Closed,
         NEW review \in BOOLEAN, Conclude(w, pc, status, review)
  PROVE  /\ worker' \in [Workers -> WorkerState]
         /\ worker'[w].pc = pc /\ worker'[w].result = status
         /\ \A v \in Workers \ {w} : worker'[v] = worker[v]
<1> DEFINE r == [worker[w] EXCEPT !.pc = pc, !.result = status, !.review = review]
<1>1. worker \in [Workers -> WorkerState] /\ worker[w] \in WorkerState
  BY DEF TypeInv, TypeOK
<1>2. r \in WorkerState /\ r.pc = pc /\ r.result = status
  BY <1>1 DEF WorkerState, Deciding, Editing
<1>3. worker' = [worker EXCEPT ![w] = r]
  BY <1>1 DEF Conclude
<1> HIDE DEF r
<1> QED
  BY <1>1, <1>2, <1>3

(* The moves that also record something: what was read, chosen or counted. *)
LEMMA ReadMoves ==
  ASSUME TypeInv, NEW w \in Workers
  PROVE  /\ Claim(w) => \/ UNCHANGED worker
                        \/ /\ worker' \in [Workers -> WorkerState] /\ worker'[w].pc = "read"
                           /\ \A v \in Workers \ {w} : worker'[v] = worker[v]
         /\ Read(w) => /\ worker' \in [Workers -> WorkerState] /\ worker'[w].pc = "shop"
                       /\ \A v \in Workers \ {w} : worker'[v] = worker[v]
         /\ RecoverStale(w) => /\ worker' \in [Workers -> WorkerState] /\ worker'[w].pc = "find"
                               /\ \A v \in Workers \ {w} : worker'[v] = worker[v]
<1> DEFINE c == [Idle EXCEPT !.pc = "read", !.attempts = job.attempts]
           d == [worker[w] EXCEPT !.pc = "shop", !.edit = job.attempts]
           e == [Idle EXCEPT !.pc = "find", !.recovering = TRUE]
<1>1. /\ worker \in [Workers -> WorkerState] /\ worker[w] \in WorkerState
      /\ job.attempts \in Nat
  BY DEF TypeInv, TypeOK, JobRow
<1>2. c \in WorkerState /\ c.pc = "read"
  BY <1>1 DEF Idle, WorkerState, Deciding
<1>3. d \in WorkerState /\ d.pc = "shop"
  BY <1>1 DEF WorkerState, Deciding
<1>4. e \in WorkerState /\ e.pc = "find"
  BY DEF Idle, WorkerState, Checking
<1>5. /\ Claim(w) => (UNCHANGED worker \/ worker' = [worker EXCEPT ![w] = c])
      /\ Read(w) => worker' = [worker EXCEPT ![w] = d]
      /\ RecoverStale(w) => worker' = [worker EXCEPT ![w] = e]
  BY <1>1 DEF Claim, Read, RecoverStale
<1> HIDE DEF c, d, e
<1> QED
  BY <1>1, <1>2, <1>3, <1>4, <1>5

LEMMA ChoiceMoves ==
  ASSUME TypeInv, NEW w \in Workers
  PROVE  /\ \A x \in Variants : ChooseVariant(w, x) =>
               /\ worker' \in [Workers -> WorkerState] /\ worker'[w].pc = "intent"
               /\ worker'[w].variant = x
               /\ \A v \in Workers \ {w} : worker'[v] = worker[v]
         /\ PersistIntent(w) =>
               /\ worker' \in [Workers -> WorkerState] /\ worker'[w].pc = "edit"
               /\ worker'[w].variant = worker[w].variant
               /\ \A v \in Workers \ {w} : worker'[v] = worker[v]
         /\ ReadChoice(w) =>
               \/ Confirmed(w)
               \/ /\ worker' \in [Workers -> WorkerState] /\ worker'[w].pc = "query"
                  /\ \A v \in Workers \ {w} : worker'[v] = worker[v]
<1> DEFINE c(x) == [worker[w] EXCEPT !.pc = "intent", !.variant = x]
           d == [worker[w] EXCEPT !.pc = "edit", !.attempts = worker[w].edit,
                                  !.edit = job.attempts + 1]
           e == [worker[w] EXCEPT !.pc = "query", !.variant = job.variant]
<1>1. /\ worker \in [Workers -> WorkerState] /\ worker[w] \in WorkerState
      /\ job.attempts \in Nat /\ job.variant \in Variants \cup {NoVariant}
  BY DEF TypeInv, TypeOK, JobRow
<1>2. \A x \in Variants : c(x) \in WorkerState /\ c(x).pc = "intent" /\ c(x).variant = x
  BY <1>1 DEF WorkerState, Deciding
<1>3. d \in WorkerState /\ d.pc = "edit" /\ d.variant = worker[w].variant
  <2> DEFINE n == job.attempts + 1
             m == worker[w].edit
  <2>1. n \in Nat /\ m \in Nat
    BY <1>1 DEF WorkerState
  <2> HIDE DEF n, m
  <2>2. [worker[w] EXCEPT !.pc = "edit", !.attempts = m, !.edit = n] \in WorkerState
    BY <1>1, <2>1 DEF WorkerState, Editing
  <2> QED
    BY <1>1, <2>2 DEF WorkerState, n, m
<1>4. e \in WorkerState /\ e.pc = "query"
  BY <1>1 DEF WorkerState, Checking
<1>5. /\ \A x \in Variants : ChooseVariant(w, x) => worker' = [worker EXCEPT ![w] = c(x)]
      /\ PersistIntent(w) => worker' = [worker EXCEPT ![w] = d]
      /\ ReadChoice(w) => (Confirmed(w) \/ worker' = [worker EXCEPT ![w] = e])
  BY <1>1 DEF ChooseVariant, PersistIntent, ReadChoice
<1> HIDE DEF c, d, e
<1>6. ASSUME NEW x \in Variants, ChooseVariant(w, x)
      PROVE  /\ worker' \in [Workers -> WorkerState] /\ worker'[w].pc = "intent"
             /\ worker'[w].variant = x
             /\ \A v \in Workers \ {w} : worker'[v] = worker[v]
  BY <1>1, <1>2, <1>5, <1>6
<1>7. PersistIntent(w) =>
        /\ worker' \in [Workers -> WorkerState] /\ worker'[w].pc = "edit"
        /\ worker'[w].variant = worker[w].variant
        /\ \A v \in Workers \ {w} : worker'[v] = worker[v]
  BY <1>1, <1>3, <1>5
<1>8. ReadChoice(w) =>
        \/ Confirmed(w)
        \/ /\ worker' \in [Workers -> WorkerState] /\ worker'[w].pc = "query"
           /\ \A v \in Workers \ {w} : worker'[v] = worker[v]
  BY <1>1, <1>4, <1>5
<1> QED
  BY <1>6, <1>7, <1>8

(* Confirmed, DecisionFails: the two ends that several steps share.        *)
LEMMA EndMoves ==
  ASSUME TypeInv, NEW w \in Workers
  PROVE  /\ Confirmed(w) => /\ worker' \in [Workers -> WorkerState]
                            /\ worker'[w].pc \in {"idle", "mark"}
                            /\ \A v \in Workers \ {w} : worker'[v] = worker[v]
         /\ DecisionFails(w) => /\ worker' \in [Workers -> WorkerState]
                                /\ worker'[w].pc \in {"idle", "requeue"}
                                /\ \A v \in Workers \ {w} : worker'[v] = worker[v]
<1>1. "mark" \in Pcs /\ "requeue" \in Pcs
  BY PcSets
<1>2. Confirmed(w) => Goto(w, "mark") \/ Rest(w)
  BY DEF Confirmed
<1>3. DecisionFails(w) => Goto(w, "requeue") \/ Rest(w)
  BY DEF DecisionFails
<1> QED
  BY <1>1, <1>2, <1>3, GotoMove, RestMove

(* The steps that change neither the job nor the order. None brings a      *)
(* worker nearer to a gift than it was: none starts a decision or passes   *)
(* the intent.                                                             *)
Quiet(w) ==
    \/ Read(w) \/ CheckShop(w) \/ CheckSettings(w) \/ FetchOrder(w)
    \/ \E v \in Variants : ChooseVariant(w, v)
    \/ NoStock(w) \/ CallFails(w) \/ EditOrder(w) \/ CommitRejected(w) \/ CommitErrors(w)
    \/ FindUncertain(w) \/ ReadChoice(w) \/ QueryLines(w) \/ QueryFails(w)
    \/ Crash(w) \/ StatementFails(w)

Past == Editing \ {"requeue"}   \* past the intent

(* The gift is made, or may come: what came of it is to be written.        *)
GiftMade(r) == r.pc = "uncertain" \/ (r.pc = "close" /\ r.result = "COMMITTED")

LEMMA QuietMove ==
  ASSUME TypeInv, NEW w \in Workers, Quiet(w)
  PROVE  /\ UNCHANGED <<job, order>>
         /\ worker' \in [Workers -> WorkerState]
         /\ \A v \in Workers \ {w} : worker'[v] = worker[v]
         /\ Prepared(worker'[w])
         /\ worker'[w].pc \in Pushing => worker[w].pc \in Pushing
         /\ worker'[w].pc \in Past => worker[w].pc \in Past
         /\ GiftMade(worker[w]) /\ "unrecorded" \notin exposed' =>
               worker'[w].pc \notin Pushing
         /\ worker'[w].pc = "free" => order.lines # {}
         /\ worker'[w].pc \in {"close", "skip"} /\ "misread" \notin exposed' =>
               worker'[w].result # "COMMITTED"
<1> DEFINE Moved == /\ worker' \in [Workers -> WorkerState]
                    /\ \A v \in Workers \ {w} : worker'[v] = worker[v]
<1> USE DEF At, GiftMade
<1>p. Prepared(worker[w]) /\ Closed = {"SKIPPED", "FAILED", "COMMITTED"}
  BY DEF TypeInv, Closed
<1>0. UNCHANGED <<job, order>>
  BY DEF Quiet, Read, CheckShop, CheckSettings, FetchOrder, ChooseVariant, NoStock, CallFails,
         EditOrder, CommitRejected, CommitErrors, FindUncertain, ReadChoice, QueryLines,
         QueryFails, Crash, StatementFails, OnlyWorker
<1>1. CASE Read(w)
  BY <1>0, <1>1, ReadMoves DEF Read, Prepared, Deciding, Editing, Pushing, Past
<1>2. CASE CheckShop(w) \/ CheckSettings(w) \/ FetchOrder(w) \/ NoStock(w)
  <2>1. /\ worker[w].pc \in {"shop", "settings", "order", "stock"}
        /\ \/ \E pc \in {"settings", "order", "stock"} : Goto(w, pc)
           \/ \E s \in {"SKIPPED", "FAILED"}, b \in BOOLEAN : Conclude(w, "skip", s, b)
    BY <1>2 DEF CheckShop, CheckSettings, FetchOrder, NoStock
  <2>2. /\ Moved
        /\ \/ worker'[w].pc \in {"settings", "order", "stock"}
           \/ worker'[w].pc = "skip" /\ worker'[w].result \in {"SKIPPED", "FAILED"}
    BY <2>1, <1>p, GotoMove, ConcludeMove, PcSets
  <2> QED
    BY <1>0, <1>p, <2>1, <2>2 DEF Prepared, Deciding, Editing, Pushing, Past
<1>3. CASE \E x \in Variants : ChooseVariant(w, x)
  <2>1. worker[w].pc = "stock"
    BY <1>3 DEF ChooseVariant
  <2>2. Moved /\ worker'[w].pc = "intent" /\ worker'[w].variant \in Variants
    BY <1>3, ChoiceMoves
  <2> QED
    BY <1>0, <2>1, <2>2 DEF Prepared, Deciding, Editing, Pushing, Past
<1>4. CASE CallFails(w)
  <2>1. worker[w].pc \in {"order", "stock"} /\ DecisionFails(w)
    BY <1>4 DEF CallFails
  <2> QED
    BY <1>0, <2>1, EndMoves DEF Prepared, Deciding, Editing, Pushing, Past
<1>5. CASE EditOrder(w) \/ CommitRejected(w)
  <2>1. /\ worker[w].pc \in {"edit", "commit"}
        /\ \/ Goto(w, "commit") /\ worker[w].pc = "edit"
           \/ \E pc \in {"scope", "requeue"} : Goto(w, pc)
           \/ \E s \in {"SKIPPED", "FAILED"}, b \in BOOLEAN : Conclude(w, "close", s, b)
    BY <1>5 DEF EditOrder, CommitRejected
  <2>2. /\ Moved
        /\ \/ worker'[w].pc = "commit" /\ worker'[w].variant = worker[w].variant
           \/ worker'[w].pc \in {"scope", "requeue"}
           \/ worker'[w].pc = "close" /\ worker'[w].result \in {"SKIPPED", "FAILED"}
    BY <2>1, <1>p, GotoMove, ConcludeMove, PcSets
  <2> QED
    BY <1>0, <1>p, <2>1, <2>2 DEF Prepared, Deciding, Editing, Pushing, Past
<1>6. CASE CommitErrors(w)
  <2>1. /\ worker[w].pc = "commit" /\ "misread" \in exposed'
        /\ Conclude(w, "close", "COMMITTED", FALSE)
    BY <1>6 DEF CommitErrors
  <2>2. Moved /\ worker'[w].pc = "close" /\ worker'[w].result = "COMMITTED"
    BY <2>1, <1>p, ConcludeMove
  <2> QED
    BY <1>0, <1>p, <2>1, <2>2 DEF Prepared, Deciding, Editing, Pushing, Past
<1>7. CASE FindUncertain(w) \/ QueryLines(w) \/ QueryFails(w) \/ ReadChoice(w)
  <2>1. worker[w].pc \in {"find", "query", "confirm"}
    BY <1>7 DEF FindUncertain, QueryLines, QueryFails, ReadChoice
  <2>2. \/ \E pc \in {"confirm", "mark", "charged"} : Goto(w, pc)
        \/ Goto(w, "free") /\ order.lines # {}
        \/ Confirmed(w)
        \/ ReadChoice(w)
    BY <1>7 DEF FindUncertain, QueryLines, QueryFails, FreeLine
  <2>3. /\ Moved
        /\ \/ worker'[w].pc \in {"confirm", "mark", "charged", "idle", "query"}
           \/ worker'[w].pc = "free" /\ order.lines # {}
    BY <2>2, GotoMove, EndMoves, ChoiceMoves, PcSets
  <2> QED
    BY <1>0, <2>1, <2>3 DEF Prepared, Deciding, Editing, Pushing, Past
<1>8. CASE Crash(w)
  <2>1. Moved /\ worker'[w].pc = "idle"
    BY <1>8, RestMove DEF Crash
  <2> QED
    BY <1>0, <2>1 DEF Prepared, Deciding, Editing, Pushing, Past
<1>9. CASE StatementFails(w)
  <2>1. \/ /\ worker[w].pc \in Pushing
           /\ ~GiftMade(worker[w]) \/ "unrecorded" \in exposed'
           /\ Goto(w, "requeue") \/ DecisionFails(w)
        \/ Rest(w)
        \/ Confirmed(w)
    BY <1>9 DEF StatementFails, Outcome, Pushing, Deciding, Editing
  <2>2. /\ Moved
        /\ \/ /\ worker[w].pc \in Pushing /\ worker'[w].pc = "requeue"
              /\ ~GiftMade(worker[w]) \/ "unrecorded" \in exposed'
           \/ worker'[w].pc \in {"idle", "mark"}
    BY <2>1, GotoMove, RestMove, EndMoves, PcSets
  <2> QED
    BY <1>0, <2>1, <2>2 DEF Prepared, Deciding, Editing, Pushing, Past
<1> QED
  BY <1>1, <1>2, <1>3, <1>4, <1>5, <1>6, <1>7, <1>8, <1>9 DEF Quiet

-----------------------------------------------------------------------------
(* What each of the other steps makes of the job.                          *)
Followed == {"COMMIT_PENDING", "UNCERTAIN", "COMMITTED"}

SameIntent == job'.attempts = job.attempts /\ job'.variant = job.variant

LEMMA JobWrites ==
  ASSUME TypeInv, NEW w \in Workers
  PROVE  /\ Claim(w) => /\ job' \in JobRow /\ SameIntent
                        /\ job.status = "PENDING" /\ ~job.leased
                        /\ job'.status = "PENDING" /\ job'.leased
         /\ MarkUncertain(w) => /\ job' \in JobRow /\ SameIntent
                                /\ job'.status = "UNCERTAIN" /\ job'.leased = job.leased
         /\ ScopeMissing(w) => /\ job' \in JobRow /\ SameIntent
                               /\ job'.status = job.status /\ job'.leased = job.leased
         /\ Close(w) => /\ job' \in JobRow /\ SameIntent
                        /\ job'.status = worker[w].result /\ job'.status \in Closed
         /\ Requeue(w) => /\ job' \in JobRow /\ SameIntent
                          /\ job'.status \in {"FAILED", "PENDING"}
         /\ RecoverStale(w) =>
               /\ job' \in JobRow /\ SameIntent /\ job'.leased = job.leased
               /\ job.status \in {"COMMIT_PENDING", "UNCERTAIN"} /\ job'.status = "UNCERTAIN"
         /\ WriteConfirmed(w) => /\ job' \in JobRow /\ SameIntent
                                 /\ job'.status = "COMMITTED" /\ job'.leased = job.leased
         /\ WriteCharged(w) => /\ job' \in JobRow /\ SameIntent
                               /\ job'.status = "UNCERTAIN" /\ job'.leased = job.leased
         /\ MarkReviewed(w) => /\ job' \in JobRow /\ SameIntent
                               /\ job'.status = job.status /\ job'.leased = job.leased
<1>1. /\ job \in JobRow /\ worker \in [Workers -> WorkerState] /\ worker[w].review \in BOOLEAN
      /\ At(w, "close") \/ At(w, "skip") => worker[w].result \in Closed
  <2>1. job \in JobRow /\ worker \in [Workers -> WorkerState] /\ worker[w] \in WorkerState
    BY DEF TypeInv, TypeOK
  <2>2. worker[w].review \in BOOLEAN
    BY <2>1 DEF WorkerState
  <2>3. At(w, "close") \/ At(w, "skip") => worker[w].result \in Closed
    BY DEF TypeInv, Prepared, At
  <2> QED
    BY <2>1, <2>2, <2>3
<1>2. Closed \subseteq Decided /\ "UNCERTAIN" \in Decided /\ "COMMITTED" \in Decided
      /\ "FAILED" \in Decided
  BY DEF Closed, Decided
<1>3. Claim(w) => /\ job' \in JobRow /\ SameIntent
                  /\ job.status = "PENDING" /\ ~job.leased
                  /\ job'.status = "PENDING" /\ job'.leased
  BY <1>1 DEF Claim, JobRow, SameIntent
<1>4. MarkUncertain(w) => /\ job' \in JobRow /\ SameIntent
                          /\ job'.status = "UNCERTAIN" /\ job'.leased = job.leased
  BY <1>1, <1>2 DEF MarkUncertain, JobRow, SameIntent
<1>5. ScopeMissing(w) => /\ job' \in JobRow /\ SameIntent
                         /\ job'.status = job.status /\ job'.leased = job.leased
  BY <1>1 DEF ScopeMissing, JobRow, SameIntent
<1>6. ASSUME Close(w)
      PROVE  /\ job' \in JobRow /\ SameIntent
             /\ job'.status = worker[w].result /\ job'.status \in Closed
  <2> DEFINE s  == worker[w].result
             rv == job.review \/ worker[w].review
  <2>1. s \in Closed /\ rv \in BOOLEAN
    BY <1>1, <1>6 DEF Close
  <2>2. job' = [job EXCEPT !.status = s, !.leased = FALSE, !.old = FALSE, !.review = rv]
    BY <1>1, <1>6 DEF Close
  <2> HIDE DEF s, rv
  <2>3. /\ job' \in JobRow /\ SameIntent /\ job'.status = s
    BY <1>1, <1>2, <2>1, <2>2 DEF JobRow, SameIntent
  <2> QED
    BY <2>1, <2>3 DEF s
<1>7. ASSUME Requeue(w)
      PROVE  job' \in JobRow /\ SameIntent /\ job'.status \in {"FAILED", "PENDING"}
  <2>1. CASE OutOfAttempts(worker[w].attempts + 1)
    BY <1>1, <1>2, <1>7, <2>1 DEF Requeue, JobRow, SameIntent
  <2>2. CASE ~OutOfAttempts(worker[w].attempts + 1)
    BY <1>1, <1>2, <1>7, <2>2 DEF Requeue, JobRow, SameIntent
  <2> QED
    BY <2>1, <2>2
<1>8. ASSUME RecoverStale(w)
      PROVE  /\ job' \in JobRow /\ SameIntent /\ job'.leased = job.leased
             /\ job.status \in {"COMMIT_PENDING", "UNCERTAIN"} /\ job'.status = "UNCERTAIN"
  <2>1. CASE StaleIntent
    BY <1>1, <1>2, <1>8, <2>1 DEF RecoverStale, StaleIntent, RecoveredStatus, JobRow, SameIntent
  <2>2. CASE ~StaleIntent
    BY <1>1, <1>8, <2>2 DEF RecoverStale, LongUncertain, SameIntent
  <2> QED
    BY <2>1, <2>2
<1>9. WriteConfirmed(w) => /\ job' \in JobRow /\ SameIntent
                           /\ job'.status = "COMMITTED" /\ job'.leased = job.leased
  BY <1>1, <1>2 DEF WriteConfirmed, JobRow, SameIntent
<1>10. WriteCharged(w) => /\ job' \in JobRow /\ SameIntent
                          /\ job'.status = "UNCERTAIN" /\ job'.leased = job.leased
  BY <1>1, <1>2 DEF WriteCharged, JobRow, SameIntent
<1>11. MarkReviewed(w) => /\ job' \in JobRow /\ SameIntent
                          /\ job'.status = job.status /\ job'.leased = job.leased
  BY <1>1 DEF MarkReviewed, JobRow, SameIntent
<1> QED
  BY <1>3, <1>4, <1>5, <1>6, <1>7, <1>8, <1>9, <1>10, <1>11

LEMMA IntentWrite ==
  ASSUME TypeInv, NEW w \in Workers, PersistIntent(w)
  PROVE  /\ job' \in JobRow /\ job'.status = "COMMIT_PENDING" /\ job'.leased
         /\ job'.attempts # 0 /\ job'.variant # NoVariant
<1> DEFINE v == worker[w].variant
           n == job.attempts + 1
<1>1. job \in JobRow /\ v \in Variants
  BY DEF TypeInv, TypeOK, Prepared, PersistIntent, At
<1>2. n \in Nat /\ n # 0
  BY <1>1 DEF JobRow
<1>3. job' = [job EXCEPT !.status = "COMMIT_PENDING", !.variant = v, !.attempts = n,
                         !.leased = TRUE, !.old = FALSE]
  BY <1>1 DEF PersistIntent, IntentRow
<1> HIDE DEF v, n
<1>4. job' \in JobRow /\ job'.status = "COMMIT_PENDING" /\ job'.leased
      /\ job'.attempts = n /\ job'.variant = v
  BY <1>1, <1>2, <1>3 DEF JobRow
<1> QED
  BY <1>1, <1>2, <1>4, Constants

(* What time and others make of the job and of the order. *)
LEMMA EnvironmentWrites ==
  ASSUME TypeInv
  PROVE  /\ Enqueue => /\ job' \in JobRow /\ SameIntent
                       /\ job.status = "absent" /\ job'.status = "PENDING"
         /\ LeaseLapses => job' \in JobRow /\ SameIntent /\ job'.status = job.status
         /\ BackoffEnds \/ TimePasses =>
               /\ job' \in JobRow /\ SameIntent
               /\ job'.status = job.status /\ job'.leased = job.leased
         /\ SkipPending =>
               /\ job' \in JobRow /\ SameIntent /\ job'.leased = job.leased
               /\ \/ job'.status = job.status
                  \/ job.status = "PENDING" /\ job'.status = "SKIPPED"
<1>1. job \in JobRow /\ "SKIPPED" \in Decided
  BY DEF TypeInv, TypeOK, Decided, Closed
<1>2. Enqueue => /\ job' \in JobRow /\ SameIntent
                 /\ job.status = "absent" /\ job'.status = "PENDING"
  BY <1>1 DEF Enqueue, JobRow, SameIntent
<1>3. LeaseLapses => job' \in JobRow /\ SameIntent /\ job'.status = job.status
  BY <1>1 DEF LeaseLapses, JobRow, SameIntent
<1>4. BackoffEnds => /\ job' \in JobRow /\ SameIntent
                     /\ job'.status = job.status /\ job'.leased = job.leased
  BY <1>1 DEF BackoffEnds, JobRow, SameIntent
<1>5. TimePasses => /\ job' \in JobRow /\ SameIntent
                    /\ job'.status = job.status /\ job'.leased = job.leased
  BY <1>1 DEF TimePasses, JobRow, SameIntent
<1>6. ASSUME SkipPending
      PROVE  /\ job' \in JobRow /\ SameIntent /\ job'.leased = job.leased
             /\ \/ job'.status = job.status
                \/ job.status = "PENDING" /\ job'.status = "SKIPPED"
  <2>1. CASE job.status = "PENDING" /\ job.variant = NoVariant
    BY <1>1, <1>6, <2>1 DEF SkipPending, JobRow, SameIntent
  <2>2. CASE ~(job.status = "PENDING" /\ job.variant = NoVariant)
    BY <1>1, <1>6, <2>2 DEF SkipPending, SameIntent
  <2> QED
    BY <2>1, <2>2
<1> QED
  BY <1>2, <1>3, <1>4, <1>5, <1>6

LEMMA OrderWrites ==
  ASSUME TypeInv, NEW w \in Workers
  PROVE  /\ CommitApplied(w) => /\ order' \in [open : BOOLEAN, lines : SUBSET Edit,
                                               coming : SUBSET Edit]
                                /\ Gifts' = Gifts \cup {MyEdit(w)} /\ order'.lines # {}
                                /\ order.lines \subseteq order'.lines
         /\ CommitLost(w) => /\ order' \in [open : BOOLEAN, lines : SUBSET Edit,
                                            coming : SUBSET Edit]
                             /\ Gifts' = Gifts \/ Gifts' = Gifts \cup {MyEdit(w)}
                             /\ order.lines \subseteq order'.lines
<1> DEFINE e == MyEdit(w)
<1>1. /\ order \in [open : BOOLEAN, lines : SUBSET Edit, coming : SUBSET Edit]
      /\ worker[w] \in WorkerState
  BY DEF TypeInv, TypeOK
<1>2. CommitApplied(w) \/ CommitLost(w) => e \in Edit
  BY <1>1 DEF CommitApplied, CommitLost, At, TypeInv, Prepared, MyEdit, Edit, WorkerState
<1>3. CommitApplied(w) => order' = [order EXCEPT !.lines = @ \cup {e}]
  BY DEF CommitApplied
<1>4. CommitLost(w) => \/ order' = order
                       \/ order' = [order EXCEPT !.lines = @ \cup {e}]
                       \/ order' = [order EXCEPT !.coming = @ \cup {e}]
  BY DEF CommitLost
<1> HIDE DEF e
<1>5. ASSUME CommitApplied(w)
      PROVE  /\ order' \in [open : BOOLEAN, lines : SUBSET Edit, coming : SUBSET Edit]
             /\ Gifts' = Gifts \cup {e} /\ order'.lines # {}
             /\ order.lines \subseteq order'.lines
  <2>1. /\ order' \in [open : BOOLEAN, lines : SUBSET Edit, coming : SUBSET Edit]
        /\ order'.lines = order.lines \cup {e} /\ order'.coming = order.coming
    BY <1>1, <1>2, <1>3, <1>5
  <2> QED
    BY <2>1 DEF Gifts
<1>6. ASSUME CommitLost(w)
      PROVE  /\ order' \in [open : BOOLEAN, lines : SUBSET Edit, coming : SUBSET Edit]
             /\ Gifts' = Gifts \/ Gifts' = Gifts \cup {e}
             /\ order.lines \subseteq order'.lines
  <2>1. /\ order' \in [open : BOOLEAN, lines : SUBSET Edit, coming : SUBSET Edit]
        /\ \/ order' = order
           \/ order'.lines = order.lines \cup {e} /\ order'.coming = order.coming
           \/ order'.lines = order.lines /\ order'.coming = order.coming \cup {e}
    BY <1>1, <1>2, <1>4, <1>6
  <2> QED
    BY <2>1 DEF Gifts
<1> QED
  BY <1>5, <1>6 DEF e

LEMMA OrderElsewhere ==
  ASSUME TypeInv, ApplyComing \/ CloseOrder
  PROVE  /\ order' \in [open : BOOLEAN, lines : SUBSET Edit, coming : SUBSET Edit]
         /\ Gifts' = Gifts /\ order.lines \subseteq order'.lines
<1>1. order \in [open : BOOLEAN, lines : SUBSET Edit, coming : SUBSET Edit]
  BY DEF TypeInv, TypeOK
<1>2. CASE ApplyComing
  <2>1. PICK d \in order.coming :
           order' = [order EXCEPT !.lines = @ \cup {d}, !.coming = @ \ {d}]
    BY <1>2 DEF ApplyComing
  <2>2. /\ order' \in [open : BOOLEAN, lines : SUBSET Edit, coming : SUBSET Edit]
        /\ order'.lines = order.lines \cup {d} /\ order'.coming = order.coming \ {d}
    BY <1>1, <2>1
  <2> QED
    BY <2>1, <2>2 DEF Gifts
<1>3. CASE CloseOrder
  BY <1>1, <1>3 DEF CloseOrder, Gifts
<1> QED
  BY <1>2, <1>3

(* The steps that write the job or the order, seen from the worker.        *)
Loud(w) ==
    \/ Claim(w) \/ PersistIntent(w) \/ CommitApplied(w) \/ CommitLost(w) \/ MarkUncertain(w)
    \/ ScopeMissing(w) \/ Close(w) \/ Requeue(w) \/ RecoverStale(w) \/ WriteConfirmed(w)
    \/ WriteCharged(w) \/ MarkReviewed(w)

LEMMA LoudMove ==
  ASSUME TypeInv, NEW w \in Workers, Loud(w)
  PROVE  \/ Claim(w) /\ UNCHANGED worker
         \/ /\ worker' \in [Workers -> WorkerState]
            /\ \A v \in Workers \ {w} : worker'[v] = worker[v]
            /\ Prepared(worker'[w])
            /\ \/ Claim(w) /\ worker'[w].pc = "read"
               \/ PersistIntent(w) /\ worker[w].pc = "intent" /\ worker'[w].pc = "edit"
               \/ /\ CommitApplied(w) /\ worker[w].pc = "commit" /\ worker'[w].pc = "close"
                  /\ worker'[w].result = "COMMITTED"
               \/ CommitLost(w) /\ worker[w].pc = "commit" /\ worker'[w].pc = "uncertain"
               \/ /\ MarkUncertain(w) /\ worker[w].pc = "uncertain"
                  /\ worker'[w].pc = "confirm"
               \/ ScopeMissing(w) /\ worker[w].pc = "scope" /\ worker'[w].pc = "idle"
               \/ Close(w) /\ worker[w].pc \in {"close", "skip"} /\ worker'[w].pc = "idle"
               \/ Requeue(w) /\ worker[w].pc = "requeue" /\ worker'[w].pc = "idle"
               \/ RecoverStale(w) /\ worker[w].pc = "idle" /\ worker'[w].pc = "find"
               \/ /\ WriteConfirmed(w) /\ worker[w].pc = "free"
                  /\ worker'[w].pc \in {"idle", "mark"}
               \/ /\ WriteCharged(w) /\ worker[w].pc = "charged"
                  /\ worker'[w].pc \in {"idle", "mark"}
               \/ MarkReviewed(w) /\ worker[w].pc = "mark" /\ worker'[w].pc = "idle"
<1> USE DEF At, Prepared
<1>p. Prepared(worker[w]) /\ "COMMITTED" \in Closed
  BY DEF TypeInv, Closed
<1>1. CASE Claim(w)
  BY <1>1, ReadMoves
<1>2. CASE PersistIntent(w)
  BY <1>2, <1>p, ChoiceMoves DEF PersistIntent
<1>3. CASE CommitApplied(w)
  BY <1>3, <1>p, ConcludeMove DEF CommitApplied
<1>4. CASE CommitLost(w)
  BY <1>4, GotoMove, PcSets DEF CommitLost, AfterLostCommit
<1>5. CASE MarkUncertain(w)
  BY <1>5, GotoMove, PcSets DEF MarkUncertain
<1>6. CASE ScopeMissing(w) \/ Close(w) \/ Requeue(w) \/ MarkReviewed(w)
  <2>1. Rest(w)
    BY <1>6 DEF ScopeMissing, Close, Requeue, MarkReviewed
  <2>2. \/ ScopeMissing(w) /\ worker[w].pc = "scope"
        \/ Close(w) /\ worker[w].pc \in {"close", "skip"}
        \/ Requeue(w) /\ worker[w].pc = "requeue"
        \/ MarkReviewed(w) /\ worker[w].pc = "mark"
    BY <1>6 DEF ScopeMissing, Close, Requeue, MarkReviewed
  <2> QED
    BY <2>1, <2>2, RestMove
<1>7. CASE RecoverStale(w)
  BY <1>7, ReadMoves DEF RecoverStale
<1>8. CASE WriteConfirmed(w)
  BY <1>8, EndMoves DEF WriteConfirmed
<1>9. CASE WriteCharged(w)
  BY <1>9, EndMoves DEF WriteCharged
<1> QED
  BY <1>1, <1>2, <1>3, <1>4, <1>5, <1>6, <1>7, <1>8, <1>9 DEF Loud

Work(w) == Decide(w) \/ Apply(w) \/ Recover(w) \/ Crash(w) \/ StatementFails(w)

LEMMA WorkKinds == \A w \in Workers : Work(w) => Quiet(w) \/ Loud(w)
  BY DEF Work, Decide, Apply, Recover, Quiet, Loud

(* What has been exposed stays so, and who may expose it. *)
LEMMA WorkExposes ==
  ASSUME NEW w \in Workers, Work(w)
  PROVE  \/ UNCHANGED exposed
         \/ Claim(w) /\ exposed' = exposed \cup {"rival"}
         \/ StatementFails(w) /\ exposed' = exposed \cup {"unrecorded"}
         \/ CommitErrors(w) /\ exposed' = exposed \cup {"misread"}
<1>1. CASE Claim(w) \/ StatementFails(w) \/ CommitErrors(w)
  BY <1>1 DEF Claim, StatementFails, CommitErrors
<1>2. CASE ~(Claim(w) \/ StatementFails(w) \/ CommitErrors(w))
  BY <1>2
  DEF Work, Decide, Apply, Recover, Read, CheckShop, CheckSettings, FetchOrder,
      ChooseVariant, NoStock, CallFails, PersistIntent, EditOrder, CommitRejected,
      CommitApplied, CommitLost, MarkUncertain, ScopeMissing, Close, Requeue,
      RecoverStale, FindUncertain, ReadChoice, QueryLines, QueryFails, WriteConfirmed,
      WriteCharged, MarkReviewed, Crash, OnlyWorker, OnlyJob
<1> QED
  BY <1>1, <1>2

LEMMA ExposedGrows == ASSUME [Next]_vars PROVE exposed \subseteq exposed'
<1>1. ASSUME NEW w \in Workers, Work(w) PROVE exposed \subseteq exposed'
  BY <1>1, WorkExposes
<1>2. Environment \/ UNCHANGED vars => UNCHANGED exposed
  BY DEF Environment, Enqueue, LeaseLapses, BackoffEnds, TimePasses, ApplyComing, CloseOrder,
         Uninstall, ChangeSchedule, Disable, SkipPending, OnlyJob, vars
<1> QED
  BY <1>1, <1>2 DEF Next, Work

(* Without a rival, whoever claims the job has it to itself.               *)
LEMMA ClaimAlone ==
  ASSUME NEW w \in Workers, Claim(w), "rival" \notin exposed'
  PROVE  UNCHANGED worker \/ \A v \in Workers : worker[v].pc \notin Pushing
BY DEF Claim

(* The variables that only the merchant, the shop and faults change. *)
LEMMA RestOfType ==
  ASSUME TypeInv, NEW w \in Workers, Work(w)
  PROVE  /\ UNCHANGED <<shop, settings, sweep>>
         /\ faults' \in [FaultKinds -> 0 .. MaxFaults]
         /\ exposed' \subseteq Exposures
<1>1. UNCHANGED <<shop, settings, sweep>>
  BY DEF Work, Decide, Apply, Recover, Claim, Read, CheckShop, CheckSettings, FetchOrder,
         ChooseVariant, NoStock, CallFails, PersistIntent, EditOrder, CommitRejected,
         CommitApplied, CommitLost, CommitErrors, MarkUncertain, ScopeMissing, Close, Requeue,
         RecoverStale, FindUncertain, ReadChoice, QueryLines, QueryFails, WriteConfirmed,
         WriteCharged, MarkReviewed, Crash, StatementFails, OnlyWorker, OnlyJob
<1>2. UNCHANGED faults \/ \E kind \in FaultKinds : Fault(kind)
  BY DEF Work, Decide, Apply, Recover, Claim, Read, CheckShop, CheckSettings, FetchOrder,
         ChooseVariant, NoStock, CallFails, PersistIntent, EditOrder, CommitRejected,
         CommitApplied, CommitLost, CommitErrors, MarkUncertain, ScopeMissing, Close, Requeue,
         RecoverStale, FindUncertain, ReadChoice, QueryLines, QueryFails, WriteConfirmed,
         WriteCharged, MarkReviewed, Crash, StatementFails, OnlyWorker, OnlyJob, FaultKinds
<1>3. faults \in [FaultKinds -> 0 .. MaxFaults]
  BY DEF TypeInv, TypeOK
<1>4. ASSUME NEW kind \in FaultKinds, Fault(kind)
      PROVE  faults' \in [FaultKinds -> 0 .. MaxFaults]
  <2>1. faults[kind] + 1 \in 0 .. MaxFaults
    BY <1>3, <1>4, Constants DEF Fault
  <2> QED
    BY <1>3, <1>4, <2>1 DEF Fault
<1>5. exposed' \subseteq Exposures
  <2>1. exposed \subseteq Exposures
    BY DEF TypeInv, TypeOK
  <2> QED
    BY <2>1, WorkExposes DEF Exposures
<1> QED
  BY <1>1, <1>2, <1>3, <1>4, <1>5

-----------------------------------------------------------------------------
LEMMA InitType == Init => TypeInv
<1>1. Init => job \in JobRow
  BY DEF Init, NoJob, JobRow
<1>2. Idle \in WorkerState /\ Idle.pc = "idle"
  BY DEF Idle, WorkerState
<1>3. Init => worker \in [Workers -> WorkerState] /\ \A w \in Workers : Prepared(worker[w])
  BY <1>2 DEF Init, Prepared
<1>4. Init => /\ order \in [open : BOOLEAN, lines : SUBSET Edit, coming : SUBSET Edit]
              /\ faults \in [FaultKinds -> 0 .. MaxFaults]
              /\ job.attempts = 0 <=> job.variant = NoVariant
  BY Constants DEF Init, NoJob
<1> QED
  BY <1>1, <1>3, <1>4 DEF Init, TypeInv, TypeOK

(* What a step of a worker leaves of the types. *)
LEMMA LoudType ==
  ASSUME TypeInv, NEW w \in Workers, Loud(w)
  PROVE  /\ job' \in JobRow /\ (job'.attempts = 0 <=> job'.variant = NoVariant)
         /\ order' \in [open : BOOLEAN, lines : SUBSET Edit, coming : SUBSET Edit]
<1>1. /\ job \in JobRow /\ (job.attempts = 0 <=> job.variant = NoVariant)
      /\ order \in [open : BOOLEAN, lines : SUBSET Edit, coming : SUBSET Edit]
  BY DEF TypeInv, TypeOK
<1>2. UNCHANGED job \/ (job' \in JobRow /\ SameIntent) \/ PersistIntent(w)
  BY JobWrites DEF Loud, CommitApplied, CommitLost
<1>3. UNCHANGED order \/ CommitApplied(w) \/ CommitLost(w)
  BY DEF Loud, Claim, PersistIntent, MarkUncertain, ScopeMissing, Close, Requeue, RecoverStale,
         WriteConfirmed, WriteCharged, MarkReviewed, OnlyJob
<1> QED
  BY <1>1, <1>2, <1>3, IntentWrite, OrderWrites DEF SameIntent

LEMMA NextType == ASSUME TypeInv, [Next]_vars PROVE TypeInv'
<1>1. ASSUME NEW w \in Workers, Work(w)
      PROVE  TypeInv'
  <2>1. /\ worker' \in [Workers -> WorkerState] /\ \A v \in Workers : Prepared(worker'[v])
        /\ job' \in JobRow /\ (job'.attempts = 0 <=> job'.variant = NoVariant)
        /\ order' \in [open : BOOLEAN, lines : SUBSET Edit, coming : SUBSET Edit]
    <3>1. CASE Quiet(w)
      BY <3>1, QuietMove DEF TypeInv, TypeOK
    <3>2. CASE Loud(w)
      BY <3>2, LoudMove, LoudType DEF TypeInv, TypeOK
    <3> QED
      BY <1>1, <3>1, <3>2, WorkKinds
  <2> QED
    BY <1>1, <2>1, RestOfType DEF TypeInv, TypeOK, Prepared
<1>2. ASSUME Environment
      PROVE  TypeInv'
  <2>1. UNCHANGED <<worker, faults, exposed>>
    BY <1>2 DEF Environment, Enqueue, LeaseLapses, BackoffEnds, TimePasses, ApplyComing,
                CloseOrder, Uninstall, ChangeSchedule, Disable, SkipPending, OnlyJob
  <2>2. UNCHANGED job \/ (job' \in JobRow /\ SameIntent)
    BY <1>2, EnvironmentWrites DEF Environment, ApplyComing, CloseOrder, Uninstall,
                ChangeSchedule, Disable
  <2>3. UNCHANGED order \/ order' \in [open : BOOLEAN, lines : SUBSET Edit, coming : SUBSET Edit]
    BY <1>2, OrderElsewhere DEF Environment, Enqueue, LeaseLapses, BackoffEnds, TimePasses,
                ApplyComing, CloseOrder, Uninstall, ChangeSchedule, Disable, SkipPending, OnlyJob
  <2>4. /\ shop' \in BOOLEAN /\ sweep' \in BOOLEAN
        /\ settings' \in {"offer", "mismatch", "disabled"}
    BY <1>2 DEF Environment, Enqueue, LeaseLapses, BackoffEnds, TimePasses, ApplyComing,
                CloseOrder, Uninstall, ChangeSchedule, Disable, SkipPending, OnlyJob,
                TypeInv, TypeOK
  <2> QED
    BY <2>1, <2>2, <2>3, <2>4 DEF TypeInv, TypeOK, SameIntent, Prepared
<1>3. CASE UNCHANGED vars
  BY <1>3 DEF vars, TypeInv, TypeOK, Prepared
<1> QED
  BY <1>1, <1>2, <1>3 DEF Next, Work

(* Every row, worker and counter keeps its type, and an intent is counted  *)
(* exactly when it names a variant.                                        *)
THEOREM TypeCorrect == Spec => []TypeOK
<1>1. TypeInv => TypeOK
  BY DEF TypeInv
<1> QED
  BY <1>1, InitType, NextType, PTL DEF Spec

-----------------------------------------------------------------------------
(* The inductive invariant behind AtMostOneGift. As long as no job was     *)
(* claimed under a decision, one worker at a time is between claim and     *)
(* result; past the intent the job is one that recovery follows up; and    *)
(* as long as every answer to a commit was written, a worker is past its   *)
(* commit once a gift is made, or may yet come. Leases play no part in it. *)

SoleGiver ==
    \A v, w \in Workers : worker[v].pc \in Pushing /\ worker[w].pc \in Pushing => v = w

GiverHolds ==
    \A w \in Workers : worker[w].pc \in Pushing =>
        /\ job.status # "absent"
        /\ worker[w].pc \in Past => job.status \in Followed

GiftEnds ==
    Gifts # {} => /\ job.status \in Followed
                  /\ \A w \in Workers : worker[w].pc \in Pushing => GiftMade(worker[w])

SingleGift == \A g, h \in Gifts : g = h

Inv == TypeInv /\ SoleGiver /\ GiverHolds /\ GiftEnds /\ SingleGift

LEMMA QuietInv ==
  ASSUME Inv, Sheltered', NEW w \in Workers, Quiet(w), TypeInv'
  PROVE  Inv'
<1>1. /\ UNCHANGED <<job, order>>
      /\ \A v \in Workers \ {w} : worker'[v] = worker[v]
      /\ worker'[w].pc \in Pushing => worker[w].pc \in Pushing
      /\ worker'[w].pc \in Past => worker[w].pc \in Past
      /\ GiftMade(worker[w]) => worker'[w].pc \notin Pushing
  BY QuietMove DEF Inv, Sheltered
<1>2. SoleGiver'
  BY <1>1 DEF Inv, SoleGiver
<1>3. GiverHolds'
  BY <1>1 DEF Inv, GiverHolds
<1>4. GiftEnds' /\ SingleGift'
  BY <1>1 DEF Inv, GiftEnds, SingleGift, Gifts
<1> QED
  BY <1>2, <1>3, <1>4 DEF Inv

(* The worker that pushes: no other one does, and nobody may claim. *)
LEMMA OnlyOne ==
  ASSUME Inv, NEW w \in Workers, worker[w].pc \in Pushing
  PROVE  \A v \in Workers \ {w} : worker[v].pc \notin Pushing
  BY DEF Inv, SoleGiver

LEMMA LoudInv ==
  ASSUME Inv, Sheltered', NEW w \in Workers, Loud(w), TypeInv'
  PROVE  Inv'
<1> DEFINE Others == \A v \in Workers \ {w} : worker'[v] = worker[v]
<1> USE DEF Pushing, Past, Deciding, Editing
<1>1. CASE Claim(w)
  <2>1. job.status = "PENDING" /\ job'.status = "PENDING" /\ UNCHANGED order
    BY <1>1, JobWrites DEF Claim, Inv
  <2>2. Gifts = {}
    BY <2>1 DEF Inv, GiftEnds, Followed
  <2>3. \/ UNCHANGED worker
        \/ /\ Others /\ worker'[w].pc = "read"
           /\ \A v \in Workers : worker[v].pc \notin Pushing
    BY <1>1, ReadMoves, ClaimAlone DEF Inv, Sheltered
  <2>4. SoleGiver' /\ GiverHolds'
    BY <2>1, <2>3 DEF Inv, SoleGiver, GiverHolds, Followed
  <2>5. Gifts' = {}
    BY <2>1, <2>2 DEF Gifts
  <2> QED
    BY <2>4, <2>5 DEF Inv, GiftEnds, SingleGift
<1>2. CASE PersistIntent(w)
  <2>1. /\ Others /\ worker[w].pc = "intent" /\ worker'[w].pc = "edit"
        /\ job'.status = "COMMIT_PENDING" /\ UNCHANGED order
    BY <1>2, ChoiceMoves, IntentWrite DEF PersistIntent, OnlyJob, At, Inv
  <2>2. (\A v \in Workers \ {w} : worker[v].pc \notin Pushing) /\ Gifts = {}
    BY <2>1, OnlyOne DEF Inv, GiftEnds, GiftMade
  <2>3. SoleGiver' /\ GiverHolds'
    BY <2>1, <2>2 DEF SoleGiver, GiverHolds, Followed
  <2>4. Gifts' = {}
    BY <2>1, <2>2 DEF Gifts
  <2> QED
    BY <2>3, <2>4 DEF Inv, GiftEnds, SingleGift
<1>3. CASE CommitApplied(w) \/ CommitLost(w)
  <2>1. /\ Others /\ worker[w].pc = "commit"
        /\ \/ worker'[w].pc = "close" /\ worker'[w].result = "COMMITTED"
           \/ worker'[w].pc = "uncertain"
        /\ UNCHANGED job
    BY <1>3, ConcludeMove, GotoMove, PcSets
    DEF CommitApplied, CommitLost, AfterLostCommit, At, Inv, Closed
  <2>2. (\A v \in Workers \ {w} : worker[v].pc \notin Pushing) /\ Gifts = {}
    BY <2>1, OnlyOne DEF Inv, GiftEnds, GiftMade
  <2>3. job'.status \in Followed
    BY <2>1 DEF Inv, GiverHolds
  <2>4. SoleGiver' /\ GiverHolds'
    BY <2>1, <2>2, <2>3 DEF SoleGiver, GiverHolds, Followed
  <2>5. Gifts' \subseteq {MyEdit(w)}
    BY <1>3, <2>2, OrderWrites DEF Inv
  <2>6. GiftEnds' /\ SingleGift'
    BY <2>1, <2>2, <2>3, <2>5 DEF GiftEnds, GiftMade, SingleGift
  <2> QED
    BY <2>4, <2>6 DEF Inv
<1>4. CASE MarkUncertain(w) \/ ScopeMissing(w) \/ Close(w) \/ Requeue(w)
  <2>1. /\ Others /\ worker[w].pc \in Pushing /\ worker'[w].pc \notin Pushing
        /\ UNCHANGED order
    BY <1>4, GotoMove, RestMove, PcSets
    DEF MarkUncertain, ScopeMissing, Close, Requeue, At, OnlyJob, Inv
  <2>2. \A v \in Workers : worker'[v].pc \notin Pushing
    BY <2>1, OnlyOne
  <2>3. Gifts # {} => job'.status \in Followed
    <3>1. CASE MarkUncertain(w) \/ ScopeMissing(w)
      BY <3>1, JobWrites DEF Inv, GiftEnds, Followed
    <3>2. CASE Close(w) \/ Requeue(w)
      BY <3>2, JobWrites DEF Close, Requeue, At, Inv, GiftEnds, GiftMade, Followed
    <3> QED
      BY <1>4, <3>1, <3>2
  <2>4. SoleGiver' /\ GiverHolds'
    BY <2>2 DEF SoleGiver, GiverHolds
  <2>5. GiftEnds' /\ SingleGift'
    BY <2>1, <2>2, <2>3 DEF GiftEnds, SingleGift, Gifts, Inv
  <2> QED
    BY <2>4, <2>5 DEF Inv
<1>5. CASE RecoverStale(w) \/ WriteConfirmed(w) \/ WriteCharged(w) \/ MarkReviewed(w)
  <2>1. Others /\ worker'[w].pc \notin Pushing /\ UNCHANGED order
    BY <1>5, ReadMoves, EndMoves, RestMove
    DEF RecoverStale, WriteConfirmed, WriteCharged, MarkReviewed, OnlyJob, Inv
  <2>2. job'.status = job.status \/ job'.status \in Followed
    BY <1>5, JobWrites DEF Inv, Followed
  <2>4. SoleGiver' /\ GiverHolds'
    BY <2>1, <2>2 DEF Inv, SoleGiver, GiverHolds, Followed
  <2>5. GiftEnds' /\ SingleGift'
    BY <2>1, <2>2 DEF Inv, GiftEnds, GiftMade, SingleGift, Gifts
  <2> QED
    BY <2>4, <2>5 DEF Inv
<1> QED
  BY <1>1, <1>2, <1>3, <1>4, <1>5 DEF Loud

LEMMA EnvironmentInv ==
  ASSUME Inv, Environment, TypeInv'
  PROVE  Inv'
<1>1. UNCHANGED worker
  BY DEF Environment, Enqueue, LeaseLapses, BackoffEnds, TimePasses, ApplyComing,
         CloseOrder, Uninstall, ChangeSchedule, Disable, SkipPending, OnlyJob
<1>2. Gifts' = Gifts
  <2>1. UNCHANGED order \/ ApplyComing \/ CloseOrder
    BY DEF Environment, Enqueue, LeaseLapses, BackoffEnds, TimePasses, Uninstall,
           ChangeSchedule, Disable, SkipPending, OnlyJob
  <2> QED
    BY <2>1, OrderElsewhere DEF Inv, Gifts
<1>3. SoleGiver' /\ SingleGift'
  BY <1>1, <1>2 DEF Inv, SoleGiver, SingleGift
<1>4. GiverHolds' /\ GiftEnds'
  <2>1. CASE Enqueue
    BY <1>1, <1>2, <2>1, EnvironmentWrites DEF Inv, GiverHolds, GiftEnds, Followed
  <2>3. CASE LeaseLapses \/ BackoffEnds \/ TimePasses
    BY <1>1, <1>2, <2>3, EnvironmentWrites DEF Inv, GiverHolds, GiftEnds, GiftMade
  <2>4. CASE SkipPending
    BY <1>1, <1>2, <2>4, EnvironmentWrites DEF Inv, GiverHolds, GiftEnds, GiftMade, Followed
  <2>5. CASE UNCHANGED job
    BY <1>1, <1>2, <2>5 DEF Inv, GiverHolds, GiftEnds, GiftMade
  <2> QED
    BY <2>1, <2>3, <2>4, <2>5
    DEF Environment, ApplyComing, CloseOrder, Uninstall, ChangeSchedule, Disable
<1> QED
  BY <1>3, <1>4 DEF Inv

LEMMA InvCorrect == Spec => [](TypeInv /\ (Sheltered => Inv))
<1> DEFINE IInv == TypeInv /\ (Sheltered => Inv)
<1>1. Init => IInv
  <2>1. Init => \A w \in Workers : worker[w].pc = "idle"
    BY DEF Init, Idle
  <2>2. Init => Gifts = {}
    BY DEF Init, Gifts
  <2> QED
    BY <2>1, <2>2, InitType
    DEF Inv, SoleGiver, GiverHolds, GiftEnds, SingleGift, Pushing, Deciding, Editing
<1>2. IInv /\ [Next]_vars => IInv'
  <2> SUFFICES ASSUME IInv, [Next]_vars PROVE IInv'
    OBVIOUS
  <2>1. TypeInv'
    BY NextType
  <2> SUFFICES ASSUME Sheltered' PROVE Inv'
    BY <2>1
  <2>i. Inv
    BY ExposedGrows DEF Sheltered
  <2>2. ASSUME NEW w \in Workers, Work(w)
        PROVE  Inv'
    BY <2>1, <2>2, <2>i, WorkKinds, QuietInv, LoudInv
  <2>3. CASE Environment
    BY <2>1, <2>3, <2>i, EnvironmentInv
  <2>4. CASE UNCHANGED vars
    BY <2>1, <2>4, <2>i DEF vars, Inv, SoleGiver, GiverHolds, GiftEnds, GiftMade, SingleGift, Gifts
  <2> QED
    BY <2>2, <2>3, <2>4 DEF Next, Work
<1> QED
  BY <1>1, <1>2, PTL DEF Spec

(* The order gets at most one gift, however many invocations overlap, die, *)
(* outlast their lease, lose the answer to their commit, fail to write or  *)
(* are told GraphQL errors: in every history up to the first claim of the  *)
(* job under a decision, or the first answer to a commit that could not be *)
(* written.                                                                *)
THEOREM OneGiftCorrect == Spec => []AtMostOneGift
<1>1. (Sheltered => Inv) => AtMostOneGift
  BY DEF Inv, SingleGift, AtMostOneGift
<1> QED
  BY <1>1, InvCorrect, PTL

(* In the same histories the job of an order that has a gift, or may yet   *)
(* get one, never returns to the queue nor says that none was given.       *)
THEOREM NotForgottenCorrect == Spec => []NoGiftForgotten
<1>1. (Sheltered => Inv) => NoGiftForgotten
  BY DEF Inv, GiftEnds, NoGiftForgotten, Followed
<1> QED
  BY <1>1, InvCorrect, PTL

-----------------------------------------------------------------------------
(* COMMITTED is written by a worker whose commit was applied, or that has  *)
(* seen a free line; no assumption on leases or statements is needed.      *)

Backed(r) == /\ r.pc = "free" => order.lines # {}
             /\ r.pc \in {"close", "skip"} /\ r.result = "COMMITTED" => order.lines # {}
BackedJob == job.status = "COMMITTED" => order.lines # {}
BackedInv == TypeInv /\ BackedJob /\ \A w \in Workers : Backed(worker[w])

LEMMA LinesStay == ASSUME TypeInv, [Next]_vars PROVE order.lines \subseteq order'.lines
<1>1. \/ UNCHANGED order \/ ApplyComing \/ CloseOrder
      \/ \E w \in Workers : CommitApplied(w) \/ CommitLost(w)
  <2>1. ASSUME NEW w \in Workers, Work(w)
        PROVE  UNCHANGED order \/ CommitApplied(w) \/ CommitLost(w)
    <3>1. Quiet(w) => UNCHANGED order
      BY QuietMove
    <3>2. Loud(w) => UNCHANGED order \/ CommitApplied(w) \/ CommitLost(w)
      BY DEF Loud, Claim, PersistIntent, MarkUncertain, ScopeMissing, Close, Requeue,
             RecoverStale, WriteConfirmed, WriteCharged, MarkReviewed, OnlyJob
    <3> QED
      BY <2>1, <3>1, <3>2, WorkKinds
  <2>2. Environment => UNCHANGED order \/ ApplyComing \/ CloseOrder
    BY DEF Environment, Enqueue, LeaseLapses, BackoffEnds, TimePasses, Uninstall,
           ChangeSchedule, Disable, SkipPending, OnlyJob
  <2> QED
    BY <2>1, <2>2 DEF Next, Work, vars
<1> QED
  BY <1>1, OrderElsewhere, OrderWrites

LEMMA BackedCorrect == Spec => [](TypeInv /\ ("misread" \notin exposed => BackedInv))
<1> DEFINE IInv == TypeInv /\ ("misread" \notin exposed => BackedInv)
<1>1. Init => IInv
  BY InitType DEF Init, BackedInv, BackedJob, NoJob, Backed, Idle
<1>2. IInv /\ [Next]_vars => IInv'
  <2> SUFFICES ASSUME IInv, [Next]_vars, "misread" \notin exposed' PROVE BackedInv'
    BY NextType
  <2> BackedInv
    BY ExposedGrows
  <2>1. TypeInv' /\ (order.lines # {} => order'.lines # {})
    BY NextType, LinesStay DEF BackedInv
  <2>2. ASSUME NEW w \in Workers, Quiet(w)
        PROVE  BackedInv'
    <3>1. /\ UNCHANGED <<job, order>> /\ \A v \in Workers \ {w} : worker'[v] = worker[v]
          /\ worker'[w].pc = "free" => order.lines # {}
          /\ worker'[w].pc \in {"close", "skip"} => worker'[w].result # "COMMITTED"
      BY <2>2, QuietMove DEF BackedInv
    <3> QED
      BY <2>1, <3>1 DEF BackedInv, Backed, BackedJob
  <2>3. ASSUME NEW w \in Workers, Loud(w)
        PROVE  BackedInv'
    <3>1. \A v \in Workers : v # w \/ UNCHANGED worker => Backed(worker[v]) /\ worker'[v] = worker[v]
      BY <2>3, LoudMove DEF BackedInv
    <3>2. CASE CommitApplied(w)
      <4>1. order'.lines # {} /\ UNCHANGED job
        BY <3>2, OrderWrites DEF BackedInv, CommitApplied
      <4> QED
        BY <2>1, <4>1 DEF BackedInv, Backed, BackedJob
    <3>3. ASSUME ~CommitApplied(w)
          PROVE  UNCHANGED worker \/ worker'[w].pc \notin {"free", "close", "skip"}
      BY <2>3, <3>3, LoudMove DEF BackedInv
    <3>4. job'.status = "COMMITTED" =>
             \/ job.status = "COMMITTED"
             \/ worker[w].pc = "free"
             \/ worker[w].pc \in {"close", "skip"} /\ worker[w].result = "COMMITTED"
      <4>1. UNCHANGED job \/ ~(CommitApplied(w) \/ CommitLost(w))
        BY DEF CommitApplied, CommitLost
      <4> QED
        BY <2>3, <4>1, JobWrites, IntentWrite
        DEF Loud, BackedInv, WriteConfirmed, Close, At
    <3>5. job'.status = "COMMITTED" => order'.lines # {}
      BY <2>1, <3>4 DEF BackedInv, Backed, BackedJob
    <3> QED
      BY <2>1, <3>1, <3>2, <3>3, <3>5 DEF BackedInv, Backed, BackedJob
  <2>4. CASE Environment
    <3>1. UNCHANGED worker
      BY <2>4 DEF Environment, Enqueue, LeaseLapses, BackoffEnds, TimePasses, ApplyComing,
                  CloseOrder, Uninstall, ChangeSchedule, Disable, SkipPending, OnlyJob
    <3>2. job'.status = "COMMITTED" => job.status = "COMMITTED"
      BY <2>4, EnvironmentWrites
      DEF Environment, ApplyComing, CloseOrder, Uninstall, ChangeSchedule, Disable, BackedInv
    <3> QED
      BY <2>1, <3>1, <3>2 DEF BackedInv, Backed, BackedJob
  <2>5. CASE UNCHANGED vars
    BY <2>1, <2>5 DEF vars, BackedInv, Backed, BackedJob
  <2> QED
    BY <2>2, <2>3, <2>4, <2>5, WorkKinds DEF Next, Work
<1> QED
  BY <1>1, <1>2, PTL DEF Spec

(* Whatever else fails or overlaps, a job that says COMMITTED has a gift   *)
(* on the order, unless GraphQL errors were taken for a commit.            *)
THEOREM CommittedCorrect == Spec => []CommittedHasGift
<1>1. ("misread" \notin exposed => BackedInv) => CommittedHasGift
  BY DEF BackedInv, BackedJob, CommittedHasGift
<1> QED
  BY <1>1, BackedCorrect, PTL

-----------------------------------------------------------------------------
(* The inductive invariant behind GiftsWithinAttempts. Every edit bears    *)
(* the number of an intent, each once: the giver past the intent bears the *)
(* last one, and none is made of it before it commits. What a requeue      *)
(* counts from, and what a job in the queue has left, follow.              *)
Counted ==
    /\ job.attempts <= MaxAttempts
    /\ job.status \in {"absent", "PENDING"} => job.attempts < MaxAttempts
    /\ \A w \in Workers :
          /\ worker[w].pc \in Deciding =>
                job.attempts < MaxAttempts /\ worker[w].attempts = job.attempts
          /\ worker[w].pc \in Deciding \ {"read"} => worker[w].edit = job.attempts
          /\ worker[w].pc \in Past =>
                worker[w].attempts + 1 = job.attempts /\ worker[w].edit = job.attempts
          /\ worker[w].pc = "requeue" =>
                job.attempts \in {worker[w].attempts, worker[w].attempts + 1}

Numbered ==
    /\ \A g \in Gifts : g.n \in 1 .. job.attempts
    /\ \A g, h \in Gifts : g.n = h.n => g = h
    /\ \A w \in Workers, g \in Gifts :
          worker[w].pc \in {"edit", "commit"} => g.n # worker[w].edit

BoundInv == TypeInv /\ SoleGiver /\ GiverHolds /\ Counted /\ Numbered

(* What a step that writes neither job nor order does to the two counts.   *)
LEMMA GotoCounts ==
  ASSUME TypeInv, NEW w \in Workers
  PROVE  /\ \A pc \in Pcs : Goto(w, pc) =>
               worker'[w].attempts = worker[w].attempts /\ worker'[w].edit = worker[w].edit
         /\ \A pc \in {"close", "skip"}, s \in Closed, b \in BOOLEAN : Conclude(w, pc, s, b) =>
               worker'[w].attempts = worker[w].attempts /\ worker'[w].edit = worker[w].edit
         /\ \A x \in Variants : ChooseVariant(w, x) =>
               worker'[w].attempts = worker[w].attempts /\ worker'[w].edit = worker[w].edit
         /\ Read(w) => worker'[w].attempts = worker[w].attempts
                       /\ worker'[w].edit = job.attempts
         /\ PersistIntent(w) => worker'[w].attempts = worker[w].edit
                                /\ worker'[w].edit = job.attempts + 1
         /\ Claim(w) => UNCHANGED worker \/ worker'[w].attempts = job.attempts
<1>1. worker \in [Workers -> WorkerState] /\ worker[w] \in WorkerState
  BY DEF TypeInv, TypeOK
<1> USE <1>1 DEF WorkerState
<1>2. \A pc \in Pcs : Goto(w, pc) =>
        worker'[w].attempts = worker[w].attempts /\ worker'[w].edit = worker[w].edit
  BY DEF Goto
<1>3. \A pc \in {"close", "skip"}, s \in Closed, b \in BOOLEAN : Conclude(w, pc, s, b) =>
        worker'[w].attempts = worker[w].attempts /\ worker'[w].edit = worker[w].edit
  BY DEF Conclude
<1>4. \A x \in Variants : ChooseVariant(w, x) =>
        worker'[w].attempts = worker[w].attempts /\ worker'[w].edit = worker[w].edit
  BY DEF ChooseVariant
<1>5. /\ Read(w) => worker'[w].attempts = worker[w].attempts
                    /\ worker'[w].edit = job.attempts
      /\ PersistIntent(w) => worker'[w].attempts = worker[w].edit
                             /\ worker'[w].edit = job.attempts + 1
  BY DEF Read, PersistIntent
<1>6. Claim(w) => UNCHANGED worker \/ worker'[w].attempts = job.attempts
  <2> DEFINE c == [Idle EXCEPT !.pc = "read", !.attempts = job.attempts]
  <2>1. c.attempts = job.attempts
    BY DEF Idle
  <2>2. Claim(w) => UNCHANGED worker \/ worker' = [worker EXCEPT ![w] = c]
    BY DEF Claim
  <2> HIDE DEF c
  <2> QED
    BY <2>1, <2>2
<1> QED
  BY <1>2, <1>3, <1>4, <1>5, <1>6

LEMMA QuietCounts ==
  ASSUME TypeInv, NEW w \in Workers, Quiet(w)
  PROVE  \/ worker'[w].pc \notin Pushing
         \/ /\ worker'[w].attempts = worker[w].attempts
            /\ worker'[w].pc \in Deciding => worker[w].pc \in Deciding
            /\ worker'[w].pc \in {"edit", "commit"} => worker[w].pc \in {"edit", "commit"}
            /\ \/ worker'[w].edit = job.attempts /\ worker[w].pc = "read"
               \/ /\ worker'[w].edit = worker[w].edit
                  /\ worker'[w].pc \in Deciding \ {"read"} => worker[w].pc \in Deciding \ {"read"}
<1> USE DEF At, Pushing, Deciding, Editing, Checking
<1>p. Closed = {"SKIPPED", "FAILED", "COMMITTED"}
  BY DEF Closed
<1>1. CASE Read(w)
  BY <1>1, ReadMoves, GotoCounts DEF Read
<1>2. CASE CheckShop(w) \/ CheckSettings(w) \/ FetchOrder(w) \/ NoStock(w)
  <2>1. /\ worker[w].pc \in {"shop", "settings", "order", "stock"}
        /\ \/ \E pc \in {"settings", "order", "stock"} : Goto(w, pc)
           \/ \E s \in {"SKIPPED", "FAILED"}, b \in BOOLEAN : Conclude(w, "skip", s, b)
    BY <1>2 DEF CheckShop, CheckSettings, FetchOrder, NoStock
  <2> QED
    BY <2>1, <1>p, GotoMove, ConcludeMove, GotoCounts, PcSets
<1>3. CASE \E x \in Variants : ChooseVariant(w, x)
  BY <1>3, ChoiceMoves, GotoCounts DEF ChooseVariant
<1>4. CASE CallFails(w)
  <2>1. worker[w].pc \in {"order", "stock"} /\ (Goto(w, "requeue") \/ Rest(w))
    BY <1>4 DEF CallFails, DecisionFails
  <2> QED
    BY <2>1, GotoMove, RestMove, GotoCounts, PcSets
<1>5. CASE EditOrder(w) \/ CommitRejected(w) \/ CommitErrors(w)
  <2>1. /\ worker[w].pc \in {"edit", "commit"}
        /\ \/ \E pc \in {"commit", "scope", "requeue"} : Goto(w, pc)
           \/ \E s \in Closed, b \in BOOLEAN : Conclude(w, "close", s, b)
    BY <1>5, <1>p DEF EditOrder, CommitRejected, CommitErrors
  <2> QED
    BY <2>1, <1>p, GotoMove, ConcludeMove, GotoCounts, PcSets
<1>6. CASE FindUncertain(w) \/ QueryLines(w) \/ QueryFails(w) \/ ReadChoice(w)
  <2>1. \/ \E pc \in {"confirm", "mark", "charged", "free"} : Goto(w, pc)
        \/ Confirmed(w)
        \/ ReadChoice(w)
    BY <1>6 DEF FindUncertain, QueryLines, QueryFails
  <2> QED
    BY <2>1, GotoMove, EndMoves, ChoiceMoves, PcSets
<1>7. CASE Crash(w)
  BY <1>7, RestMove DEF Crash
<1>8. CASE StatementFails(w)
  <2>1. \/ worker[w].pc \in Pushing /\ Goto(w, "requeue")
        \/ Rest(w)
        \/ Confirmed(w)
    BY <1>8 DEF StatementFails, DecisionFails, Outcome
  <2> QED
    BY <2>1, GotoMove, RestMove, EndMoves, GotoCounts, PcSets
<1> QED
  BY <1>1, <1>2, <1>3, <1>4, <1>5, <1>6, <1>7, <1>8 DEF Quiet

LEMMA QuietBound ==
  ASSUME BoundInv, NEW w \in Workers, Quiet(w), TypeInv'
  PROVE  BoundInv'
<1>1. /\ UNCHANGED <<job, order>>
      /\ \A v \in Workers \ {w} : worker'[v] = worker[v]
      /\ worker'[w].pc \in Pushing => worker[w].pc \in Pushing
      /\ worker'[w].pc \in Past => worker[w].pc \in Past
  BY QuietMove DEF BoundInv
<1>2. SoleGiver' /\ GiverHolds'
  BY <1>1 DEF BoundInv, SoleGiver, GiverHolds
<1>3. \/ worker'[w].pc \notin Pushing
      \/ /\ worker'[w].attempts = worker[w].attempts
         /\ worker'[w].pc \in Deciding => worker[w].pc \in Deciding
         /\ worker'[w].pc \in {"edit", "commit"} => worker[w].pc \in {"edit", "commit"}
         /\ \/ worker'[w].edit = job.attempts /\ worker[w].pc = "read"
            \/ /\ worker'[w].edit = worker[w].edit
               /\ worker'[w].pc \in Deciding \ {"read"} => worker[w].pc \in Deciding \ {"read"}
  BY QuietCounts DEF BoundInv
<1>4. worker[w].pc = "read" => worker[w].pc \notin Past
  BY DEF Past, Editing
<1>5. Counted'
  <2>1. /\ worker'[w].pc \in Deciding =>
              job.attempts < MaxAttempts /\ worker'[w].attempts = job.attempts
        /\ worker'[w].pc \in Deciding \ {"read"} => worker'[w].edit = job.attempts
        /\ worker'[w].pc \in Past =>
              worker'[w].attempts + 1 = job.attempts /\ worker'[w].edit = job.attempts
        /\ worker'[w].pc = "requeue" =>
              job.attempts \in {worker'[w].attempts, worker'[w].attempts + 1}
    BY <1>1, <1>3, <1>4 DEF BoundInv, Counted, Pushing, Past, Deciding, Editing
  <2> QED
    BY <1>1, <2>1 DEF BoundInv, Counted
<1>6. Numbered'
  <2>1. worker'[w].pc \in {"edit", "commit"} =>
           worker[w].pc \in {"edit", "commit"} /\ worker'[w].edit = worker[w].edit
    BY <1>3 DEF Pushing, Editing
  <2> QED
    BY <1>1, <2>1 DEF BoundInv, Numbered, Gifts
<1> QED
  BY <1>2, <1>5, <1>6 DEF BoundInv

LEMMA LoudBound ==
  ASSUME BoundInv, "rival" \notin exposed', NEW w \in Workers, Loud(w), TypeInv'
  PROVE  BoundInv'
<1> DEFINE Others == \A v \in Workers \ {w} : worker'[v] = worker[v]
<1> USE DEF Pushing, Past, Deciding, Editing
<1>t. TypeInv /\ job.attempts \in Nat /\ MaxAttempts \in Nat
  BY Constants DEF BoundInv, TypeInv, TypeOK, JobRow
<1>o. worker[w].pc \in Pushing => \A v \in Workers \ {w} : worker[v].pc \notin Pushing
  BY DEF BoundInv, SoleGiver
<1>1. CASE Claim(w)
  <2>1. /\ job.status = "PENDING" /\ job'.status = "PENDING"
        /\ UNCHANGED order /\ job'.attempts = job.attempts
    BY <1>1, <1>t, JobWrites DEF Claim, SameIntent
  <2>2. job.attempts < MaxAttempts
    BY <2>1 DEF BoundInv, Counted
  <2>3. \/ UNCHANGED worker
        \/ /\ Others /\ worker'[w].pc = "read" /\ worker'[w].attempts = job.attempts
           /\ \A v \in Workers : worker[v].pc \notin Pushing
    BY <1>1, <1>t, ReadMoves, GotoCounts, ClaimAlone
  <2>4. SoleGiver' /\ GiverHolds'
    BY <2>1, <2>3 DEF BoundInv, SoleGiver, GiverHolds
  <2>5. Counted'
    BY <1>t, <2>1, <2>2, <2>3 DEF BoundInv, Counted
  <2>6. Numbered'
    BY <2>1, <2>2, <2>3 DEF BoundInv, Numbered, Gifts
  <2> QED
    BY <2>4, <2>5, <2>6 DEF BoundInv
<1>2. CASE PersistIntent(w)
  <2>1. /\ Others /\ worker[w].pc = "intent" /\ worker'[w].pc = "edit"
        /\ job'.status = "COMMIT_PENDING" /\ UNCHANGED order
    BY <1>2, <1>t, ChoiceMoves, IntentWrite DEF PersistIntent, OnlyJob, At
  <2>2. job'.attempts = job.attempts + 1
    BY <1>2, <1>t DEF PersistIntent, IntentRow, TypeInv, TypeOK, JobRow
  <2>3. worker'[w].attempts = job.attempts /\ worker'[w].edit = job.attempts + 1
    BY <1>2, <1>t, <2>1, GotoCounts DEF BoundInv, Counted
  <2>4. (\A v \in Workers \ {w} : worker[v].pc \notin Pushing) /\ job.attempts < MaxAttempts
    BY <1>o, <2>1 DEF BoundInv, Counted
  <2>5. SoleGiver' /\ GiverHolds'
    BY <2>1, <2>4 DEF SoleGiver, GiverHolds, Followed
  <2>6. Counted'
    BY <1>t, <2>1, <2>2, <2>3, <2>4 DEF Counted
  <2>7. Numbered'
    <3>1. Gifts' = Gifts
      BY <2>1 DEF Gifts
    <3>2. \A g \in Gifts : g.n \in 1 .. job.attempts + 1 /\ g.n # job.attempts + 1
      BY <1>t DEF BoundInv, Numbered
    <3> QED
      BY <2>1, <2>2, <2>3, <2>4, <3>1, <3>2 DEF BoundInv, Numbered
  <2> QED
    BY <2>5, <2>6, <2>7 DEF BoundInv
<1>3. CASE CommitApplied(w) \/ CommitLost(w)
  <2>1. /\ Others /\ worker[w].pc = "commit" /\ worker'[w].pc \in {"close", "uncertain"}
        /\ UNCHANGED job
        /\ worker'[w].attempts = worker[w].attempts /\ worker'[w].edit = worker[w].edit
    BY <1>3, <1>t, ConcludeMove, GotoMove, GotoCounts, PcSets
    DEF CommitApplied, CommitLost, AfterLostCommit, At, Closed
  <2>2. \A v \in Workers \ {w} : worker[v].pc \notin Pushing
    BY <1>o, <2>1
  <2>3. SoleGiver' /\ GiverHolds'
    BY <2>1, <2>2 DEF BoundInv, SoleGiver, GiverHolds
  <2>4. Counted'
    BY <2>1, <2>2 DEF BoundInv, Counted
  <2>5. Numbered'
    <3>1. Gifts' = Gifts \/ Gifts' = Gifts \cup {MyEdit(w)}
      BY <1>3, <1>t, OrderWrites
    <3>2. MyEdit(w).n = job.attempts /\ job.attempts \in 1 .. job.attempts
      <4>1. worker[w].edit = job.attempts /\ worker[w].attempts + 1 = job.attempts
        BY <2>1 DEF BoundInv, Counted
      <4>2. worker[w].attempts \in Nat
        BY <1>t DEF TypeInv, TypeOK, WorkerState
      <4> QED
        BY <1>t, <4>1, <4>2 DEF MyEdit
    <3>3. \A g \in Gifts : g.n # job.attempts
      BY <2>1 DEF BoundInv, Numbered, Counted
    <3>4. \A g, h \in Gifts' : g.n = h.n => g = h
      BY <3>1, <3>2, <3>3 DEF BoundInv, Numbered
    <3>5. \A g \in Gifts' : g.n \in 1 .. job.attempts
      BY <3>1, <3>2 DEF BoundInv, Numbered
    <3>6. \A v \in Workers : worker'[v].pc \notin {"edit", "commit"}
      BY <2>1, <2>2
    <3> QED
      BY <2>1, <3>4, <3>5, <3>6 DEF Numbered
  <2> QED
    BY <2>3, <2>4, <2>5 DEF BoundInv
<1>4. CASE MarkUncertain(w) \/ ScopeMissing(w) \/ Close(w) \/ Requeue(w)
  <2>1. /\ Others /\ worker[w].pc \in Pushing /\ worker'[w].pc \notin Pushing
        /\ UNCHANGED order
    BY <1>4, <1>t, GotoMove, RestMove, PcSets
    DEF MarkUncertain, ScopeMissing, Close, Requeue, At, OnlyJob
  <2>2. \A v \in Workers : worker'[v].pc \notin Pushing
    BY <1>o, <2>1
  <2>3. job'.attempts = job.attempts
    BY <1>4, <1>t, JobWrites DEF SameIntent
  <2>4. job'.status \in {"absent", "PENDING"} => job.attempts < MaxAttempts
    <3>1. CASE MarkUncertain(w) \/ ScopeMissing(w) \/ Close(w)
      BY <1>t, <3>1, JobWrites DEF BoundInv, Counted, Closed
    <3>2. CASE Requeue(w)
      <4>1. worker[w].attempts \in Nat /\ worker[w].pc = "requeue"
        BY <1>t, <3>2 DEF TypeInv, TypeOK, WorkerState, Requeue, At
      <4>2. job.attempts \in {worker[w].attempts, worker[w].attempts + 1}
        BY <4>1 DEF BoundInv, Counted
      <4>3. job'.status = "FAILED" \/ ~OutOfAttempts(worker[w].attempts + 1)
        BY <1>t, <3>2 DEF Requeue, TypeInv, TypeOK, JobRow
      <4> QED
        BY <1>t, <4>1, <4>2, <4>3 DEF OutOfAttempts
    <3> QED
      BY <1>4, <3>1, <3>2
  <2>5. SoleGiver' /\ GiverHolds'
    BY <2>2 DEF SoleGiver, GiverHolds
  <2>6. Counted' /\ Numbered'
    BY <2>1, <2>2, <2>3, <2>4 DEF BoundInv, Counted, Numbered, Gifts
  <2> QED
    BY <2>5, <2>6 DEF BoundInv
<1>5. CASE RecoverStale(w) \/ WriteConfirmed(w) \/ WriteCharged(w) \/ MarkReviewed(w)
  <2>1. Others /\ worker'[w].pc \notin Pushing /\ UNCHANGED order
    BY <1>5, <1>t, ReadMoves, EndMoves, RestMove
    DEF RecoverStale, WriteConfirmed, WriteCharged, MarkReviewed, OnlyJob
  <2>2. /\ job'.status = job.status \/ job'.status \in Followed
        /\ job'.attempts = job.attempts
    BY <1>5, <1>t, JobWrites DEF Followed, SameIntent
  <2>3. SoleGiver' /\ GiverHolds'
    BY <2>1, <2>2 DEF BoundInv, SoleGiver, GiverHolds, Followed
  <2>4. Counted' /\ Numbered'
    BY <2>1, <2>2 DEF BoundInv, Counted, Numbered, Gifts, Followed
  <2> QED
    BY <2>3, <2>4 DEF BoundInv
<1> QED
  BY <1>1, <1>2, <1>3, <1>4, <1>5 DEF Loud

LEMMA EnvironmentBound ==
  ASSUME BoundInv, Environment, TypeInv'
  PROVE  BoundInv'
<1>1. UNCHANGED worker
  BY DEF Environment, Enqueue, LeaseLapses, BackoffEnds, TimePasses, ApplyComing,
         CloseOrder, Uninstall, ChangeSchedule, Disable, SkipPending, OnlyJob
<1>2. Gifts' = Gifts
  <2>1. UNCHANGED order \/ ApplyComing \/ CloseOrder
    BY DEF Environment, Enqueue, LeaseLapses, BackoffEnds, TimePasses, Uninstall,
           ChangeSchedule, Disable, SkipPending, OnlyJob
  <2> QED
    BY <2>1, OrderElsewhere DEF BoundInv, Gifts
<1>3. /\ job'.attempts = job.attempts
      /\ \/ job'.status = job.status
         \/ job.status = "absent" /\ job'.status = "PENDING"
         \/ job'.status = "SKIPPED"
  BY EnvironmentWrites
  DEF Environment, ApplyComing, CloseOrder, Uninstall, ChangeSchedule, Disable, BoundInv,
      SameIntent
<1>4. SoleGiver'
  BY <1>1 DEF BoundInv, SoleGiver
<1>5. GiverHolds'
  <2>2. job'.status = "SKIPPED" /\ job.status # "SKIPPED" =>
          \A w \in Workers : worker[w].pc \notin Past
    <3>1. job'.status = "SKIPPED" /\ job.status # "SKIPPED" => job.status = "PENDING"
      BY EnvironmentWrites
      DEF Environment, ApplyComing, CloseOrder, Uninstall, ChangeSchedule, Disable, BoundInv
    <3> QED
      BY <3>1 DEF BoundInv, GiverHolds, Followed, Pushing, Past
  <2> QED
    BY <1>1, <1>3, <2>2 DEF BoundInv, GiverHolds, Followed
<1>6. Counted' /\ Numbered'
  BY <1>1, <1>2, <1>3 DEF BoundInv, Counted, Numbered
<1> QED
  BY <1>4, <1>5, <1>6 DEF BoundInv

LEMMA BoundCorrect == Spec => [](TypeInv /\ ("rival" \notin exposed => BoundInv))
<1> DEFINE IInv == TypeInv /\ ("rival" \notin exposed => BoundInv)
<1>1. Init => IInv
  <2> SUFFICES ASSUME Init PROVE BoundInv
    BY InitType
  <2>1. (\A w \in Workers : worker[w].pc = "idle") /\ Gifts = {} /\ job.attempts = 0
    BY DEF Init, Idle, Gifts, NoJob
  <2> QED
    BY <2>1, InitType, GiftAssumption
    DEF BoundInv, SoleGiver, GiverHolds, Counted, Numbered, Pushing, Past, Deciding, Editing
<1>2. IInv /\ [Next]_vars => IInv'
  <2> SUFFICES ASSUME IInv, [Next]_vars, "rival" \notin exposed' PROVE BoundInv'
    BY NextType
  <2> BoundInv
    BY ExposedGrows
  <2>1. TypeInv'
    BY NextType DEF BoundInv
  <2>2. ASSUME NEW w \in Workers, Work(w)
        PROVE  BoundInv'
    BY <2>1, <2>2, WorkKinds, QuietBound, LoudBound
  <2>3. CASE Environment
    BY <2>1, <2>3, EnvironmentBound
  <2>4. CASE UNCHANGED vars
    BY <2>1, <2>4 DEF vars, BoundInv, SoleGiver, GiverHolds, Counted, Numbered, Gifts
  <2> QED
    BY <2>2, <2>3, <2>4 DEF Next, Work
<1> QED
  BY <1>1, <1>2, PTL DEF Spec

(* Whatever faults there are, unwritten answers to commits included, there *)
(* are never more gifts than intents counted, and never more of these than *)
(* maxAttempts, in every history up to the first claim of the job under a  *)
(* decision.                                                               *)
THEOREM AttemptsCorrect == Spec => []GiftsWithinAttempts
<1>1. ASSUME "rival" \notin exposed => BoundInv PROVE GiftsWithinAttempts
  <2> SUFFICES ASSUME BoundInv
               PROVE  job.attempts <= MaxAttempts /\ Cardinality(Gifts) <= job.attempts
    BY <1>1 DEF GiftsWithinAttempts
  <2> DEFINE f == [g \in Gifts |-> g.n]
             T == 1 .. job.attempts
  <2>1. job.attempts \in Nat /\ job.attempts <= MaxAttempts
    BY DEF BoundInv, Counted, TypeInv, TypeOK, JobRow
  <2>2. f \in Injection(Gifts, T)
    BY DEF BoundInv, Numbered, Injection, IsInjective
  <2>3. IsFiniteSet(T) /\ Cardinality(T) = job.attempts
    BY <2>1, FS_Interval
  <2>4. Cardinality(Gifts) <= Cardinality(T)
    BY <2>2, <2>3, FS_Injection
  <2> QED
    BY <2>1, <2>3, <2>4
<1> QED
  BY <1>1, BoundCorrect, PTL
-----------------------------------------------------------------------------
(* That the engine keeps what OneGift promises. Besides the invariants     *)
(* above: nobody decides about a job that recovery is after, and a         *)
(* recovery that will write has a job to itself, since "old" means that    *)
(* every invocation that could still write it has ended.                   *)
Confirming == {"confirm", "query", "free", "charged"}
Undecided  ==
    \A w \in Workers : worker[w].pc \in Deciding => job.status \in {"PENDING", "SKIPPED"}
Unrivalled ==
    job.old \/ (\E w \in Workers : worker[w].pc \in Confirming) =>
        job.status \in Followed /\ \A w \in Workers : worker[w].pc \notin Pushing
PromiseInv == Inv /\ BackedInv /\ BoundInv /\ Undecided /\ Unrivalled

(* A write makes the job young; a recovery begins with an old one, or with *)
(* the worker whose commit got no answer.                                  *)
LEMMA OldJobs ==
  ASSUME TypeInv, [Next]_vars, job'.old
  PROVE  job.old \/ TimePasses
<1>1. job \in JobRow
  BY DEF TypeInv, TypeOK
<1>2. ASSUME NEW w \in Workers, Work(w)
      PROVE  job.old
  <2>1. Quiet(w) => UNCHANGED job
    BY QuietMove
  <2>2. Claim(w) \/ MarkUncertain(w) \/ ScopeMissing(w) \/ Close(w) \/ WriteConfirmed(w)
        \/ WriteCharged(w) => ~job'.old
    BY <1>1 DEF Claim, MarkUncertain, ScopeMissing, Close, WriteConfirmed, WriteCharged, JobRow
  <2>3. PersistIntent(w) \/ Requeue(w) => ~job'.old
    BY <1>1 DEF PersistIntent, IntentRow, Requeue, JobRow
  <2>4. RecoverStale(w) \/ MarkReviewed(w) => ~job'.old \/ UNCHANGED job
    BY <1>1 DEF RecoverStale, MarkReviewed, JobRow
  <2>5. CommitApplied(w) \/ CommitLost(w) => UNCHANGED job
    BY DEF CommitApplied, CommitLost
  <2> QED
    BY <1>2, <2>1, <2>2, <2>3, <2>4, <2>5, WorkKinds DEF Loud
<1>3. Environment => job.old \/ TimePasses
  <2>1. Enqueue \/ LeaseLapses \/ BackoffEnds \/ SkipPending => job'.old = job.old \/ ~job'.old
    BY <1>1 DEF Enqueue, LeaseLapses, BackoffEnds, SkipPending, JobRow
  <2>2. ApplyComing \/ CloseOrder \/ Uninstall \/ ChangeSchedule \/ Disable => UNCHANGED job
    BY DEF ApplyComing, CloseOrder, Uninstall, ChangeSchedule, Disable
  <2> QED
    BY <2>1, <2>2 DEF Environment
<1> QED
  BY <1>2, <1>3 DEF Next, Work, vars

LEMMA ConfirmingFrom ==
  ASSUME TypeInv, NEW w \in Workers, Work(w), worker'[w].pc \in Confirming
  PROVE  worker[w].pc \in Confirming \/ MarkUncertain(w) \/ job.old
<1> USE DEF At, Confirming
<1>1. CASE Loud(w)
  BY <1>1, LoudMove
<1>2. CASE Quiet(w)
  <2>1. CASE FindUncertain(w)
    <3>1. Goto(w, "mark") \/ job.old
      BY <2>1 DEF FindUncertain, LongUncertain
    <3> QED
      BY <3>1, GotoMove, PcSets
  <2>2. CASE ReadChoice(w) \/ QueryLines(w) \/ QueryFails(w)
    BY <2>2 DEF ReadChoice, QueryLines, QueryFails
  <2>3. CASE Read(w) \/ \E x \in Variants : ChooseVariant(w, x)
    BY <2>3, ReadMoves, ChoiceMoves
  <2>4. CASE CheckShop(w) \/ CheckSettings(w) \/ FetchOrder(w) \/ NoStock(w) \/ EditOrder(w)
             \/ CommitRejected(w) \/ CommitErrors(w)
    <3>1. \/ \E pc \in {"settings", "order", "stock", "commit", "scope", "requeue"} : Goto(w, pc)
          \/ \E pc \in {"close", "skip"}, s \in Closed, b \in BOOLEAN : Conclude(w, pc, s, b)
      BY <2>4 DEF CheckShop, CheckSettings, FetchOrder, NoStock, EditOrder, CommitRejected,
                  CommitErrors, Closed
    <3> QED
      BY <3>1, GotoMove, ConcludeMove, PcSets
  <2>5. CASE CallFails(w) \/ Crash(w)
    BY <2>5, EndMoves, RestMove DEF CallFails, Crash
  <2>6. CASE StatementFails(w)
    <3>1. Goto(w, "requeue") \/ DecisionFails(w) \/ Rest(w) \/ Confirmed(w)
      BY <2>6 DEF StatementFails
    <3> QED
      BY <3>1, GotoMove, EndMoves, RestMove, PcSets
  <2> QED
    BY <1>2, <2>1, <2>2, <2>3, <2>4, <2>5, <2>6 DEF Quiet
<1> QED
  BY <1>1, <1>2, WorkKinds

LEMMA EnvironmentRests == Environment => UNCHANGED worker
  BY DEF Environment, Enqueue, LeaseLapses, BackoffEnds, TimePasses, ApplyComing, CloseOrder,
         Uninstall, ChangeSchedule, Disable, SkipPending, OnlyJob

(* A job that recovery is after, with nobody deciding, stays that way. *)
LEMMA FollowedStays ==
  ASSUME TypeInv, [Next]_vars, job.status \in Followed,
         \A v \in Workers : worker[v].pc \notin Pushing
  PROVE  job'.status \in Followed /\ \A v \in Workers : worker'[v].pc \notin Pushing
<1> USE DEF Pushing, Deciding, Editing, Followed
<1>1. ASSUME NEW w \in Workers, Quiet(w)
      PROVE  job'.status \in Followed /\ \A v \in Workers : worker'[v].pc \notin Pushing
  BY <1>1, QuietMove
<1>2. ASSUME NEW w \in Workers, Loud(w)
      PROVE  job'.status \in Followed /\ \A v \in Workers : worker'[v].pc \notin Pushing
  <2>1. RecoverStale(w) \/ WriteConfirmed(w) \/ WriteCharged(w) \/ MarkReviewed(w)
    BY <1>2 DEF Loud, Claim, PersistIntent, CommitApplied, CommitLost, MarkUncertain,
                ScopeMissing, Close, Requeue, At
  <2>2. job'.status \in Followed
    BY <2>1, JobWrites
  <2>3. /\ worker'[w].pc \in {"find", "idle", "mark"}
        /\ \A v \in Workers \ {w} : worker'[v] = worker[v]
    BY <2>1, ReadMoves, EndMoves, RestMove DEF RecoverStale, WriteConfirmed, WriteCharged,
                                              MarkReviewed
  <2> QED
    BY <2>2, <2>3
<1>3. CASE Environment
  BY <1>3, EnvironmentRests, EnvironmentWrites
  DEF Environment, ApplyComing, CloseOrder, Uninstall, ChangeSchedule, Disable
<1>4. CASE UNCHANGED vars
  BY <1>4 DEF vars
<1> QED
  BY <1>1, <1>2, <1>3, <1>4, WorkKinds DEF Next, Work

LEMMA UnrivalledNext ==
  ASSUME Inv, Unrivalled, [Next]_vars PROVE Unrivalled'
<1> SUFFICES ASSUME (job.old \/ \E w \in Workers : worker[w].pc \in Confirming)'
             PROVE  job'.status \in Followed /\ \A v \in Workers : worker'[v].pc \notin Pushing
  BY DEF Unrivalled
<1>t. TypeInv
  BY DEF Inv
<1>1. CASE job.old \/ \E w \in Workers : worker[w].pc \in Confirming
  BY <1>t, <1>1, FollowedStays DEF Unrivalled
<1>2. CASE TimePasses
  BY <1>t, <1>2, EnvironmentWrites
  DEF TimePasses, At, OnlyJob, Followed, Pushing, Deciding, Editing
<1>3. ASSUME NEW w \in Workers, MarkUncertain(w)
      PROVE  job'.status \in Followed /\ \A v \in Workers : worker'[v].pc \notin Pushing
  <2>1. worker[w].pc = "uncertain" /\ worker[w].pc \in Pushing
    BY <1>3 DEF MarkUncertain, At, Pushing, Editing
  <2>2. /\ worker'[w].pc = "confirm" /\ "confirm" \notin Pushing
        /\ \A v \in Workers \ {w} : worker'[v] = worker[v]
    BY <1>t, <1>3, GotoMove, PcSets DEF MarkUncertain, Pushing, Deciding, Editing
  <2> QED
    BY <1>t, <1>3, <2>1, <2>2, OnlyOne, JobWrites DEF Followed
<1>4. ASSUME ~(job.old \/ \E w \in Workers : worker[w].pc \in Confirming), ~TimePasses,
             \A w \in Workers : ~MarkUncertain(w)
      PROVE  FALSE
  <2>1. ~job'.old
    BY <1>t, <1>4, OldJobs
  <2>2. PICK v \in Workers : worker'[v].pc \in Confirming
    BY <2>1
  <2>3. worker'[v] # worker[v]
    BY <1>4, <2>2
  <2>4. Work(v)
    <3>1. ASSUME NEW w \in Workers, Work(w) PROVE v = w \/ worker'[v] = worker[v]
      BY <1>t, <3>1, WorkKinds, QuietMove, LoudMove
    <3> QED
      BY <2>3, <3>1, EnvironmentRests DEF Next, Work, vars
  <2> QED
    BY <1>t, <1>4, <2>2, <2>4, ConfirmingFrom
<1> QED
  BY <1>1, <1>2, <1>3, <1>4

LEMMA UndecidedNext ==
  ASSUME Inv, Undecided, Unrivalled, [Next]_vars PROVE Undecided'
<1> USE DEF Pushing, Deciding, Editing
<1> SUFFICES ASSUME NEW v \in Workers, worker'[v].pc \in Deciding
             PROVE  job'.status \in {"PENDING", "SKIPPED"}
  BY DEF Undecided
<1>t. TypeInv
  BY DEF Inv
<1>1. ASSUME NEW w \in Workers, Quiet(w)
      PROVE  job'.status \in {"PENDING", "SKIPPED"}
  <2>1. worker[v].pc \in Deciding /\ UNCHANGED job
    BY <1>t, <1>1, QuietMove, QuietCounts
  <2> QED
    BY <2>1 DEF Undecided
<1>2. ASSUME NEW w \in Workers, Loud(w)
      PROVE  job'.status \in {"PENDING", "SKIPPED"}
  <2>1. CASE Claim(w)
    BY <1>t, <2>1, JobWrites
  <2>2. CASE ~Claim(w)
    <3>1. v # w /\ worker[v].pc \in Deciding
      BY <1>t, <1>2, <2>2, LoudMove
    <3>2. worker[w].pc \notin Pushing /\ job.status \in {"PENDING", "SKIPPED"}
      BY <3>1, OnlyOne DEF Undecided
    <3>3. worker[w].pc \notin Confirming
      BY <3>1, <3>2 DEF Unrivalled, Followed
    <3>4. RecoverStale(w) \/ MarkReviewed(w)
      BY <1>2, <2>2, <3>2, <3>3 DEF Loud, PersistIntent, CommitApplied, CommitLost,
         MarkUncertain, ScopeMissing, Close, Requeue, WriteConfirmed, WriteCharged, At, Confirming
    <3> QED
      BY <1>t, <3>2, <3>4, JobWrites
  <2> QED
    BY <2>1, <2>2
<1>3. CASE Environment
  BY <1>t, <1>3, EnvironmentRests, EnvironmentWrites
  DEF Environment, ApplyComing, CloseOrder, Uninstall, ChangeSchedule, Disable, Undecided
<1>4. CASE UNCHANGED vars
  BY <1>4 DEF vars, Undecided
<1> QED
  BY <1>1, <1>2, <1>3, <1>4, WorkKinds DEF Next, Work

LEMMA PromiseInvCorrect == Spec => [](exposed = {} => PromiseInv)
<1> DEFINE Early == exposed = {} => Undecided /\ Unrivalled
<1>1. Init => Early
  BY DEF Init, Undecided, Unrivalled, NoJob, Idle, Deciding, Confirming
<1>2. (Sheltered => Inv) /\ Early /\ [Next]_vars => Early'
  <2> SUFFICES ASSUME Sheltered => Inv, Early, [Next]_vars, exposed' = {}
               PROVE  Undecided' /\ Unrivalled'
    OBVIOUS
  <2>1. exposed = {}
    BY ExposedGrows
  <2> QED
    BY <2>1, UndecidedNext, UnrivalledNext DEF Sheltered
<1>3. (/\ Sheltered => Inv
       /\ "misread" \notin exposed => BackedInv
       /\ "rival" \notin exposed => BoundInv
       /\ Early)
      => (exposed = {} => PromiseInv)
  BY DEF Sheltered, PromiseInv
<1> HIDE DEF Early
<1> QED
  BY <1>1, <1>2, <1>3, InvCorrect, BackedCorrect, BoundCorrect, PTL DEF Spec

(* What the job says, in the words of the promise. *)
LEMMA WordsOf ==
  /\ \A s \in {"absent", "PENDING"} : WordOf(s) = "open"
  /\ \A s \in {"COMMIT_PENDING", "UNCERTAIN"} : WordOf(s) = "sought"
  /\ WordOf("COMMITTED") = "given"
  /\ \A s \in {"SKIPPED", "FAILED"} : WordOf(s) = "refused"
  BY DEF WordOf

(* Whether an attempt is under way depends on the worker that moved only.  *)
LEMMA TryingMoves ==
  ASSUME PromiseInv, NEW w \in Workers, \A v \in Workers \ {w} : worker'[v] = worker[v]
  PROVE  /\ worker[w].pc \in Pushing =>
               /\ Trying  <=> worker[w].pc \in {"edit", "commit"}
               /\ Trying' <=> worker'[w].pc \in {"edit", "commit"}
         /\ worker[w].pc \notin {"edit", "commit"} /\ worker'[w].pc \notin {"edit", "commit"} =>
               (Trying' <=> Trying)
<1>1. worker[w].pc \in Pushing => \A v \in Workers \ {w} : worker[v].pc \notin Pushing
  BY OnlyOne DEF PromiseInv
<1> QED
  BY <1>1 DEF Trying, Pushing, Editing

LEMMA NoGiftOf ==
  ASSUME PromiseInv, NEW w \in Workers, worker[w].pc \in Pushing, ~GiftMade(worker[w])
  PROVE  order.lines = {} /\ order.coming = {}
  BY DEF PromiseInv, Inv, GiftEnds, Gifts

(* What the promise sees of a state, besides whether it is kept.           *)
Seen == <<order.lines, order.coming, Trying, WordOf(job.status)>>

(* A decision that ends an attempt gives up; no other silent step shows. *)
LEMMA QuietPromise ==
  ASSUME PromiseInv, NEW w \in Workers, Quiet(w)
  PROVE  Promise!GiveUp \/ UNCHANGED Seen
<1>1. /\ UNCHANGED <<job, order>> /\ \A v \in Workers \ {w} : worker'[v] = worker[v]
      /\ worker'[w].pc \in {"edit", "commit"} => worker[w].pc \in {"edit", "commit"}
  BY QuietMove, QuietCounts DEF PromiseInv, Inv, Pushing, Editing
<1>2. (Trying' <=> Trying) \/ (Trying /\ ~Trying')
  BY <1>1 DEF Trying
<1>3. /\ order'.lines = order.lines /\ order'.coming = order.coming
      /\ WordOf(job.status)' = WordOf(job.status)
  BY <1>1 DEF WordOf
<1>4. CASE Trying' <=> Trying
  BY <1>3, <1>4 DEF Seen, Trying
<1>5. CASE Trying /\ ~Trying'
  BY <1>3, <1>5 DEF Promise!GiveUp, Trying
<1> QED
  BY <1>2, <1>4, <1>5

(* Persisting the intent is the attempt's announcement. *)
LEMMA IntentPromise ==
  ASSUME PromiseInv, NEW w \in Workers, PersistIntent(w)
  PROVE  Promise!Try
<1>1. /\ worker[w].pc = "intent" /\ worker'[w].pc = "edit"
      /\ \A v \in Workers \ {w} : worker'[v] = worker[v]
      /\ job'.status = "COMMIT_PENDING" /\ UNCHANGED order
  BY ChoiceMoves, IntentWrite DEF PersistIntent, At, OnlyJob, PromiseInv, Inv
<1>2. ~Trying /\ Trying'
  BY <1>1, TryingMoves DEF Pushing, Deciding
<1>3. order.lines = {} /\ order.coming = {}
  BY <1>1, NoGiftOf DEF GiftMade, Pushing, Deciding
<1>4. WordOf(job.status) \in {"open", "refused"} /\ WordOf(job.status)' = "sought"
  BY <1>1, WordsOf DEF PromiseInv, Undecided, Deciding
<1> QED
  BY <1>1, <1>2, <1>3, <1>4 DEF Promise!Try, Promise!NoGiftYet, Trying

(* The commit adds the gift, now or later, or nothing comes of it. *)
LEMMA CommitPromise ==
  ASSUME PromiseInv, NEW w \in Workers, CommitApplied(w) \/ CommitLost(w)
  PROVE  Promise!GiveUp \/ \E g \in [n : 1 .. MaxAttempts, v : Variants] : Promise!Add(g)
<1> DEFINE e == MyEdit(w)
<1>1. /\ worker[w].pc = "commit" /\ worker'[w].pc \in {"close", "uncertain"}
      /\ \A v \in Workers \ {w} : worker'[v] = worker[v]
  BY ConcludeMove, GotoMove, PcSets
  DEF CommitApplied, CommitLost, AfterLostCommit, At, PromiseInv, Inv, Closed
<1>2. Trying /\ ~Trying'
  BY <1>1, TryingMoves DEF Pushing, Editing
<1>3. order.lines = {} /\ order.coming = {}
  BY <1>1, NoGiftOf DEF GiftMade, Pushing, Editing
<1>4. e \in [n : 1 .. MaxAttempts, v : Variants]
  <2>1. worker[w].variant \in Variants
    BY <1>1 DEF PromiseInv, Inv, TypeInv, Prepared
  <2>2. /\ worker[w].edit = job.attempts /\ worker[w].attempts + 1 = job.attempts
        /\ job.attempts <= MaxAttempts
    BY <1>1 DEF PromiseInv, BoundInv, Counted, Past, Editing
  <2>3. worker[w].attempts \in Nat /\ job.attempts \in Nat
    BY DEF PromiseInv, Inv, TypeInv, TypeOK, WorkerState, JobRow
  <2>4. worker[w].edit \in 1 .. MaxAttempts
    BY <2>2, <2>3, Constants
  <2> QED
    BY <2>1, <2>4 DEF MyEdit
<1>5. WordOf(job.status)' = WordOf(job.status)
  BY DEF WordOf, CommitApplied, CommitLost
<1>6. \/ order' = order
      \/ order' = [order EXCEPT !.lines = @ \cup {e}]
      \/ order' = [order EXCEPT !.coming = @ \cup {e}]
  BY DEF CommitApplied, CommitLost
<1> HIDE DEF e
<1>7. order \in [open : BOOLEAN, lines : SUBSET Edit, coming : SUBSET Edit]
  BY DEF PromiseInv, Inv, TypeInv, TypeOK
<1>8. \/ order'.lines = order.lines /\ order'.coming = order.coming
      \/ order'.lines = {e} /\ order'.coming = order.coming
      \/ order'.lines = order.lines /\ order'.coming = {e}
  BY <1>3, <1>6, <1>7
<1>9. CASE order'.lines = order.lines /\ order'.coming = order.coming
  BY <1>2, <1>5, <1>9 DEF Promise!GiveUp, Trying
<1>10. CASE \/ order'.lines = {e} /\ order'.coming = order.coming
            \/ order'.lines = order.lines /\ order'.coming = {e}
  <2>1. Promise!Add(e)
    BY <1>2, <1>3, <1>5, <1>10 DEF Promise!Add, Promise!NoGiftYet, Trying
  <2> QED
    BY <1>4, <2>1
<1> QED
  BY <1>8, <1>9, <1>10

(* Whatever else a worker writes in the job is something the promise lets it *)
(* say.                                                                      *)
LEMMA WritePromise ==
  ASSUME PromiseInv, NEW w \in Workers, Loud(w), ~PersistIntent(w),
         ~(CommitApplied(w) \/ CommitLost(w))
  PROVE  (\E s \in Promise!Words : Promise!Say(s)) \/ UNCHANGED Seen
<1>t. TypeInv
  BY DEF PromiseInv, Inv
<1>o. order'.lines = order.lines /\ order'.coming = order.coming
  BY DEF Loud, Claim, MarkUncertain, ScopeMissing, Close, Requeue, RecoverStale, WriteConfirmed,
         WriteCharged, MarkReviewed, OnlyJob
<1>m. UNCHANGED worker \/ \A v \in Workers \ {w} : worker'[v] = worker[v]
  BY <1>t, LoudMove
<1>p. /\ worker[w].pc \notin {"edit", "commit"}
      /\ UNCHANGED worker \/ worker'[w].pc \notin {"edit", "commit"}
  BY <1>t, LoudMove DEF Loud, Claim, At
<1>y. Trying' <=> Trying
  BY <1>m, <1>p, TryingMoves DEF Trying
<1> DEFINE old == WordOf(job.status)
           new == WordOf(job.status)'
<1>1. new = old \/ (new = "sought" /\ old = "given")
        \/ (new = "given" /\ order.lines # {})
        \/ (new \in {"open", "refused"} /\ order.lines = {} /\ order.coming = {} /\ ~Trying)
  <2>1. CASE Claim(w) \/ ScopeMissing(w) \/ MarkReviewed(w)
    BY <1>t, <2>1, JobWrites
  <2>2. CASE MarkUncertain(w)
    <3>1. job.status \in Followed /\ job'.status = "UNCERTAIN"
      BY <1>t, <2>2, JobWrites
      DEF MarkUncertain, At, PromiseInv, Inv, GiverHolds, Pushing, Past, Editing
    <3> QED
      BY <3>1, WordsOf DEF Followed
  <2>3. CASE Close(w) \/ Requeue(w)
    <3>1. worker[w].pc \in {"close", "skip", "requeue"}
      BY <2>3 DEF Close, Requeue, At
    <3>2. \/ job'.status = "COMMITTED" /\ order.lines # {}
          \/ job'.status \in {"PENDING", "SKIPPED", "FAILED"} /\ ~GiftMade(worker[w])
      BY <1>t, <2>3, JobWrites
      DEF Close, Requeue, At, Closed, GiftMade, PromiseInv, BackedInv, Backed
    <3>3. ~Trying
      BY <1>m, <3>1, <1>p, TryingMoves DEF Pushing, Deciding, Editing, Trying
    <3>4. ~GiftMade(worker[w]) => order.lines = {} /\ order.coming = {}
      BY <3>1, NoGiftOf DEF Pushing, Deciding, Editing
    <3> QED
      BY <3>2, <3>3, <3>4, WordsOf
  <2>4. CASE RecoverStale(w)
    BY <1>t, <2>4, JobWrites, WordsOf
  <2>5. CASE WriteConfirmed(w)
    <3>1. order.lines # {}
      BY <2>5 DEF WriteConfirmed, At, PromiseInv, BackedInv, Backed
    <3> QED
      BY <1>t, <2>5, <3>1, JobWrites, WordsOf
  <2>6. CASE WriteCharged(w)
    <3>1. job.status \in Followed
      BY <2>6 DEF WriteCharged, At, PromiseInv, Unrivalled, Confirming
    <3> QED
      BY <1>t, <2>6, <3>1, JobWrites, WordsOf DEF Followed
  <2> QED
    BY <2>1, <2>2, <2>3, <2>4, <2>5, <2>6 DEF Loud
<1>2. CASE new = old
  BY <1>o, <1>y, <1>2 DEF Seen, Trying
<1>3. CASE new # old
  <2>1. new \in Promise!Words
    BY <1>1, <1>3 DEF Promise!Words
  <2>2. Promise!Say(new)
    <3> HIDE DEF old, new
    <3> QED
      BY <1>o, <1>y, <1>1, <1>3 DEF Promise!Say, Promise!NoGiftYet, Trying, old, new
  <2> QED
    BY <2>1, <2>2
<1> QED
  BY <1>2, <1>3

LEMMA EnvironmentPromise ==
  ASSUME PromiseInv, Environment
  PROVE  \/ Promise!Step
         \/ UNCHANGED Seen
<1>t. TypeInv
  BY DEF PromiseInv, Inv
<1>w. Trying' <=> Trying
  BY EnvironmentRests DEF Trying
<1>1. CASE ApplyComing
  <2>1. PICK e \in order.coming :
           order' = [order EXCEPT !.lines = @ \cup {e}, !.coming = @ \ {e}]
    BY <1>1 DEF ApplyComing
  <2>2. order \in [open : BOOLEAN, lines : SUBSET Edit, coming : SUBSET Edit]
    BY <1>t DEF TypeInv, TypeOK
  <2>3. e \in [n : 1 .. MaxAttempts, v : Variants]
    <3>1. e \in Edit /\ e.n \in 1 .. job.attempts
      BY <2>2 DEF PromiseInv, BoundInv, Numbered, Gifts
    <3>2. job.attempts \in Nat /\ job.attempts <= MaxAttempts
      BY <1>t DEF PromiseInv, BoundInv, Counted, TypeInv, TypeOK, JobRow
    <3>3. e.n \in 1 .. MaxAttempts
      BY <3>1, <3>2, Constants
    <3> QED
      BY <3>1, <3>3 DEF Edit
  <2>4. order'.lines = order.lines \cup {e} /\ order'.coming = order.coming \ {e}
    BY <2>1, <2>2
  <2>5. WordOf(job.status)' = WordOf(job.status)
    BY <1>1 DEF ApplyComing, WordOf
  <2>6. Promise!Arrive(e)
    BY <1>w, <2>1, <2>4, <2>5 DEF Promise!Arrive, Trying
  <2> QED
    BY <2>3, <2>6 DEF Promise!Step
<1>2. CASE ~ApplyComing
  <2>1. order'.lines = order.lines /\ order'.coming = order.coming
    <3>1. CASE CloseOrder
      BY <1>t, <3>1 DEF CloseOrder, TypeInv, TypeOK
    <3> QED
      BY <1>2, <3>1 DEF Environment, Enqueue, LeaseLapses, BackoffEnds, TimePasses, Uninstall,
                        ChangeSchedule, Disable, SkipPending, OnlyJob
  <2>2. \/ WordOf(job.status)' = WordOf(job.status)
        \/ job.status = "PENDING" /\ job'.status = "SKIPPED"
    BY <1>t, <1>2, EnvironmentWrites, WordsOf
    DEF Environment, CloseOrder, Uninstall, ChangeSchedule, Disable
  <2>3. CASE WordOf(job.status)' = WordOf(job.status)
    BY <1>w, <2>1, <2>3 DEF Seen, Trying
  <2>4. CASE job.status = "PENDING" /\ job'.status = "SKIPPED"
    <3>1. order.lines = {} /\ order.coming = {}
      BY <2>4 DEF PromiseInv, Inv, GiftEnds, Gifts, Followed
    <3>2. ~Trying
      BY <2>4 DEF PromiseInv, Inv, GiverHolds, Trying, Pushing, Past, Editing, Followed
    <3>3. WordOf(job.status)' = "refused" /\ "refused" \in Promise!Words
      BY <2>4, WordsOf DEF Promise!Words
    <3>4. Promise!Say("refused")
      BY <1>w, <2>1, <3>1, <3>2, <3>3 DEF Promise!Say, Promise!NoGiftYet, Trying
    <3> QED
      BY <3>3, <3>4 DEF Promise!Step
  <2> QED
    BY <2>2, <2>3, <2>4
<1> QED
  BY <1>1, <1>2

(* The engine implements OneGift: until the promise is broken off, by the  *)
(* first exposure, each of its steps is one that the promise allows, or    *)
(* none it can see.                                                        *)
THEOREM ImplementsOneGiftCorrect == Spec => ImplementsOneGift
<1>1. Init => Promise!Init
  BY WordsOf DEF Init, Promise!Init, NoJob, Idle, Trying
<1>2. (exposed = {} => PromiseInv) /\ [Next]_vars => [Promise!Next]_(Promise!vars)
  <2> SUFFICES ASSUME exposed = {} => PromiseInv, [Next]_vars
               PROVE  Promise!Next \/ UNCHANGED Promise!vars
    OBVIOUS
  <2>1. CASE exposed' # {}
    BY <2>1 DEF Promise!Next
  <2>2. CASE exposed' = {}
    <3>1. exposed = {} /\ PromiseInv
      BY <2>2, ExposedGrows
    <3>2. ASSUME NEW w \in Workers, Work(w)
          PROVE  Promise!Step \/ UNCHANGED Seen
      <4>1. CASE Quiet(w)
        BY <3>1, <4>1, QuietPromise DEF Promise!Step
      <4>2. CASE Loud(w)
        BY <3>1, <4>2, IntentPromise, CommitPromise, WritePromise DEF Promise!Step
      <4> QED
        BY <3>2, <4>1, <4>2, WorkKinds
    <3>3. ASSUME UNCHANGED vars
          PROVE  UNCHANGED Seen
      BY <3>3 DEF vars, Seen, Trying, WordOf
    <3>4. Promise!Step \/ UNCHANGED Seen
      BY <3>1, <3>2, <3>3, EnvironmentPromise DEF Next, Work
    <3>5. (exposed = {}) = TRUE /\ (exposed' = {}) = TRUE
      BY <2>2, <3>1
    <3>6. CASE Promise!Step
      BY <3>5, <3>6 DEF Promise!Next
    <3>7. CASE UNCHANGED Seen
      BY <3>5, <3>7 DEF Seen, Promise!vars
    <3> QED
      BY <3>4, <3>6, <3>7
  <2> QED
    BY <2>1, <2>2
<1> QED
  BY <1>1, <1>2, PromiseInvCorrect, PTL DEF Spec, ImplementsOneGift, Promise!Spec
=============================================================================
