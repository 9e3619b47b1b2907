------------------------ MODULE NotificationsProofs ------------------------
(***************************************************************************)
(* What holds of the summaries for any number of senders, events, types of *)
(* report and faults: the types, that no event is told twice or lost, that *)
(* a mail tells what its row says, and that a report stands.               *)
(***************************************************************************)
EXTENDS Notifications, TLAPS

(* What a row says: the summary and every supplement have events of their  *)
(* own, and every included event is in one of them.                        *)
Started(k) == outbox[k].status \notin {"none", "pending"}

Rows ==
    /\ \A k \in Keys : outbox[k].status = "none" => outbox[k].mail = {}
    /\ \A k \in Keys : k # Base /\ outbox[k].status # "none" => outbox[k].mail = k
    /\ \A k \in Keys : outbox[k].mail \subseteq included
    /\ \A e \in included : \E k \in Keys : e \in outbox[k].mail
    /\ \A j, k \in Keys : j # k => outbox[j].mail \cap outbox[k].mail = {}

(* What the transaction of a summary has read is good enough when it       *)
(* commits: its events are still to be included, and a row it will create  *)
(* is still missing.                                                       *)
SummaryHolds ==
    /\ summary.batch \subseteq occurred \ included
    /\ summary.joins => /\ summary.pending
                        /\ summary.key = Base
                        /\ outbox[Base].status # "none"
    /\ summary.batch # {} /\ ~summary.joins => /\ outbox[summary.key].status = "none"
                                               /\ summary.key \in {Base, summary.batch}

(* What a sender has read of its row, and what Resend has accepted.        *)
Held ==
    \A w \in Workers : ~At(w, "idle") =>
        /\ Started(Key(w))
        /\ worker[w].mail \subseteq outbox[Key(w)].mail
        /\ At(w, "send") /\ Key(w) \notin late => worker[w].mail = outbox[Key(w)].mail

Sent ==
    /\ \A m \in accepted :
          /\ Started(m[1])
          /\ m[2] \subseteq outbox[m[1]].mail
          /\ m[1] \notin late => m[2] = outbox[m[1]].mail
    /\ \A m, n \in accepted : m[1] = n[1] => m = n

(* Unless they crossed, one report at a time is between its read and its   *)
(* write, no sender holds its row, and what is applied stands.             *)
Alone(k) == \A w \in Workers : At(w, "idle") \/ Key(w) # k

Ranked ==
    \A k \in Reported \ crossed, t \in Types :
        /\ \A s \in Types \ {t} :
              ~(/\ report[<<k, s>>] \in {"apply", "keep"}
                /\ report[<<k, t>>] \in {"apply", "keep"})
        /\ report[<<k, t>>] \in {"keep", "applied"} =>
              Alone(k) /\ Rank(outbox[k].status) >= Rank(t)
        /\ \A s \in Types :
              report[<<k, t>>] = "apply" /\ report[<<k, s>>] = "applied" => Rank(t) >= Rank(s)

ReportedOn == \A k \in Reported, t \in Types : report[<<k, t>>] # "none" => Started(k)

IInv == TypeOK /\ Rows /\ SummaryHolds /\ Held /\ Sent /\ ReportedOn /\ Ranked

Webhook == {"delivered", "bounced", "suppressed", "complained"}

LEMMA Ranks ==
  /\ \A s : Rank(s) \in 0 .. 4
  /\ \A t \in Types : Rank(t) >= 1
  /\ \A s : Rank(s) >= 1 => s \in Webhook
BY NotificationAssumption DEF Rank, Webhook

Mails  == [status : {"none", "processing"} \cup Waiting \cup Given \cup Reached,
           mail : SUBSET Events, attempts : 0 .. MaxAttempts + 1, id : BOOLEAN]
Places == [pc : {"idle", "read", "send", "accepted", "refused"},
           key : Keys, mail : SUBSET Events, attempts : 0 .. MaxAttempts]

LEMMA InvInit == Init => IInv
<1> SUFFICES ASSUME Init PROVE IInv
  OBVIOUS
<1>1. NoMail \in Mails /\ Resting \in Places /\ Base \in Keys
  BY NotificationAssumption DEF NoMail, Mails, Resting, Places, Base, Keys
<1>2. TypeOK
  BY <1>1, NotificationAssumption DEF Init, TypeOK, Mails, Places, NoBatch, Base, Keys
<1>3. \A k \in Keys : outbox[k].status = "none" /\ outbox[k].mail = {}
  BY DEF Init, NoMail
<1>4. \A w \in Workers : At(w, "idle")
  BY DEF Init, Resting, At
<1>5. Rows
  BY <1>3 DEF Rows, Init
<1>6. SummaryHolds
  BY <1>3 DEF SummaryHolds, Init, NoBatch
<1>7. Held
  BY <1>4 DEF Held
<1>8. Sent
  BY DEF Init, Sent
<1>9. ReportedOn /\ Ranked
  <2>1. \A k \in Reported, t \in Types : report[<<k, t>>] = "none"
    BY DEF Init
  <2> QED
    BY <2>1 DEF ReportedOn, Ranked
<1> QED
  BY <1>2, <1>5, <1>6, <1>7, <1>8, <1>9 DEF IInv

-----------------------------------------------------------------------------
(* A step of a sender or of a report moves only the status, the attempts   *)
(* and the id of rows there are.                                           *)
Kept ==
    /\ UNCHANGED team
    /\ \A k \in Keys :
          \/ outbox'[k] = outbox[k]
          \/ /\ outbox[k].status # "none"
             /\ Started(k)'
             /\ outbox'[k].mail = outbox[k].mail

LEMMA KeptFacts ==
  ASSUME Kept, NEW k \in Keys
  PROVE  /\ outbox'[k].mail = outbox[k].mail
         /\ Started(k) => Started(k)'
         /\ outbox'[k].status = "none" <=> outbox[k].status = "none"
BY DEF Kept, Started

LEMMA KeptRows ==
  ASSUME IInv, Kept
  PROVE  Rows' /\ SummaryHolds'
<1>1. \A k \in Keys : /\ outbox'[k].mail = outbox[k].mail
                      /\ outbox'[k].status = "none" <=> outbox[k].status = "none"
  BY KeptFacts
<1>2. UNCHANGED <<occurred, included, summary>>
  BY DEF Kept, team
<1>3. Rows'
  BY <1>1, <1>2 DEF IInv, Rows
<1>4. SummaryHolds'
  <2>1. Base \in Keys /\ summary.key \in Keys
    BY DEF Base, Keys, IInv, TypeOK
  <2>2. PICK k \in Keys : k = summary.key
    BY <2>1
  <2> QED
    BY <1>1, <1>2, <2>1, <2>2 DEF IInv, SummaryHolds
<1> QED
  BY <1>3, <1>4

LEMMA KeptSent ==
  ASSUME IInv, Kept, accepted' = accepted
  PROVE  Sent'
<1>1. \A m \in accepted : m[1] \in Keys
  BY DEF IInv, TypeOK
<1>2. late' = late
  BY DEF Kept, team
<1> QED
  BY <1>1, <1>2, KeptFacts DEF IInv, Sent, Started

LEMMA KeptHeld ==
  ASSUME IInv, Kept,
         \A w \in Workers : worker'[w] = worker[w] \/ worker'[w].pc = "idle"
                            \/ /\ worker'[w].pc \in {"accepted", "refused"}
                               /\ worker[w].pc # "idle"
                               /\ worker'[w].key = worker[w].key
                               /\ worker'[w].mail = worker[w].mail
  PROVE  Held'
<1>1. \A w \in Workers : Key(w) \in Keys
  BY DEF IInv, TypeOK, Key
<1>2. late' = late
  BY DEF Kept, team
<1>3. ASSUME NEW w \in Workers, ~At(w, "idle")'
      PROVE  /\ Started(Key(w))'
             /\ worker'[w].mail \subseteq outbox'[Key(w)'].mail
             /\ At(w, "send")' /\ Key(w)' \notin late' =>
                   worker'[w].mail = outbox'[Key(w)'].mail
  <2>1. PICK k \in Keys : k = Key(w)
    BY <1>1
  <2>2. worker'[w].key = k /\ worker'[w].mail = worker[w].mail /\ ~At(w, "idle")
    BY <1>3, <2>1 DEF At, Key
  <2>3. At(w, "send")' => At(w, "send")
    BY <1>3 DEF At
  <2>4. /\ Started(k)
        /\ worker[w].mail \subseteq outbox[k].mail
        /\ At(w, "send") /\ k \notin late => worker[w].mail = outbox[k].mail
    BY <2>1, <2>2 DEF IInv, Held
  <2>5. Key(w)' = k
    BY <2>2 DEF Key
  <2>6. outbox'[k].mail = outbox[k].mail /\ Started(k)'
    BY <2>4, KeptFacts
  <2>7. outbox'[k].status \notin {"none", "pending"}
    BY <2>6 DEF Started
  <2> QED
    BY <1>2, <2>2, <2>3, <2>4, <2>5, <2>6, <2>7 DEF Started
<1> QED
  BY <1>3 DEF Held

LEMMA KeptReported ==
  ASSUME IInv, Kept, report' = report
  PROVE  ReportedOn'
<1>1. Reported \subseteq Keys
  BY NotificationAssumption DEF Keys
<1> QED
  BY <1>1, KeptFacts DEF IInv, ReportedOn, Started

(* A row that a report has set, and that no sender holds, is left so.      *)
LEMMA KeptRanked ==
  ASSUME IInv, report' = report, crossed' = crossed,
         \A k \in Keys : Alone(k) /\ outbox[k].status \in Webhook =>
             Alone(k)' /\ outbox'[k].status = outbox[k].status
  PROVE  Ranked'
<1>1. Reported \subseteq Keys
  BY NotificationAssumption DEF Keys
<1>2. ASSUME NEW k \in Reported \ crossed, NEW t \in Types,
             report[<<k, t>>] \in {"keep", "applied"}
      PROVE  Alone(k)' /\ Rank(outbox'[k].status) >= Rank(t)
  <2>1. Alone(k) /\ Rank(outbox[k].status) >= Rank(t)
    BY <1>2 DEF IInv, Ranked
  <2>2. outbox[k].status \in Webhook
    BY <2>1, Ranks
  <2> QED
    BY <1>1, <2>1, <2>2
<1>3. \A k \in Reported \ crossed, t \in Types :
        /\ \A s \in Types \ {t} :
              ~(/\ report[<<k, s>>] \in {"apply", "keep"}
                /\ report[<<k, t>>] \in {"apply", "keep"})
        /\ \A s \in Types :
              report[<<k, t>>] = "apply" /\ report[<<k, s>>] = "applied" => Rank(t) >= Rank(s)
  BY DEF IInv, Ranked
<1> QED
  BY <1>2, <1>3 DEF Ranked

-----------------------------------------------------------------------------
LEMMA EmitKeeps ==
  ASSUME IInv, NEW e \in Events, Emit(e)
  PROVE  IInv'
<1>1. /\ UNCHANGED <<included, summary, outbox, worker, accepted, report, late, crossed,
                      faults>>
      /\ occurred' = occurred \cup {e}
  BY DEF Emit
<1>2. TypeOK'
  BY <1>1 DEF IInv, TypeOK
<1>3. Rows' /\ SummaryHolds'
  BY <1>1 DEF IInv, Rows, SummaryHolds
<1>4. Held' /\ Sent'
  BY <1>1 DEF IInv, Held, Sent, Started, At, Key
<1>5. ReportedOn' /\ Ranked'
  BY <1>1 DEF IInv, ReportedOn, Ranked, Started, Alone, At, Key
<1> QED
  BY <1>2, <1>3, <1>4, <1>5 DEF IInv

LEMMA SummaryKeeps ==
  ASSUME IInv, BeginSummary \/ AbortSummary
  PROVE  IInv'
<1>1. UNCHANGED <<occurred, included, outbox, worker, accepted, report, late, crossed>>
  BY DEF BeginSummary, AbortSummary
<1>2. faults' \in 0 .. MaxFaults
  BY NotificationAssumption DEF IInv, TypeOK, BeginSummary, AbortSummary, Fault
<1>3. Rows' /\ Held' /\ Sent' /\ ReportedOn' /\ Ranked'
  BY <1>1 DEF IInv, Rows, Held, Sent, ReportedOn, Ranked, Started, Alone, At, Key
<1>4. CASE BeginSummary
  <2> DEFINE b == Unincluded
  <2>1. /\ summary'.batch = b
        /\ summary'.key = Target(b)
        /\ summary'.joins = Joins(Base)
        /\ summary'.pending = (outbox[Base].status = "pending")
    BY <1>4 DEF BeginSummary
  <2>2. b \subseteq occurred \ included /\ b \subseteq Events
    BY DEF Unincluded, IInv, TypeOK
  <2>3. Target(b) \in Keys
    BY <2>2 DEF Target, Base, Keys
  <2>4. summary' \in [batch : SUBSET Events, key : Keys, joins : BOOLEAN, pending : BOOLEAN]
    BY <1>4, <2>2, <2>3 DEF BeginSummary, Joins
  <2>5. Target(b) \in {Base, b} /\ (Joins(Base) => Target(b) = Base)
    BY DEF Target
  <2>6. ~Joins(Base) /\ b # {} => outbox[Target(b)].status = "none"
    <3>1. CASE outbox[Base].status = "none"
      BY <3>1 DEF Target
    <3>2. CASE outbox[Base].status # "none" /\ ~Joins(Base) /\ b # {}
      <4>1. Target(b) = b /\ b # Base /\ b \in Keys
        BY <2>2, <3>2 DEF Target, Keys, Base
      <4>2. outbox[b].status # "none" =>
               outbox[b].mail = b /\ outbox[b].mail \subseteq included
        BY <4>1 DEF IInv, Rows
      <4>3. outbox[b].status = "none"
        BY <2>2, <3>2, <4>2
      <4> QED
        BY <4>1, <4>3
    <3> QED
      BY <3>1, <3>2
  <2>7. SummaryHolds'
    BY <1>1, <2>1, <2>2, <2>5, <2>6 DEF SummaryHolds, Joins
  <2>8. TypeOK'
    BY <1>1, <1>2, <2>4 DEF IInv, TypeOK
  <2> QED
    BY <1>3, <2>7, <2>8 DEF IInv
<1>5. CASE AbortSummary
  <2>1. SummaryHolds' /\ summary' = NoBatch
    BY <1>5 DEF AbortSummary, SummaryHolds, NoBatch
  <2>2. NoBatch \in [batch : SUBSET Events, key : Keys, joins : BOOLEAN, pending : BOOLEAN]
    BY DEF NoBatch, Base, Keys
  <2>3. TypeOK'
    BY <1>1, <1>2, <2>1, <2>2 DEF IInv, TypeOK
  <2> QED
    BY <1>3, <2>1, <2>3 DEF IInv
<1> QED
  BY <1>4, <1>5

(* The commit: its events join the summary, or make the row it found       *)
(* missing, which no sender holds and Resend knows nothing of.             *)
LEMMA CommitKeeps ==
  ASSUME IInv, CommitSummary
  PROVE  IInv'
<1> DEFINE b == summary.batch
<1>1. PICK k \in Keys : k = summary.key
  BY DEF IInv, TypeOK
<1>2. /\ b # {} /\ b \subseteq occurred \ included /\ b \subseteq Events
      /\ summary.joins => summary.pending /\ k = Base /\ outbox[k].status # "none"
      /\ ~summary.joins => outbox[k].status = "none" /\ k \in {Base, b}
  BY <1>1 DEF IInv, SummaryHolds, CommitSummary, TypeOK
<1>3. /\ UNCHANGED <<occurred, worker, accepted, report, crossed, faults>>
      /\ included' = included \cup b
      /\ summary' = NoBatch
      /\ late' = late \cup {j \in {k} : summary.pending /\ outbox[k].status # "pending"}
  BY <1>1 DEF CommitSummary
<1>4. /\ outbox' \in [Keys -> Mails]
      /\ \A j \in Keys : j # k => outbox'[j] = outbox[j]
      /\ summary.joins => /\ outbox'[k].mail = outbox[k].mail \cup b
                          /\ outbox'[k].status = outbox[k].status
      /\ ~summary.joins => outbox'[k].mail = b /\ outbox'[k].status = "pending"
  <2>1. outbox \in [Keys -> Mails] /\ outbox[k] \in Mails
    BY DEF IInv, TypeOK, Mails
  <2>2. CASE summary.joins
    <3> DEFINE r == [outbox[k] EXCEPT !.mail = outbox[k].mail \cup b]
    <3>1. outbox' = [outbox EXCEPT ![k] = r]
      BY <1>1, <2>2 DEF CommitSummary
    <3>2. outbox[k].mail \cup b \in SUBSET Events
      BY <1>2, <2>1 DEF Mails
    <3>3. r \in Mails /\ r.mail = outbox[k].mail \cup b /\ r.status = outbox[k].status
      BY <2>1, <3>2 DEF Mails
    <3> HIDE DEF r
    <3> QED
      BY <2>1, <2>2, <3>1, <3>3
  <2>3. CASE ~summary.joins
    <3> DEFINE r == [NoMail EXCEPT !.status = "pending", !.mail = b]
    <3>1. outbox' = [outbox EXCEPT ![k] = r]
      BY <1>1, <2>3 DEF CommitSummary
    <3>2. NoMail \in Mails /\ "pending" \in Waiting
      BY NotificationAssumption DEF NoMail, Mails, Waiting
    <3>3. r \in Mails /\ r.mail = b /\ r.status = "pending"
      BY <1>2, <3>2 DEF Mails
    <3> HIDE DEF r
    <3> QED
      BY <2>1, <2>3, <3>1, <3>3
  <2> QED
    BY <2>2, <2>3
<1>5. TypeOK'
  <2>1. NoBatch \in [batch : SUBSET Events, key : Keys, joins : BOOLEAN, pending : BOOLEAN]
    BY DEF NoBatch, Base, Keys
  <2> QED
    BY <1>2, <1>3, <1>4, <2>1 DEF IInv, TypeOK, Mails
<1>6. \A j \in Keys : outbox'[j].mail = outbox[j].mail \cup (IF j = k THEN b ELSE {})
  <2>1. ~summary.joins => outbox[k].mail = {}
    BY <1>2 DEF IInv, Rows
  <2> QED
    BY <1>4, <2>1
<1>7. Rows'
  <2>1. \A j \in Keys : outbox'[j].status = "none" => outbox'[j].mail = {}
    BY <1>2, <1>4 DEF IInv, Rows
  <2>2. \A j \in Keys : j # Base /\ outbox'[j].status # "none" => outbox'[j].mail = j
    BY <1>2, <1>4 DEF IInv, Rows
  <2>3. \A j \in Keys : outbox'[j].mail \subseteq included'
    BY <1>3, <1>6 DEF IInv, Rows
  <2>4. \A e \in included' : \E j \in Keys : e \in outbox'[j].mail
    BY <1>3, <1>6 DEF IInv, Rows
  <2>5. ASSUME NEW i \in Keys, NEW j \in Keys, i # j
        PROVE  outbox'[i].mail \cap outbox'[j].mail = {}
    <3>1. outbox[i].mail \cap outbox[j].mail = {}
      BY <2>5 DEF IInv, Rows
    <3>2. outbox[i].mail \cap b = {} /\ outbox[j].mail \cap b = {}
      BY <1>2 DEF IInv, Rows
    <3> QED
      BY <1>6, <2>5, <3>1, <3>2
  <2> QED
    BY <2>1, <2>2, <2>3, <2>4, <2>5 DEF Rows
<1>8. SummaryHolds'
  BY <1>3 DEF SummaryHolds, NoBatch
<1>9. \A j \in Keys : Started(j) =>
         /\ Started(j)'
         /\ outbox[j].mail \subseteq outbox'[j].mail
         /\ j \notin late' => j \notin late /\ outbox'[j].mail = outbox[j].mail
  BY <1>2, <1>3, <1>4, <1>6 DEF Started
<1>10. Held'
  <2>1. ASSUME NEW w \in Workers, ~At(w, "idle")
        PROVE  /\ Started(Key(w))'
               /\ worker[w].mail \subseteq outbox'[Key(w)].mail
               /\ At(w, "send") /\ Key(w) \notin late' => worker[w].mail = outbox'[Key(w)].mail
    <3>1. PICK j \in Keys : j = Key(w)
      BY DEF IInv, TypeOK, Key
    <3>2. /\ Started(j)
          /\ worker[w].mail \subseteq outbox[j].mail
          /\ At(w, "send") /\ j \notin late => worker[w].mail = outbox[j].mail
      BY <2>1, <3>1 DEF IInv, Held
    <3>3. Started(j)' /\ Key(w)' = j
      BY <1>3, <1>9, <3>1, <3>2 DEF Key
    <3>4. Started(Key(w))'
      BY <3>3 DEF Started
    <3> QED
      BY <1>9, <3>1, <3>2, <3>4
  <2> QED
    BY <1>3, <2>1 DEF Held, At, Key
<1>11. Sent'
  <2>1. \A m \in accepted : m[1] \in Keys
    BY DEF IInv, TypeOK
  <2> QED
    BY <1>3, <1>9, <2>1 DEF IInv, Sent, Started
<1>12. Reported \subseteq Keys
  BY NotificationAssumption DEF Keys
<1>13. ReportedOn'
  BY <1>3, <1>9, <1>12 DEF IInv, ReportedOn, Started
<1>14. Ranked'
  <2>1. \A j \in Keys : outbox[j].status \in Webhook => outbox'[j].status = outbox[j].status
    BY <1>2, <1>4 DEF Webhook
  <2>2. \A j \in Keys : Alone(j) => Alone(j)'
    BY <1>3 DEF Alone, At, Key
  <2> QED
    BY <1>3, <2>1, <2>2, KeptRanked
<1> QED
  BY <1>5, <1>7, <1>8, <1>10, <1>11, <1>13, <1>14 DEF IInv

-----------------------------------------------------------------------------
LEMMA ClaimKeeps ==
  ASSUME IInv, NEW w \in Workers, NEW k \in Keys, Claim(w, k)
  PROVE  IInv'
<1>1. /\ UNCHANGED <<team, accepted, report, crossed, faults>>
      /\ outbox[k].status \in Waiting
      /\ At(w, "idle")
  BY DEF Claim, Claimable
<1>2. /\ outbox' \in [Keys -> Mails]
      /\ \A j \in Keys : j # k => outbox'[j] = outbox[j]
      /\ outbox'[k].status = "processing" /\ outbox'[k].mail = outbox[k].mail
  <2> DEFINE n == outbox[k].attempts
             more == IF n > MaxAttempts THEN n ELSE n + 1
  <2>1. outbox \in [Keys -> Mails] /\ outbox[k] \in Mails
    BY DEF IInv, TypeOK, Mails
  <2>2. more \in 0 .. MaxAttempts + 1
    BY <2>1, NotificationAssumption DEF Mails
  <2>3. outbox' = [outbox EXCEPT ![k].status = "processing", ![k].attempts = more]
    BY DEF Claim
  <2> HIDE DEF more
  <2> QED
    BY <2>1, <2>2, <2>3 DEF Mails
<1>3. /\ worker' \in [Workers -> Places]
      /\ \A v \in Workers : v # w => worker'[v] = worker[v]
      /\ worker'[w].pc = "read" /\ worker'[w].key = k /\ worker'[w].mail = {}
  <2>1. worker \in [Workers -> Places]
    BY DEF IInv, TypeOK, Places
  <2> DEFINE r == [Resting EXCEPT !.pc = "read", !.key = k]
  <2>2. Resting \in Places /\ Resting.mail = {}
    BY NotificationAssumption DEF Resting, Places, Base, Keys
  <2>3. r \in Places /\ r.pc = "read" /\ r.key = k /\ r.mail = {}
    BY <2>2 DEF Places
  <2>4. worker' = [worker EXCEPT ![w] = r]
    BY DEF Claim
  <2> HIDE DEF r
  <2> QED
    BY <2>1, <2>3, <2>4
<1>4. TypeOK'
  BY <1>1, <1>2, <1>3 DEF IInv, TypeOK, Mails, Places, team
<1>5. Kept
  BY <1>1, <1>2 DEF Kept, Started, Waiting
<1>6. Held'
  <2>1. ASSUME NEW v \in Workers, v # w, ~At(v, "idle")
        PROVE  /\ Started(Key(v))'
               /\ worker[v].mail \subseteq outbox'[Key(v)].mail
               /\ At(v, "send") /\ Key(v) \notin late => worker[v].mail = outbox'[Key(v)].mail
    <3>1. PICK j \in Keys : j = Key(v)
      BY DEF IInv, TypeOK, Key
    <3>2. /\ Started(j)
          /\ worker[v].mail \subseteq outbox[j].mail
          /\ At(v, "send") /\ j \notin late => worker[v].mail = outbox[j].mail
      BY <2>1, <3>1 DEF IInv, Held
    <3>3. Key(v)' = j
      BY <1>3, <2>1, <3>1 DEF Key
    <3>4. Started(j)' /\ outbox'[j].mail = outbox[j].mail
      BY <1>5, <3>2, KeptFacts
    <3>5. Started(Key(v))'
      BY <3>3, <3>4 DEF Started
    <3> QED
      BY <3>1, <3>2, <3>4, <3>5
  <2>2. Started(Key(w))' /\ At(w, "read")'
    BY <1>2, <1>3 DEF Started, Key, At
  <2> QED
    BY <1>1, <1>3, <2>1, <2>2 DEF Held, At, Key, team, Started
<1>7. Ranked'
  <2>1. \A j \in Keys : Alone(j) /\ outbox[j].status \in Webhook =>
           Alone(j)' /\ outbox'[j].status = outbox[j].status
    BY <1>1, <1>2, <1>3 DEF Alone, At, Key, Waiting, Webhook
  <2> QED
    BY <1>1, <2>1, KeptRanked
<1> QED
  BY <1>1, <1>4, <1>5, <1>6, <1>7, KeptRows, KeptSent, KeptReported DEF IInv

LEMMA LeaseKeeps ==
  ASSUME IInv, NEW k \in Keys, LeaseExpires(k)
  PROVE  IInv'
<1>1. /\ UNCHANGED <<team, worker, accepted, report, crossed, faults>>
      /\ outbox[k].status = "processing"
  BY DEF LeaseExpires
<1>2. /\ outbox' \in [Keys -> Mails]
      /\ \A j \in Keys : j # k => outbox'[j] = outbox[j]
      /\ outbox'[k].status = "stalled" /\ outbox'[k].mail = outbox[k].mail
  BY DEF IInv, TypeOK, LeaseExpires, Mails, Waiting
<1>3. TypeOK'
  BY <1>1, <1>2 DEF IInv, TypeOK, Mails, team
<1>4. Kept
  BY <1>1, <1>2 DEF Kept, Started
<1>5. Ranked'
  <2>1. \A j \in Keys : Alone(j) /\ outbox[j].status \in Webhook =>
           Alone(j)' /\ outbox'[j].status = outbox[j].status
    BY <1>1, <1>2 DEF Alone, At, Key, Webhook
  <2> QED
    BY <1>1, <2>1, KeptRanked
<1> QED
  BY <1>1, <1>3, <1>4, <1>5, KeptRows, KeptSent, KeptHeld, KeptReported DEF IInv

LEMMA ReadKeeps ==
  ASSUME IInv, NEW w \in Workers, ReadJob(w)
  PROVE  IInv'
<1>1. PICK k \in Keys : k = Key(w)
  BY DEF IInv, TypeOK, Key
<1>2. /\ UNCHANGED <<team, outbox, accepted, report, crossed, faults>>
      /\ At(w, "read") /\ outbox[k].attempts \in 0 .. MaxAttempts
  BY <1>1, NotificationAssumption DEF ReadJob, Exhausted, IInv, TypeOK
<1>3. /\ worker' \in [Workers -> Places]
      /\ \A v \in Workers : v # w => worker'[v] = worker[v]
      /\ worker'[w].pc = "send" /\ worker'[w].key = k /\ worker'[w].mail = outbox[k].mail
  <2>1. outbox[k].mail \in SUBSET Events
    BY DEF IInv, TypeOK
  <2>2. worker' = [worker EXCEPT ![w].pc = "send", ![w].mail = outbox[k].mail,
                                 ![w].attempts = outbox[k].attempts]
    BY <1>1 DEF ReadJob
  <2>3. worker \in [Workers -> Places] /\ worker[w] \in Places /\ worker[w].key = k
    BY <1>1 DEF IInv, TypeOK, Places, Key
  <2> QED
    BY <1>2, <2>1, <2>2, <2>3 DEF Places
<1>4. TypeOK'
  BY <1>2, <1>3 DEF IInv, TypeOK, Places, team
<1>5. Kept
  BY <1>2 DEF Kept
<1>6. Held'
  <2>1. Started(k)
    BY <1>1, <1>2 DEF IInv, Held, At
  <2> QED
    BY <1>2, <1>3, <2>1 DEF IInv, Held, At, Key, Started, team
<1>7. Ranked'
  <2>1. \A j \in Keys : Alone(j) => Alone(j)'
    BY <1>1, <1>2, <1>3 DEF Alone, At, Key
  <2> QED
    BY <1>2, <2>1, KeptRanked
<1> QED
  BY <1>2, <1>4, <1>5, <1>6, <1>7, KeptRows, KeptSent, KeptReported DEF IInv

(* A sender leaves its row: another status, and perhaps the id.            *)
LEMMA LeavesKeeps ==
  ASSUME IInv, NEW w \in Workers, ~At(w, "idle"), Rest(w),
         UNCHANGED <<team, accepted, report, crossed>>, faults' \in 0 .. MaxFaults,
         NEW r \in Mails, r.status \notin {"none", "pending"},
         r.mail = outbox[Key(w)].mail,
         outbox' = [outbox EXCEPT ![Key(w)] = r] \/ outbox' = outbox
  PROVE  IInv'
<1>1. PICK k \in Keys : k = Key(w)
  BY DEF IInv, TypeOK, Key
<1>2. /\ outbox' \in [Keys -> Mails]
      /\ \A j \in Keys : j # k => outbox'[j] = outbox[j]
      /\ outbox'[k] = r \/ outbox'[k] = outbox[k]
  BY <1>1 DEF IInv, TypeOK, Mails
<1>3. /\ worker' \in [Workers -> Places]
      /\ \A v \in Workers : v # w => worker'[v] = worker[v]
      /\ worker'[w].pc = "idle"
  <2>1. Resting \in Places /\ Resting.pc = "idle"
    BY NotificationAssumption DEF Resting, Places, Base, Keys
  <2> QED
    BY <2>1 DEF IInv, TypeOK, Places, Rest
<1>4. TypeOK'
  BY <1>2, <1>3 DEF IInv, TypeOK, Mails, Places, team
<1>5. Started(k)
  BY <1>1 DEF IInv, Held
<1>6. Kept
  BY <1>1, <1>2, <1>5 DEF Kept, Started
<1>7. Held'
  BY <1>3, <1>6, KeptHeld
<1>8. Ranked'
  <2>1. \A j \in Keys : Alone(j) => Alone(j)' /\ outbox'[j].status = outbox[j].status
    BY <1>1, <1>2, <1>3 DEF Alone, At, Key
  <2> QED
    BY <2>1, KeptRanked
<1> QED
  BY <1>4, <1>6, <1>7, <1>8, KeptRows, KeptSent, KeptReported DEF IInv

LEMMA GiveUpKeeps ==
  ASSUME IInv, NEW w \in Workers, GiveUp(w)
  PROVE  IInv'
<1> DEFINE r == [outbox[Key(w)] EXCEPT !.status = "unresolved"]
<1>1. outbox[Key(w)] \in Mails
  BY DEF IInv, TypeOK, Mails, Key
<1>2. /\ r \in Mails /\ r.status = "unresolved" /\ r.mail = outbox[Key(w)].mail
  BY <1>1 DEF Mails, Given
<1>3. /\ outbox' = [outbox EXCEPT ![Key(w)] = r]
      /\ ~At(w, "idle") /\ Rest(w)
      /\ UNCHANGED <<team, accepted, report, crossed, faults>>
  BY DEF GiveUp, At
<1>4. faults' \in 0 .. MaxFaults
  BY <1>3 DEF IInv, TypeOK
<1> HIDE DEF r
<1> QED
  BY <1>2, <1>3, <1>4, LeavesKeeps

LEMMA RecordKeeps ==
  ASSUME IInv, NEW w \in Workers, RecordAnswer(w)
  PROVE  IInv'
<1>1. PICK status \in {"sent", "uncertain", "retry", "failed"}, id \in BOOLEAN :
         Store(w, status, id)
  BY DEF RecordAnswer
<1> DEFINE r == [outbox[Key(w)] EXCEPT !.status = status, !.id = @ \/ id]
<1>2. outbox[Key(w)] \in Mails
  BY DEF IInv, TypeOK, Mails, Key
<1>3. r \in Mails /\ r.status = status /\ r.mail = outbox[Key(w)].mail
  <2>1. outbox[Key(w)].id \/ id \in BOOLEAN
    OBVIOUS
  <2>2. status \in {"none", "processing"} \cup Waiting \cup Given \cup Reached
    BY DEF Waiting, Given, Reached
  <2> QED
    BY <1>2, <2>1, <2>2 DEF Mails
<1>4. outbox' = [outbox EXCEPT ![Key(w)] = r]
  BY <1>1 DEF Store
<1>5. ~At(w, "idle") /\ Rest(w) /\ UNCHANGED <<team, accepted, report, crossed>>
  BY <1>1 DEF RecordAnswer, Store, At
<1>6. faults' \in 0 .. MaxFaults
  <2>1. faults' = faults \/ (faults < MaxFaults /\ faults' = faults + 1)
    BY DEF RecordAnswer, Fault
  <2>2. faults \in 0 .. MaxFaults
    BY DEF IInv, TypeOK
  <2> QED
    BY <2>1, <2>2, NotificationAssumption
<1> HIDE DEF r
<1> QED
  BY <1>3, <1>4, <1>5, <1>6, LeavesKeeps

LEMMA CrashKeeps ==
  ASSUME IInv, NEW w \in Workers, Crash(w)
  PROVE  IInv'
<1>1. PICK k \in Keys : k = Key(w)
  BY DEF IInv, TypeOK, Key
<1>2. outbox[k] \in Mails /\ outbox[k].status \notin {"none", "pending"}
  BY <1>1 DEF IInv, TypeOK, Mails, Held, Started, Crash
<1>3. /\ outbox' = outbox /\ ~At(w, "idle") /\ Rest(w)
      /\ UNCHANGED <<team, accepted, report, crossed>>
      /\ faults' \in 0 .. MaxFaults
  BY NotificationAssumption DEF Crash, Fault, IInv, TypeOK
<1> QED
  BY <1>1, <1>2, <1>3, LeavesKeeps

(* Resend accepts what the sender has read, the first time.                *)
LEMMA SendKeeps ==
  ASSUME IInv, NEW w \in Workers, Send(w)
  PROVE  IInv'
<1>1. PICK k \in Keys : k = Key(w)
  BY DEF IInv, TypeOK, Key
<1>2. /\ UNCHANGED <<team, outbox, report, crossed, faults>>
      /\ At(w, "send")
      /\ Accepts(w) \/ accepted' = accepted
      /\ Goto(w, "accepted") \/ Goto(w, "refused")
  BY DEF Send
<1>3. /\ worker' \in [Workers -> Places]
      /\ \A v \in Workers : v # w => worker'[v] = worker[v]
      /\ worker'[w].pc \in {"accepted", "refused"}
      /\ worker'[w].key = k /\ worker'[w].mail = worker[w].mail
  <2>1. PICK pc \in {"accepted", "refused"} : worker' = [worker EXCEPT ![w].pc = pc]
    BY <1>2 DEF Goto
  <2>2. worker \in [Workers -> Places] /\ worker[w].key = k
    BY <1>1 DEF IInv, TypeOK, Places, Key
  <2> QED
    BY <2>1, <2>2 DEF Places
<1>4. /\ worker[w].mail \subseteq outbox[k].mail /\ Started(k)
      /\ k \notin late => worker[w].mail = outbox[k].mail
  BY <1>1, <1>2 DEF IInv, Held, At
<1>5. \/ accepted' = accepted
      \/ /\ \A m \in accepted : m[1] # k
         /\ accepted' = accepted \cup {<<k, worker[w].mail>>}
  BY <1>1, <1>2 DEF Accepts
<1>6. TypeOK'
  <2>1. accepted' \in SUBSET (Keys \X SUBSET Events)
    BY <1>5 DEF IInv, TypeOK
  <2> QED
    BY <1>2, <1>3, <2>1 DEF IInv, TypeOK, Places, team
<1>7. Kept
  BY <1>2 DEF Kept
<1>8. Held'
  BY <1>1, <1>2, <1>3, <1>7, KeptHeld DEF At, Key
<1>9. Sent'
  <2>1. \A m \in accepted' :
           /\ Started(m[1])
           /\ m[2] \subseteq outbox[m[1]].mail
           /\ m[1] \notin late => m[2] = outbox[m[1]].mail
    BY <1>4, <1>5 DEF IInv, Sent
  <2>2. \A m, n \in accepted' : m[1] = n[1] => m = n
    BY <1>5 DEF IInv, Sent
  <2> QED
    BY <1>2, <2>1, <2>2 DEF Sent, Started, team
<1>10. Ranked'
  <2>1. \A j \in Keys : Alone(j) => Alone(j)'
    BY <1>1, <1>2, <1>3 DEF Alone, At, Key
  <2> QED
    BY <1>2, <2>1, KeptRanked
<1> QED
  BY <1>2, <1>6, <1>7, <1>8, <1>9, <1>10, KeptRows, KeptReported DEF IInv

-----------------------------------------------------------------------------
(* The webhook: a report that is read or applied without the row counting  *)
(* as crossed is alone with it.                                            *)
LEMMA NotBusy ==
  ASSUME IInv, NEW k \in Reported, NEW t \in Types, k \notin crossed',
         crossed' = IF Busy(k, t) \/ Claimable(k) THEN crossed \cup {k} ELSE crossed
  PROVE  /\ crossed' = crossed /\ k \notin crossed /\ Alone(k)
         /\ \A s \in Types \ {t} : report[<<k, s>>] \notin {"apply", "keep"}
BY DEF Busy, Alone

LEMMA ReadReportedKeeps ==
  ASSUME IInv, NEW k \in Reported, NEW t \in Types, ReadReported(k, t)
  PROVE  IInv'
<1> DEFINE x == CASE ~outbox[k].id                 -> "unmatched"
                  [] Outranks(t, outbox[k].status) -> "apply"
                  [] OTHER                         -> "keep"
<1>0. Reported \subseteq Keys
  BY NotificationAssumption DEF Keys
<1>1. /\ UNCHANGED <<team, outbox, worker, accepted, faults>>
      /\ report[<<k, t>>] = "none"
      /\ \E m \in accepted : m[1] = k
      /\ crossed' = IF Busy(k, t) \/ Claimable(k) THEN crossed \cup {k} ELSE crossed
  BY DEF ReadReported
<1>2. report' = [report EXCEPT ![<<k, t>>] = x]
  BY DEF ReadReported
<1>3. x \in {"unmatched", "apply", "keep"}
  OBVIOUS
<1>4. x = "apply" => Rank(t) >= Rank(outbox[k].status)
  BY DEF Outranks
<1>5. x = "keep" => Rank(outbox[k].status) >= Rank(t)
  BY Ranks DEF Outranks
<1> HIDE DEF x
<1>6. /\ report' \in [Reported \X Types -> {"none", "apply", "keep", "unmatched", "applied"}]
      /\ report'[<<k, t>>] = x
      /\ \A j \in Reported, s \in Types :
            <<j, s>> # <<k, t>> => report'[<<j, s>>] = report[<<j, s>>]
  BY <1>2, <1>3 DEF IInv, TypeOK
<1>7. TypeOK'
  BY <1>0, <1>1, <1>6 DEF IInv, TypeOK, team
<1>8. Kept
  BY <1>1 DEF Kept
<1>9. Held'
  BY <1>1, <1>8, KeptHeld
<1>10. ReportedOn'
  <2>1. Started(k)
    BY <1>1 DEF IInv, Sent
  <2>2. \A j \in Reported, s \in Types : report'[<<j, s>>] # "none" => Started(j)
    BY <1>6, <2>1 DEF IInv, ReportedOn
  <2> QED
    BY <1>1, <2>2 DEF ReportedOn, Started
<1>11. Ranked'
  <2>1. ASSUME NEW j \in Reported, j \notin crossed', NEW s \in Types
        PROVE  /\ \A u \in Types \ {s} :
                    ~(report'[<<j, u>>] \in {"apply", "keep"}
                      /\ report'[<<j, s>>] \in {"apply", "keep"})
               /\ report'[<<j, s>>] \in {"keep", "applied"} =>
                    Alone(j) /\ Rank(outbox[j].status) >= Rank(s)
               /\ \A u \in Types :
                    report'[<<j, s>>] = "apply" /\ report'[<<j, u>>] = "applied"
                      => Rank(s) >= Rank(u)
    <3>1. CASE j # k
      <4>1. \A u \in Types : report'[<<j, u>>] = report[<<j, u>>]
        BY <1>6, <3>1
      <4>2. j \notin crossed
        BY <1>1, <2>1
      <4> QED
        BY <2>1, <4>1, <4>2 DEF IInv, Ranked
    <3>2. CASE j = k
      <4>1. /\ j \notin crossed /\ Alone(j)
            /\ \A u \in Types \ {t} : report[<<j, u>>] \notin {"apply", "keep"}
        BY <1>1, <2>1, <3>2, NotBusy
      <4>2. \A u \in Types \ {t} : report'[<<j, u>>] = report[<<j, u>>]
        BY <1>6, <3>2
      <4>3. \A u \in Types : report'[<<j, u>>] = "applied" =>
                report[<<j, u>>] = "applied" /\ Rank(outbox[j].status) >= Rank(u)
        BY <1>3, <1>6, <3>2, <4>1, <4>2 DEF IInv, Ranked
      <4>4. \A u \in Types : report'[<<j, u>>] \in {"apply", "keep"} => u = t
        BY <4>1, <4>2
      <4>5. \A u \in Types : Rank(u) \in 0 .. 4
        BY Ranks
      <4>6. Rank(outbox[j].status) \in 0 .. 4
        BY Ranks
      <4> QED
        BY <1>4, <1>5, <1>6, <3>2, <4>1, <4>3, <4>4, <4>5, <4>6
    <3> QED
      BY <3>1, <3>2
  <2> QED
    BY <1>1, <2>1 DEF Ranked, Alone, At, Key
<1> QED
  BY <1>1, <1>7, <1>8, <1>9, <1>10, <1>11, KeptRows, KeptSent DEF IInv

LEMMA StoreReportKeeps ==
  ASSUME IInv, NEW k \in Reported, NEW t \in Types, StoreReport(k, t)
  PROVE  IInv'
<1> DEFINE old == report[<<k, t>>]
<1>0. Reported \subseteq Keys /\ t \in Webhook
  BY NotificationAssumption DEF Keys, Webhook
<1>1. /\ UNCHANGED <<team, worker, accepted, faults>>
      /\ old \in {"apply", "keep"}
      /\ crossed' = IF Busy(k, t) \/ Claimable(k) THEN crossed \cup {k} ELSE crossed
      /\ report' = [report EXCEPT ![<<k, t>>] = "applied"]
  BY DEF StoreReport
<1>2. /\ report' \in [Reported \X Types -> {"none", "apply", "keep", "unmatched", "applied"}]
      /\ report'[<<k, t>>] = "applied"
      /\ \A j \in Reported, s \in Types :
            <<j, s>> # <<k, t>> => report'[<<j, s>>] = report[<<j, s>>]
  BY <1>1 DEF IInv, TypeOK
<1>3. /\ outbox' \in [Keys -> Mails]
      /\ \A j \in Keys : j # k => outbox'[j] = outbox[j]
      /\ outbox'[k].mail = outbox[k].mail
      /\ outbox'[k].status = IF old = "apply" THEN t ELSE outbox[k].status
  <2>1. outbox \in [Keys -> Mails] /\ k \in Keys
    BY <1>0 DEF IInv, TypeOK, Mails
  <2>2. CASE old = "apply"
    <3>1. outbox' = [outbox EXCEPT ![k].status = t]
      BY <2>2 DEF StoreReport
    <3>2. t \in Reached
      BY <1>0 DEF Webhook, Reached
    <3> QED
      BY <2>1, <2>2, <3>1, <3>2 DEF Mails
  <2>3. CASE old # "apply"
    BY <2>1, <2>3 DEF StoreReport
  <2> QED
    BY <2>2, <2>3
<1>4. TypeOK'
  BY <1>0, <1>1, <1>2, <1>3 DEF IInv, TypeOK, Mails, team
<1>5. Started(k)
  BY <1>1 DEF IInv, ReportedOn
<1>6. Kept
  BY <1>0, <1>1, <1>3, <1>5 DEF Kept, Started, Webhook
<1>7. Held'
  BY <1>1, <1>6, KeptHeld
<1>8. ReportedOn'
  <2>1. \A j \in Reported, s \in Types : report'[<<j, s>>] # "none" => Started(j)
    BY <1>2, <1>5 DEF IInv, ReportedOn
  <2> QED
    BY <1>0, <1>6, <2>1, KeptFacts DEF ReportedOn, Started
<1>9. Ranked'
  <2>1. ASSUME NEW j \in Reported, j \notin crossed', NEW s \in Types
        PROVE  /\ \A u \in Types \ {s} :
                    ~(report'[<<j, u>>] \in {"apply", "keep"}
                      /\ report'[<<j, s>>] \in {"apply", "keep"})
               /\ report'[<<j, s>>] \in {"keep", "applied"} =>
                    Alone(j) /\ Rank(outbox'[j].status) >= Rank(s)
               /\ \A u \in Types :
                    report'[<<j, s>>] = "apply" /\ report'[<<j, u>>] = "applied"
                      => Rank(s) >= Rank(u)
    <3>1. CASE j # k
      <4>1. \A u \in Types : report'[<<j, u>>] = report[<<j, u>>]
        BY <1>2, <3>1
      <4>2. j \notin crossed /\ outbox'[j] = outbox[j]
        BY <1>0, <1>1, <1>3, <2>1, <3>1
      <4> QED
        BY <2>1, <4>1, <4>2 DEF IInv, Ranked
    <3>2. CASE j = k
      <4>1. /\ j \notin crossed /\ Alone(j)
            /\ \A u \in Types \ {t} : report[<<j, u>>] \notin {"apply", "keep"}
        BY <1>1, <2>1, <3>2, NotBusy
      <4>2. \A u \in Types \ {t} : report'[<<j, u>>] = report[<<j, u>>]
        BY <1>2, <3>2
      <4>3. \A u \in Types : report'[<<j, u>>] \notin {"apply", "keep"}
        BY <1>2, <3>2, <4>1, <4>2
      <4>4. \A u \in Types : Rank(u) \in 0 .. 4
        BY Ranks
      <4>5. ASSUME NEW u \in Types, u # t, report[<<j, u>>] = "applied"
            PROVE  Rank(outbox'[j].status) >= Rank(u)
        <5>1. old = "apply" => Rank(t) >= Rank(u)
          BY <3>2, <4>1, <4>5 DEF IInv, Ranked
        <5>2. Rank(outbox[j].status) >= Rank(u)
          BY <4>1, <4>5 DEF IInv, Ranked
        <5> QED
          BY <1>3, <3>2, <5>1, <5>2
      <4>6. Rank(outbox'[j].status) >= Rank(t)
        <5>1. old = "keep" => Rank(outbox[j].status) >= Rank(t)
          BY <3>2, <4>1 DEF IInv, Ranked
        <5> QED
          BY <1>1, <1>3, <3>2, <4>4, <5>1
      <4> QED
        BY <4>1, <4>2, <4>3, <4>5, <4>6
    <3> QED
      BY <3>1, <3>2
  <2> QED
    BY <1>1, <2>1 DEF Ranked, Alone, At, Key
<1> QED
  BY <1>1, <1>4, <1>6, <1>7, <1>8, <1>9, KeptRows, KeptSent DEF IInv

-----------------------------------------------------------------------------
LEMMA InvNext == IInv /\ [Next]_vars => IInv'
<1> SUFFICES ASSUME IInv, [Next]_vars PROVE IInv'
  OBVIOUS
<1>1. CASE UNCHANGED vars
  BY <1>1 DEF vars, IInv, TypeOK, Rows, SummaryHolds, Held, Sent, ReportedOn, Ranked,
     Started, Alone, At, Key
<1>2. ASSUME NEW w \in Workers, Continue(w) PROVE IInv'
  BY <1>2, ReadKeeps, GiveUpKeeps, SendKeeps, RecordKeeps DEF Continue
<1>3. BeginSummary \/ CommitSummary \/ AbortSummary => IInv'
  BY SummaryKeeps, CommitKeeps
<1> QED
  BY <1>1, <1>2, <1>3, EmitKeeps, ClaimKeeps, LeaseKeeps, CrashKeeps, ReadReportedKeeps,
     StoreReportKeeps DEF Next

LEMMA InvCorrect == Spec => []IInv
BY InvInit, InvNext, PTL DEF Spec

(* Every variable keeps its type.                                          *)
THEOREM TypeCorrect == Spec => []TypeOK
BY InvCorrect, PTL DEF IInv

(* No event is told in two mails, and none is marked as included without a *)
(* row that tells it, for any number of senders, events and faults.        *)
THEOREM OnceCorrect == Spec => []ToldOnce
<1>1. IInv => ToldOnce
  <2> SUFFICES ASSUME IInv PROVE ToldOnce
    OBVIOUS
  <2>1. ASSUME NEW m \in accepted, NEW n \in accepted, m # n
        PROVE  m[2] \cap n[2] = {}
    <3>1. m[1] \in Keys /\ n[1] \in Keys
      BY DEF IInv, TypeOK
    <3>2. m[1] # n[1]
      BY <2>1 DEF IInv, Sent
    <3>3. outbox[m[1]].mail \cap outbox[n[1]].mail = {}
      BY <3>1, <3>2 DEF IInv, Rows
    <3>4. m[2] \subseteq outbox[m[1]].mail /\ n[2] \subseteq outbox[n[1]].mail
      BY DEF IInv, Sent
    <3> QED
      BY <3>3, <3>4
  <2> QED
    BY <2>1 DEF IInv, Rows, ToldOnce
<1> QED
  BY <1>1, InvCorrect, PTL

(* The mail Resend has accepted tells what its row says, whatever is sent  *)
(* again, unless events joined the row late.                               *)
THEOREM ExactCorrect == Spec => []ToldExactly
<1>1. IInv => ToldExactly
  BY DEF IInv, Sent, ToldExactly
<1> QED
  BY <1>1, InvCorrect, PTL

(* A report Resend has made stands against every report of lower rank and  *)
(* every later sending that did not cross it.                              *)
THEOREM ReportsCorrect == Spec => []ReportStands
<1>1. IInv => ReportStands
  BY DEF IInv, Ranked, ReportStands
<1> QED
  BY <1>1, InvCorrect, PTL
=============================================================================
