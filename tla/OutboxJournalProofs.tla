------------------------- MODULE OutboxJournalProofs -------------------------
(***************************************************************************)
(* Proofs about the leases, the dead letters, the delivery journal, the    *)
(* attempt limit and the delivery permits of Outbox.                       *)
(***************************************************************************)
EXTENDS OutboxProofs

\* The attempt of version v that w made at e is journalled.
Journalled(w, e, v) == \E a \in journal : a.event = e /\ a.version = v /\ a.by = w

HasOutcome(e, v, outcomes) ==
    \E r \in result : r.event = e /\ r.version = v /\ r.outcome \in outcomes

\* A claim has a holder and was counted; a dead letter has neither claim nor lease.
ClaimsHeld ==
    \A e \in Event :
      /\ row[e].live => row[e].by # NoWorker
      /\ row[e].by # NoWorker => row[e].state = "pending" /\ row[e].attempts > 0
      /\ row[e].state = "absent" => row[e].version = 0
      /\ row[e].state = "dead" => DeadLetter(e)

AttemptsJournalled ==
    /\ \A a \in journal : 0 < a.version /\ a.version <= row[a.event].version
    /\ \A r \in result : \E a \in journal : a.event = r.event /\ a.version = r.version
    /\ \A w \in Worker, e \in Event : e \in Held(w) => Journalled(w, e, task[w][e].version)

\* A live claim is the one attempt of its version and still open.
LiveClaimsOpen ==
    \A e \in Event : row[e].live =>
      /\ Journalled(row[e].by, e, row[e].version) /\ ~HasResult(e, row[e].version)
      /\ \A a \in journal : a.event = e /\ a.version = row[e].version => a.by = row[e].by

OutcomesMatch ==
    /\ \A r \in result : r.outcome = "published" =>
         row[r.event].state \in {"published", "purged"} /\ r.version = row[r.event].version
    /\ \A e \in Event : row[e].state = "published" => HasOutcome(e, row[e].version, {"published"})
    /\ \A e \in Event : row[e].state \in {"dead", "discarded"} =>
         HasOutcome(e, row[e].version, {"permanent_failure", "retry_exhausted"})

JournalInv == ClaimsHeld /\ AttemptsJournalled /\ LiveClaimsOpen /\ OutcomesMatch

\* A step that writes neither journal nor results and renews no claim keeps them in
\* agreement with the rows.
LEMMA QuietStepKeepsJournal ==
    ASSUME FeedInv, JournalInv, TypeOK', ClaimsHeld', UNCHANGED <<journal, result>>,
           \A e \in Event : /\ row'[e].version = row[e].version
                            /\ row'[e].live => row[e].live /\ row'[e].by = row[e].by
                            /\ row'[e].state = "published" => row[e].state = "published"
                            /\ row[e].state \in {"published", "purged"} =>
                                 row'[e].state \in {"published", "purged"}
                            /\ row'[e].state \in {"dead", "discarded"} =>
                                 row[e].state \in {"dead", "discarded"},
           \A w \in Worker, e \in Event : \/ task'[w][e] = NoTask
                                          \/ /\ e \in Held(w)
                                             /\ task'[w][e].version = task[w][e].version
    PROVE  JournalInv'
<1>1. /\ \A a \in journal : a.event \in Event
      /\ \A r \in result : r.event \in Event
  BY DEF FeedInv, TypeOK, AttemptType, ResultType
<1>2. AttemptsJournalled'
  BY <1>1 DEF JournalInv, AttemptsJournalled, Journalled, Held
<1>3. LiveClaimsOpen'
  BY DEF JournalInv, LiveClaimsOpen, Journalled, HasResult
<1>4. OutcomesMatch'
  BY <1>1 DEF JournalInv, OutcomesMatch, HasOutcome
<1> QED BY <1>2, <1>3, <1>4 DEF JournalInv

\* A claim journals a fresh version.
LEMMA ClaimKeepsJournal ==
    ASSUME FeedInv, JournalInv, TypeOK', NEW w \in Worker, NEW t, NEW batch \in SUBSET Claimable(t),
           ClaimEvents(w, batch),
           \A x \in Worker, e \in Event :
             \/ task'[x][e] = task[x][e]
             \/ x = w /\ e \in batch /\ task'[x][e].version = row[e].version + 1
    PROVE  JournalInv'
<1> DEFINE new == {[event |-> e, version |-> row[e].version + 1, replay |-> row[e].replays,
                    number |-> row[e].attempts + 1, by |-> w] : e \in batch}
<1>1. \A e \in Event : row'[e] = IF e \in batch THEN ClaimRow(row[e], w) ELSE row[e]
  BY DEF ClaimEvents
<1>2. \A e \in Event : row[e] \in RowType /\ row[e].version \in Nat /\ row[e].attempts \in Nat
  BY DEF FeedInv, TypeOK, RowType
<1>3. \A e \in Event : row'[e].state = row[e].state
  BY <1>1, <1>2, ClaimFields
<1>4. batch \subseteq Event /\ \A e \in batch : row[e].state = "pending"
  BY DEF Claimable
<1>5. \A e \in batch : /\ row'[e].by = w /\ row'[e].version = row[e].version + 1
                       /\ row'[e].attempts = row[e].attempts + 1
  BY <1>1, <1>2, <1>4, ClaimFields
<1>6. journal' = journal \cup new /\ result' = result
  BY Zenon DEF ClaimEvents
<1>7. \A a \in new : a.event \in batch /\ a.version = row[a.event].version + 1 /\ a.by = w
  OBVIOUS
<1>8. \A e \in batch : \E a \in new : a.event = e /\ a.version = row[e].version + 1 /\ a.by = w
  <2> TAKE e \in batch
  <2> DEFINE a == [event |-> e, version |-> row[e].version + 1, replay |-> row[e].replays,
                   number |-> row[e].attempts + 1, by |-> w]
  <2>1. a \in new
    OBVIOUS
  <2>2. a.event = e /\ a.version = row[e].version + 1 /\ a.by = w
    OBVIOUS
  <2> HIDE DEF a, new
  <2> QED BY <2>1, <2>2
<1> HIDE DEF new
<1>9. \A a \in journal : /\ a.event \in Event /\ a.version \in Nat
                         /\ 0 < a.version /\ a.version <= row[a.event].version
  BY DEF FeedInv, TypeOK, AttemptType, JournalInv, AttemptsJournalled
<1>10. \A r \in result : /\ r.event \in Event
                         /\ \E a \in journal : a.event = r.event /\ a.version = r.version
  BY DEF FeedInv, TypeOK, ResultType, JournalInv, AttemptsJournalled
<1>11. ClaimsHeld'
  <2> SUFFICES ASSUME NEW e \in Event
               PROVE  /\ row'[e].live => row'[e].by # NoWorker
                      /\ row'[e].by # NoWorker => row'[e].state = "pending" /\ row'[e].attempts > 0
                      /\ row'[e].state = "absent" => row'[e].version = 0
                      /\ row'[e].state = "dead" => DeadLetter(e)'
    BY DEF ClaimsHeld
  <2>1. CASE e \in batch
    BY <2>1, <1>2, <1>3, <1>4, <1>5, ConstantsAssumption
  <2>2. CASE e \notin batch
    BY <2>2, <1>1 DEF JournalInv, ClaimsHeld, DeadLetter
  <2> QED BY <2>1, <2>2
<1>12. AttemptsJournalled'
  <2>1. ASSUME NEW a \in journal' PROVE 0 < a.version /\ a.version <= row'[a.event].version
    <3>1. CASE a \in new
      <4>1. a.event \in batch /\ a.version = row[a.event].version + 1
        BY <3>1, <1>7
      <4> QED BY <4>1, <1>2, <1>4, <1>5
    <3>2. CASE a \in journal
      <4>1. row'[a.event].version \in {row[a.event].version, row[a.event].version + 1}
        BY <3>2, <1>1, <1>5, <1>9
      <4> QED BY <4>1, <3>2, <1>2, <1>9
    <3> QED BY <3>1, <3>2, <1>6
  <2>2. \A r \in result' : \E a \in journal' : a.event = r.event /\ a.version = r.version
    BY <1>6, <1>10
  <2>3. ASSUME NEW x \in Worker, NEW e \in Event, (e \in Held(x))'
        PROVE  Journalled(x, e, task[x][e].version)'
    <3>1. CASE task'[x][e] = task[x][e]
      BY <2>3, <3>1, <1>6 DEF JournalInv, AttemptsJournalled, Journalled, Held
    <3>2. CASE x = w /\ e \in batch /\ task'[x][e].version = row[e].version + 1
      BY <3>2, <1>6, <1>8 DEF Journalled
    <3> QED BY <3>1, <3>2
  <2> QED BY <2>1, <2>2, <2>3 DEF AttemptsJournalled
<1>13. LiveClaimsOpen'
  <2> SUFFICES ASSUME NEW e \in Event, row'[e].live
               PROVE  /\ Journalled(row[e].by, e, row[e].version)' /\ ~HasResult(e, row[e].version)'
                      /\ \A a \in journal' :
                           a.event = e /\ a.version = row'[e].version => a.by = row'[e].by
    BY DEF LiveClaimsOpen
  <2>1. CASE e \in batch
    <3>1. Journalled(row[e].by, e, row[e].version)'
      BY <2>1, <1>5, <1>6, <1>8 DEF Journalled
    <3>2. \A a \in journal : a.event = e => a.version # row[e].version + 1
      BY <1>2, <1>9
    <3>3. ~HasResult(e, row[e].version)'
      BY <2>1, <3>2, <1>5, <1>6, <1>10 DEF HasResult
    <3> QED BY <2>1, <3>1, <3>2, <3>3, <1>5, <1>6, <1>7
  <2>2. CASE e \notin batch
    <3>1. row'[e] = row[e] /\ \A a \in new : a.event # e
      BY <2>2, <1>1, <1>7
    <3> QED BY <3>1, <1>6 DEF JournalInv, LiveClaimsOpen, Journalled, HasResult
  <2> QED BY <2>1, <2>2
<1>14. OutcomesMatch'
  <2>1. \A e \in Event : row[e].state # "pending" => row'[e] = row[e]
    BY <1>1, <1>4
  <2>2. \A r \in result' : r.outcome = "published" =>
          row'[r.event].state \in {"published", "purged"} /\ r.version = row'[r.event].version
    BY <2>1, <1>6, <1>10 DEF JournalInv, OutcomesMatch
  <2>3. ASSUME NEW e \in Event, NEW o, row[e].state # "pending",
               HasOutcome(e, row[e].version, o)
        PROVE  HasOutcome(e, row[e].version, o)'
    <3>1. row'[e].version = row[e].version
      BY <2>1, <2>3
    <3> QED BY <2>3, <3>1, <1>6 DEF HasOutcome
  <2>4. \A e \in Event : row'[e].state = "published" =>
          HasOutcome(e, row[e].version, {"published"})'
    BY <2>3, <1>3 DEF JournalInv, OutcomesMatch
  <2>5. \A e \in Event : row'[e].state \in {"dead", "discarded"} =>
          HasOutcome(e, row[e].version, {"permanent_failure", "retry_exhausted"})'
    BY <2>3, <1>3 DEF JournalInv, OutcomesMatch
  <2> QED BY <2>2, <2>4, <2>5 DEF OutcomesMatch
<1> QED BY <1>11, <1>12, <1>13, <1>14 DEF JournalInv

\* The holder of a live claim finds its attempt open, so its report is never
\* rolled back.
LEMMA FencedIsOpen ==
    ASSUME FeedInv, JournalInv, NEW w \in Worker, NEW e \in Event, NEW v, Fenced(w, e, v)
    PROVE  Open(w, e, v)
BY DEF JournalInv, LiveClaimsOpen, Fenced, Open, Journalled

\* A report that lost its lease adds a result only where no live claim is.
LEMMA LostReportKeepsJournal ==
    ASSUME FeedInv, JournalInv, TypeOK', NEW w \in Worker, NEW e \in Event, NEW v \in Nat,
           ~Fenced(w, e, v), RecordDeliveryResult(w, e, v, "lease_lost"), TaskDone(w, e),
           UNCHANGED <<row, journal>>
    PROVE  JournalInv'
<1> DEFINE new == [event |-> e, version |-> v, outcome |-> "lease_lost"]
<1>1. \A r \in result' : r \in result \/ (r = new /\ Open(w, e, v))
  BY DEF RecordDeliveryResult
<1>2. new.event = e /\ new.version = v /\ new.outcome = "lease_lost"
  OBVIOUS
<1>3. result \subseteq result'
  BY DEF RecordDeliveryResult
<1> HIDE DEF new
<1>4. \A x \in Worker, y \in Event : task'[x][y] = task[x][y] \/ task'[x][y] = NoTask
  BY DEF FeedInv, TypeOK, TaskDone
<1>5. ClaimsHeld'
  BY DEF JournalInv, ClaimsHeld, DeadLetter
<1>6. AttemptsJournalled'
  <2>1. \A r \in result' : \E a \in journal : a.event = r.event /\ a.version = r.version
    BY Zenon, <1>1, <1>2 DEF JournalInv, AttemptsJournalled, Open
  <2>2. \A x \in Worker, y \in Event : (y \in Held(x))' => Journalled(x, y, task[x][y].version)'
    BY <1>4 DEF JournalInv, AttemptsJournalled, Journalled, Held
  <2> QED BY Zenon, <2>1, <2>2 DEF JournalInv, AttemptsJournalled
<1>7. LiveClaimsOpen'
  <2> SUFFICES ASSUME NEW y \in Event, row[y].live PROVE ~HasResult(y, row[y].version)'
    BY Zenon DEF JournalInv, LiveClaimsOpen, Journalled
  <2>1. ~HasResult(y, row[y].version)
    BY Zenon DEF JournalInv, LiveClaimsOpen
  <2>2. ASSUME y = e, v = row[e].version, Open(w, e, v) PROVE FALSE
    <3>1. row[e].by = w
      BY <2>2 DEF JournalInv, LiveClaimsOpen, Open
    <3>2. row[e].state = "pending"
      BY <2>2, Zenon DEF FeedInv, LiveIsPending
    <3> QED BY <2>2, <3>1, <3>2 DEF Fenced
  <2> QED BY <1>1, <1>2, <2>1, <2>2, Zenon DEF HasResult
<1>8. OutcomesMatch'
  BY <1>1, <1>2, <1>3 DEF JournalInv, OutcomesMatch, HasOutcome
<1> QED BY <1>5, <1>6, <1>7, <1>8 DEF JournalInv

\* A fenced report settles or reschedules the row and records the outcome with it.
LEMMA FencedReportKeepsJournal ==
    ASSUME FeedInv, JournalInv, TypeOK', NEW w \in Worker, NEW e \in Event, NEW v \in Nat, NEW o, NEW r,
           Fenced(w, e, v), RecordDeliveryResult(w, e, v, o), TaskDone(w, e),
           row' = [row EXCEPT ![e] = r], UNCHANGED journal,
           ~r.live, r.by = NoWorker, r.version = row[e].version, r.attempts = row[e].attempts,
           \/ r.state = "published" /\ o = "published"
           \/ r.state = "dead" /\ o \in {"permanent_failure", "retry_exhausted"} /\ r.error
           \/ r.state = "pending" /\ o = "retry_scheduled"
    PROVE  JournalInv'
<1> DEFINE new == [event |-> e, version |-> v, outcome |-> o]
<1>1. result' = result \cup {new} /\ Open(w, e, v)
  BY FencedIsOpen DEF RecordDeliveryResult
<1>2. new.event = e /\ new.version = v /\ new.outcome = o
  OBVIOUS
<1> HIDE DEF new
<1>3. row'[e] = r /\ \A y \in Event : y # e => row'[y] = row[y]
  BY DEF FeedInv, TypeOK
<1>4. /\ row[e].state = "pending" /\ row[e].by = w /\ row[e].version = v
      /\ row[e].attempts > 0
  BY ConstantsAssumption DEF Fenced, JournalInv, ClaimsHeld
<1>5. \A x \in Worker, y \in Event : task'[x][y] = task[x][y] \/ task'[x][y] = NoTask
  BY DEF FeedInv, TypeOK, TaskDone
<1>6. ClaimsHeld'
  <2> SUFFICES ASSUME NEW y \in Event
               PROVE  /\ row'[y].live => row'[y].by # NoWorker
                      /\ row'[y].by # NoWorker => row'[y].state = "pending" /\ row'[y].attempts > 0
                      /\ row'[y].state = "absent" => row'[y].version = 0
                      /\ row'[y].state = "dead" => DeadLetter(y)'
    BY DEF ClaimsHeld
  <2>1. CASE y = e
    BY <2>1, <1>3, <1>4, Zenon DEF DeadLetter
  <2>2. CASE y # e
    BY <2>2, <1>3 DEF JournalInv, ClaimsHeld, DeadLetter
  <2> QED BY <2>1, <2>2
<1>7. \A y \in Event : row'[y].version = row[y].version
  BY <1>3
<1>8. (\A a \in journal : a.event \in Event) /\ (\A x \in result : x.event \in Event)
  BY DEF FeedInv, TypeOK, AttemptType, ResultType
<1>9. AttemptsJournalled'
  <2>1. \A x \in result' : \E a \in journal : a.event = x.event /\ a.version = x.version
    BY Zenon, <1>1, <1>2 DEF JournalInv, AttemptsJournalled, Open
  <2>2. \A x \in Worker, y \in Event : (y \in Held(x))' => Journalled(x, y, task[x][y].version)'
    BY <1>5 DEF JournalInv, AttemptsJournalled, Journalled, Held
  <2> QED BY Zenon, <2>1, <2>2, <1>7, <1>8 DEF JournalInv, AttemptsJournalled
<1>10. LiveClaimsOpen'
  <2> SUFFICES ASSUME NEW y \in Event, row'[y].live
               PROVE  /\ Journalled(row[y].by, y, row[y].version)' /\ ~HasResult(y, row[y].version)'
                      /\ \A a \in journal : a.event = y /\ a.version = row'[y].version => a.by = row'[y].by
    BY DEF LiveClaimsOpen
  <2>1. y # e /\ row'[y] = row[y]
    BY <1>3
  <2>2. /\ Journalled(row[y].by, y, row[y].version) /\ ~HasResult(y, row[y].version)
        /\ \A a \in journal : a.event = y /\ a.version = row[y].version => a.by = row[y].by
    BY <2>1 DEF JournalInv, LiveClaimsOpen
  <2> QED BY ZenonT(60), <2>1, <2>2, <1>1, <1>2 DEF Journalled, HasResult
<1>11. OutcomesMatch'
  <2>1. ASSUME NEW x \in result', x.outcome = "published"
        PROVE  row'[x.event].state \in {"published", "purged"} /\ x.version = row'[x.event].version
    <3>1. CASE x = new
      BY <2>1, <3>1, <1>2, <1>3, <1>4, Zenon
    <3>2. CASE x \in result
      <4>1. x.event \in Event /\ x.event # e
        BY <2>1, <3>2, <1>4, <1>8 DEF JournalInv, OutcomesMatch
      <4> QED BY <2>1, <3>2, <4>1, <1>3, Zenon DEF JournalInv, OutcomesMatch
    <3> QED BY <3>1, <3>2, <1>1
  <2>2. ASSUME NEW y \in Event, row'[y].state = "published"
        PROVE  HasOutcome(y, row[y].version, {"published"})'
    <3>1. CASE y = e
      BY <2>2, <3>1, <1>1, <1>2, <1>3, <1>4, Zenon DEF HasOutcome
    <3>2. CASE y # e
      BY <2>2, <3>2, <1>1, <1>3 DEF JournalInv, OutcomesMatch, HasOutcome
    <3> QED BY <3>1, <3>2
  <2>3. ASSUME NEW y \in Event, row'[y].state \in {"dead", "discarded"}
        PROVE  HasOutcome(y, row[y].version, {"permanent_failure", "retry_exhausted"})'
    <3>1. CASE y = e
      BY <2>3, <3>1, <1>1, <1>2, <1>3, <1>4 DEF HasOutcome
    <3>2. CASE y # e
      BY <2>3, <3>2, <1>1, <1>3 DEF JournalInv, OutcomesMatch, HasOutcome
    <3> QED BY <3>1, <3>2
  <2> QED BY <2>1, <2>2, <2>3, Zenon DEF OutcomesMatch
<1> QED BY <1>6, <1>9, <1>10, <1>11 DEF JournalInv

\* Every step preserves the agreement of claims, journal and rows.
LEMMA JournalPreserved == FeedInv /\ JournalInv /\ [Next]_vars => JournalInv'
<1> SUFFICES ASSUME FeedInv, JournalInv, [Next]_vars PROVE JournalInv'
  OBVIOUS
<1>t. TypeOK /\ TypeOK'
  BY TypePreserved DEF FeedInv
<1>r. \A e \in Event : row[e] \in RowType
  BY <1>t DEF TypeOK
<1>n. ASSUME task' = task
      PROVE  \A w \in Worker, e \in Event :
               task'[w][e] = NoTask \/ (e \in Held(w) /\ task'[w][e].version = task[w][e].version)
  BY <1>n DEF Held
<1>u. ASSUME UNCHANGED <<row, journal, result>>,
             \A w \in Worker, e \in Event : \/ task'[w][e] = NoTask
                                            \/ /\ e \in Held(w)
                                               /\ task'[w][e].version = task[w][e].version
      PROVE  JournalInv'
  <2>1. ClaimsHeld'
    BY <1>u, Zenon DEF JournalInv, ClaimsHeld, DeadLetter
  <2> QED BY <1>t, <1>u, <2>1, QuietStepKeepsJournal, Zenon
<1>v. ASSUME NEW e \in Event, NEW r, row' = [row EXCEPT ![e] = r], UNCHANGED <<journal, result, task>>,
             r.version = row[e].version, r.live => row[e].live /\ r.by = row[e].by,
             r.by # NoWorker => r.by = row[e].by /\ r.state = "pending" /\ r.attempts = row[e].attempts,
             row[e].state \notin {"published", "discarded", "purged"},
             r.state = "pending" \/ (row[e].state = "dead" /\ r.state = "discarded")
      PROVE  JournalInv'
  <2>1. row'[e] = r /\ \A y \in Event : y # e => row'[y] = row[y]
    BY <1>v, <1>t, Zenon DEF TypeOK
  <2>2. ClaimsHeld'
    <3> SUFFICES ASSUME NEW y \in Event
                 PROVE  /\ row'[y].live => row'[y].by # NoWorker
                        /\ row'[y].by # NoWorker => row'[y].state = "pending" /\ row'[y].attempts > 0
                        /\ row'[y].state = "absent" => row'[y].version = 0
                        /\ row'[y].state = "dead" => DeadLetter(y)'
      BY DEF ClaimsHeld
    <3>1. CASE y = e
      BY <3>1, <2>1, <1>v, Zenon DEF JournalInv, ClaimsHeld
    <3>2. CASE y # e
      BY <3>2, <2>1 DEF JournalInv, ClaimsHeld, DeadLetter
    <3> QED BY <3>1, <3>2
  <2> QED BY <1>n, <1>t, <1>v, <2>1, <2>2, QuietStepKeepsJournal, Zenon
<1>e. ASSUME NEW e \in Event, Enqueue(e) PROVE JournalInv'
  <2>1. last[StreamOf[e]] + 1 \in Nat
    BY <1>t, ConstantsAssumption DEF TypeOK
  <2> DEFINE r == QueuedRow(last[StreamOf[e]] + 1)
  <2>2. r.version = 0 /\ ~r.live /\ r.by = NoWorker /\ r.state = "pending"
    BY <1>r, <2>1, QueuedFields, Zenon
  <2>3. row[e].state = "absent" /\ row[e].version = 0
    BY <1>e DEF Enqueue, JournalInv, ClaimsHeld
  <2>4. row' = [row EXCEPT ![e] = r] /\ UNCHANGED <<journal, result, task>>
    BY <1>e, Zenon DEF Enqueue, workerVars
  <2> HIDE DEF r
  <2> QED BY Zenon, <1>v, <2>2, <2>3, <2>4
<1>1. ASSUME NEW w \in Worker, StartCycle(w) \/ StopClaiming(w) \/ EndCycle(w) PROVE JournalInv'
  BY <1>1, <1>n, <1>u, Zenon DEF StartCycle, StopClaiming, EndCycle, storeVars
<1>4. ASSUME NEW w \in Worker, NEW t \in Tenant, ClaimAndSpawn(w, t) PROVE JournalInv'
  <2>1. PICK b \in Batches(w, t) :
          /\ ClaimEvents(w, b)
          /\ task' = [task EXCEPT ![w] = [e \in Event |->
                       IF e \in b THEN [version |-> row[e].version + 1, answer |-> "none"]
                       ELSE @[e]]]
    BY <1>4 DEF ClaimAndSpawn
  <2>2. b \in SUBSET Claimable(t)
    BY Zenon DEF Batches
  <2>3. \A x \in Worker, e \in Event :
          \/ task'[x][e] = task[x][e]
          \/ x = w /\ e \in b /\ task'[x][e].version = row[e].version + 1
    BY <1>t, <2>1 DEF TypeOK
  <2> QED BY <1>t, <2>1, <2>2, <2>3, ClaimKeepsJournal, Zenon
<1>5. ASSUME NEW w \in Worker, NEW t \in Tenant, ClaimFails(w, t) PROVE JournalInv'
  <2>1. PICK b \in Batches(w, t) \cup {{}} : ClaimEvents(w, b)
    BY <1>5 DEF ClaimFails
  <2>2. b \in SUBSET Claimable(t)
    BY DEF Batches
  <2> QED BY Zenon, <1>5, <1>t, <2>1, <2>2, ClaimKeepsJournal DEF ClaimFails
<1>6. ASSUME NEW w \in Worker, Crash(w) PROVE JournalInv'
  <2>1. \A x \in Worker, e \in Event : task'[x][e] = task[x][e] \/ task'[x][e] = NoTask
    BY <1>6, <1>t DEF Crash, TypeOK
  <2> QED BY Zenon, <1>6, <1>u, <2>1 DEF Crash, storeVars, Held
<1>7. ASSUME NEW w \in Worker, NEW e \in Event, NEW answer \in Answer, e \in Held(w),
             task' = [task EXCEPT ![w][e].answer = answer], UNCHANGED storeVars
      PROVE  JournalInv'
  <2>1. \A x \in Worker, y \in Event :
          \/ task'[x][y] = task[x][y]
          \/ x = w /\ y = e /\ task'[x][y].version = task[x][y].version
    BY <1>7, <1>t DEF TypeOK, TaskType
  <2> QED BY <1>7, <1>u, <2>1 DEF storeVars, Held
<1>8. ASSUME NEW w \in Worker, NEW e \in Event,
             \/ PublishSucceeds(w, e)
             \/ \E class \in {"retryable", "permanent"} : PublishFails(w, e, class)
      PROVE  JournalInv'
  <2>1. PICK answer \in {"ok", "retryable", "permanent"} :
          task' = [task EXCEPT ![w][e].answer = answer]
    BY <1>8 DEF PublishSucceeds, PublishFails
  <2>2. answer \in Answer /\ e \in Held(w) /\ UNCHANGED storeVars
    BY <1>8 DEF PublishSucceeds, PublishFails, Answer
  <2> QED BY Zenon, <1>7, <2>1, <2>2
<1>9. \A w \in Worker, e \in Event : task[w][e].version \in Nat
  BY <1>t DEF TypeOK, TaskType
<1>10. ASSUME NEW w \in Worker, NEW e \in Event, MarkPublished(w, e) PROVE JournalInv'
  <2>1. PICK v \in Nat : v = task[w][e].version
    BY <1>9
  <2>2. TaskDone(w, e) /\ UNCHANGED journal
    BY Zenon, <1>10 DEF MarkPublished
  <2>3. CASE Fenced(w, e, v)
    <3>1. Open(w, e, v)
      BY <2>3, FencedIsOpen, Zenon
    <3>2. row' = [row EXCEPT ![e] = PublishedRow(row[e])] /\ RecordDeliveryResult(w, e, v, "published")
      BY <1>10, <2>1, <2>3, <3>1, Zenon DEF MarkPublished
    <3> DEFINE r == PublishedRow(row[e])
    <3>3. /\ ~r.live /\ r.by = NoWorker /\ r.version = row[e].version
          /\ r.attempts = row[e].attempts /\ r.state = "published"
      BY <1>r, PublishedFields, Zenon
    <3> HIDE DEF r
    <3> QED BY Zenon, <1>t, <2>2, <2>3, <3>2, <3>3, FencedReportKeepsJournal DEF r
  <2>4. CASE ~Fenced(w, e, v)
    BY <1>10, <1>t, <2>1, <2>2, <2>4, LostReportKeepsJournal DEF MarkPublished
  <2> QED BY <2>3, <2>4
<1>11. ASSUME NEW w \in Worker, NEW e \in Event, MarkFailed(w, e) PROVE JournalInv'
  <2>1. PICK v \in Nat : v = task[w][e].version
    BY <1>9
  <2>2. TaskDone(w, e) /\ UNCHANGED journal
    BY <1>11 DEF MarkFailed
  <2>3. PICK class \in {"retryable", "permanent"} : class = task[w][e].answer
    BY Zenon, <1>11 DEF MarkFailed
  <2>4. CASE Fenced(w, e, v)
    <3>1. Open(w, e, v) /\ row[e].state = "pending"
      BY <2>4, FencedIsOpen, Zenon DEF Fenced
    <3>2. /\ row' = [row EXCEPT ![e] = FailedRow(row[e], class)]
          /\ RecordDeliveryResult(w, e, v, FailureOutcome(row[e], class))
      BY <1>11, <2>1, <2>3, <2>4, <3>1, Zenon DEF MarkFailed
    <3> DEFINE r == FailedRow(row[e], class)
    <3>3. /\ ~r.live /\ r.by = NoWorker /\ r.version = row[e].version /\ r.error
          /\ r.attempts = row[e].attempts
          /\ r.state = IF Exhausts(row[e], class) THEN "dead" ELSE "pending"
      BY <1>r, <3>1, FailedFields
    <3>4. FailureOutcome(row[e], class) \in
            IF Exhausts(row[e], class) THEN {"permanent_failure", "retry_exhausted"}
            ELSE {"retry_scheduled"}
      BY Zenon DEF FailureOutcome, Exhausts
    <3>5. \/ r.state = "dead" /\ FailureOutcome(row[e], class) \in {"permanent_failure", "retry_exhausted"}
          \/ r.state = "pending" /\ FailureOutcome(row[e], class) = "retry_scheduled"
      BY <3>3, <3>4
    <3>6. row' = [row EXCEPT ![e] = r]
      BY <3>2
    <3> HIDE DEF r
    <3> QED BY Zenon, <1>t, <2>2, <2>4, <3>2, <3>3, <3>5, <3>6, FencedReportKeepsJournal
  <2>5. CASE ~Fenced(w, e, v)
    BY Zenon, <1>11, <1>t, <2>1, <2>2, <2>5, LostReportKeepsJournal DEF MarkFailed
  <2> QED BY <2>4, <2>5, Zenon
<1>12. ASSUME NEW w \in Worker, NEW e \in Event, ReportFails(w, e) PROVE JournalInv'
  <2>1. \A x \in Worker, y \in Event : task'[x][y] = task[x][y] \/ task'[x][y] = NoTask
    BY <1>12, <1>t DEF ReportFails, TaskDone, TypeOK
  <2> QED BY <1>12, <1>u, <2>1, Zenon DEF ReportFails, storeVars, Held
<1>13. ASSUME NEW e \in Event, LateArrival(e) PROVE JournalInv'
  BY <1>13, <1>n, <1>u DEF LateArrival, storeVars, workerVars
<1>15. ASSUME NEW e \in Event, LeaseExpires(e) \/ LeaseOutrun(e) PROVE JournalInv'
  <2> DEFINE r == [row[e] EXCEPT !.live = FALSE]
  <2>1. row' = [row EXCEPT ![e] = r] /\ UNCHANGED <<journal, result, task>>
    BY <1>15 DEF LeaseExpires, LeaseOutrun, workerVars
  <2>2. row[e].state = "pending"
    BY <1>15 DEF LeaseExpires, LeaseOutrun, FeedInv, LiveIsPending
  <2>3. /\ r.version = row[e].version /\ r.state = row[e].state /\ ~r.live
        /\ r.by = row[e].by /\ r.attempts = row[e].attempts
    BY <1>r DEF RowType
  <2> HIDE DEF r
  <2> QED BY Zenon, <1>v, <2>1, <2>2, <2>3
<1>16. ASSUME NEW e \in Event, RetryDelayElapses(e) PROVE JournalInv'
  <2> DEFINE r == [row[e] EXCEPT !.avail = TRUE]
  <2>1. row' = [row EXCEPT ![e] = r] /\ UNCHANGED <<journal, result, task>>
    BY <1>16 DEF RetryDelayElapses, workerVars
  <2>2. row[e].state = "pending"
    BY <1>16 DEF RetryDelayElapses
  <2>3. /\ r.version = row[e].version /\ r.state = row[e].state /\ r.live = row[e].live
        /\ r.by = row[e].by /\ r.attempts = row[e].attempts
    BY <1>r DEF RowType
  <2> HIDE DEF r
  <2> QED BY Zenon, <1>v, <2>1, <2>2, <2>3
<1>17. ASSUME NEW e \in Event, ReplayDeadLetter(e) PROVE JournalInv'
  <2> DEFINE r == ReplayedRow(row[e])
  <2>1. row' = [row EXCEPT ![e] = r] /\ UNCHANGED <<journal, result, task>>
    BY <1>17 DEF ReplayDeadLetter, workerVars
  <2>2. row[e].state = "dead"
    BY <1>17, Zenon DEF ReplayDeadLetter, DeadLetter
  <2>3. r.version = row[e].version /\ r.state = "pending" /\ ~r.live /\ r.by = NoWorker
    BY <1>r, ReplayedFields
  <2> HIDE DEF r
  <2> QED BY Zenon, <1>v, <2>1, <2>2, <2>3
<1>18. ASSUME NEW e \in Event, DiscardDeadLetter(e) PROVE JournalInv'
  <2> DEFINE r == [row[e] EXCEPT !.state = "discarded"]
  <2>1. row' = [row EXCEPT ![e] = r] /\ UNCHANGED <<journal, result, task>>
    BY <1>18 DEF DiscardDeadLetter, workerVars
  <2>2. row[e].state = "dead" /\ row[e].by = NoWorker
    BY <1>18 DEF DiscardDeadLetter, DeadLetter
  <2>3. /\ r.version = row[e].version /\ r.state = "discarded" /\ r.live = row[e].live
        /\ r.by = row[e].by
    BY <1>r, Zenon DEF RowType
  <2> HIDE DEF r
  <2> QED BY Zenon, <1>v, <2>1, <2>2, <2>3
<1>19. ASSUME NEW b \in SUBSET Event, PurgePublished(b) PROVE JournalInv'
  <2>1. UNCHANGED <<journal, result, task>>
    BY <1>19 DEF PurgePublished, workerVars
  <2>2. \A x \in Event : /\ row'[x].version = row[x].version /\ row'[x].live = row[x].live
                         /\ row'[x].by = row[x].by /\ row'[x].attempts = row[x].attempts
                         /\ row'[x].error = row[x].error
                         /\ x \notin b => row'[x].state = row[x].state
                         /\ x \in b => /\ row'[x].state = "purged"
                                       /\ row[x].state \in {"published", "discarded"}
    BY <1>19, <1>r, Zenon DEF PurgePublished, RowType
  <2>3. ClaimsHeld'
    BY <2>2 DEF JournalInv, ClaimsHeld, DeadLetter
  <2> QED BY <1>n, <1>t, <2>1, <2>2, <2>3, QuietStepKeepsJournal
<1>20. CASE UNCHANGED vars
  BY <1>20, <1>n, <1>u DEF vars
<1> QED
  BY <1>e, <1>1, <1>4, <1>5, <1>6, <1>8, <1>10, <1>11, <1>12, <1>13, <1>15, <1>16, <1>17,
     <1>18, <1>19, <1>20, Zenon
  DEF Next, Cycle, Deliver, Trouble, Operator, Clock

\* The journal invariant holds in every reachable state.
LEMMA JournalInvariant == Spec => [](FeedInv /\ JournalInv)
<1>1. Init => JournalInv
  <2> SUFFICES ASSUME Init PROVE JournalInv
    OBVIOUS
  <2>1. \A e \in Event : /\ row[e].state = "absent" /\ row[e].by = NoWorker
                         /\ ~row[e].live /\ row[e].version = 0
    BY DEF Init, AbsentRow
  <2>2. journal = {} /\ result = {} /\ \A w \in Worker : Held(w) = {}
    BY DEF Init, Held
  <2>3. ClaimsHeld
    BY <2>1 DEF ClaimsHeld
  <2>4. AttemptsJournalled
    BY <2>2 DEF AttemptsJournalled
  <2>5. LiveClaimsOpen
    BY <2>1 DEF LiveClaimsOpen
  <2>6. OutcomesMatch
    BY Zenon, <2>1, <2>2 DEF OutcomesMatch
  <2> QED BY <2>3, <2>4, <2>5, <2>6 DEF JournalInv
<1> QED BY <1>1, FeedInvariant, JournalPreserved, PTL DEF Spec

\* The append-only journal agrees with the rows it explains.
THEOREM JournalTellsTheTruth == Spec => []JournalAgrees
<1>1. FeedInv /\ JournalInv => JournalAgrees
  <2> SUFFICES ASSUME FeedInv, JournalInv, NEW e \in Event
               PROVE  /\ row[e].state = "published" =>
                           {r.version : r \in ResultsOf(e, {"published"})} = {row[e].version}
                      /\ row[e].state \in {"dead", "discarded"} =>
                           \E r \in ResultsOf(e, {"permanent_failure", "retry_exhausted"}) :
                             r.version = row[e].version
                      /\ row[e].live => ~HasResult(e, row[e].version)
    BY DEF JournalAgrees
  <2>1. \A r \in ResultsOf(e, {"published"}) : r.version = row[e].version
    BY DEF ResultsOf, JournalInv, OutcomesMatch
  <2>2. row[e].state = "published" =>
          \E r \in ResultsOf(e, {"published"}) : r.version = row[e].version
    BY DEF ResultsOf, JournalInv, OutcomesMatch, HasOutcome
  <2>3. row[e].state \in {"dead", "discarded"} =>
          \E r \in ResultsOf(e, {"permanent_failure", "retry_exhausted"}) : r.version = row[e].version
    BY DEF ResultsOf, JournalInv, OutcomesMatch, HasOutcome
  <2>4. row[e].live => ~HasResult(e, row[e].version)
    BY DEF JournalInv, LiveClaimsOpen
  <2> QED BY <2>1, <2>2, <2>3, <2>4, Zenon
<1> QED BY <1>1, JournalInvariant, PTL

\* Every dead letter satisfies the conditions of the operator's commands.
THEOREM DeadLettersSettle == Spec => []DeadLettersCanBeSettled
<1>1. JournalInv => DeadLettersCanBeSettled
  BY DEF JournalInv, ClaimsHeld, DeadLettersCanBeSettled
<1> QED BY <1>1, JournalInvariant, PTL

\* What LeaseIsExclusive allows to happen to e.
LeaseRespected(e) ==
    row[e].live => \/ /\ row'[e].state = row[e].state /\ row'[e].by = row[e].by
                      /\ row'[e].version = row[e].version
                   \/ /\ task[row[e].by][e].version = row[e].version
                      /\ task'[row[e].by][e] = NoTask

\* A live lease is exclusive: only the report of the task that holds it ends it.
THEOREM LeasesAreExclusive == Spec => LeaseIsExclusive
<1>1. ASSUME FeedInv, JournalInv, [Next]_vars PROVE \A e \in Event : LeaseRespected(e)
  <2>t. TypeOK /\ \A x \in Event : row[x] \in RowType
    BY <1>1, Zenon DEF FeedInv, TypeOK
  <2>u. ASSUME UNCHANGED row PROVE \A e \in Event : LeaseRespected(e)
    BY <2>u, Zenon DEF LeaseRespected
  <2>v. ASSUME NEW x \in Event, NEW r, row' = [row EXCEPT ![x] = r], LeaseRespected(x)
        PROVE  \A e \in Event : LeaseRespected(e)
    BY <2>v, <2>t, SMTT(60) DEF LeaseRespected, TypeOK
  <2>1. ASSUME NEW x \in Event, Enqueue(x) PROVE \A e \in Event : LeaseRespected(e)
    <3>1. ~row[x].live
      BY <1>1, <2>1, Zenon DEF Enqueue, FeedInv, LiveIsPending
    <3> QED BY <2>1, <2>v, <3>1 DEF Enqueue, LeaseRespected
  <2>2. ASSUME NEW w \in Worker, NEW t \in Tenant, ClaimAndSpawn(w, t) \/ ClaimFails(w, t)
        PROVE  \A e \in Event : LeaseRespected(e)
    <3>1. PICK b \in Batches(w, t) \cup {{}} : ClaimEvents(w, b)
      BY <2>2, Zenon DEF ClaimAndSpawn, ClaimFails
    <3>2. \A e \in Event : row[e].live => e \notin b
      BY <1>1 DEF Batches, Claimable, JournalInv, ClaimsHeld
    <3> QED BY <3>1, <3>2, Zenon DEF ClaimEvents, LeaseRespected
  <2>3. ASSUME NEW w \in Worker, NEW x \in Event, MarkPublished(w, x) \/ MarkFailed(w, x)
        PROVE  \A e \in Event : LeaseRespected(e)
    <3>1. CASE row' = row
      BY <3>1, <2>u
    <3>2. CASE row' # row
      <4>1. Fenced(w, x, task[w][x].version) /\ TaskDone(w, x)
        BY Zenon, <2>3, <3>2 DEF MarkPublished, MarkFailed
      <4>2. PICK r : row' = [row EXCEPT ![x] = r]
        BY Zenon, <2>3, <3>2 DEF MarkPublished, MarkFailed
      <4>3. row[x].by = w /\ task[w][x].version = row[x].version /\ task'[w][x] = NoTask
        BY <2>t, <4>1 DEF Fenced, TaskDone, TypeOK
      <4>4. LeaseRespected(x)
        BY <4>3 DEF LeaseRespected
      <4> QED BY Zenon, <2>v, <4>2, <4>4
    <3> QED BY <3>1, <3>2
  <2>4. ASSUME NEW x \in Event, LeaseExpires(x) \/ LeaseOutrun(x) \/ RetryDelayElapses(x)
        PROVE  \A e \in Event : LeaseRespected(e)
    <3>1. PICK r \in {[row[x] EXCEPT !.live = FALSE], [row[x] EXCEPT !.avail = TRUE]} :
            row' = [row EXCEPT ![x] = r]
      BY <2>4 DEF LeaseExpires, LeaseOutrun, RetryDelayElapses
    <3>2. r.state = row[x].state /\ r.by = row[x].by /\ r.version = row[x].version
      BY <2>t DEF RowType
    <3>3. LeaseRespected(x)
      BY <2>t, <3>1, <3>2, Zenon DEF LeaseRespected, TypeOK
    <3> QED BY Zenon, <2>v, <3>1, <3>3
  <2>6. ASSUME NEW x \in Event, ReplayDeadLetter(x) \/ DiscardDeadLetter(x)
        PROVE  \A e \in Event : LeaseRespected(e)
    <3>1. ~row[x].live
      BY <1>1, <2>6 DEF ReplayDeadLetter, DiscardDeadLetter, DeadLetter, FeedInv, LiveIsPending
    <3>2. PICK r : row' = [row EXCEPT ![x] = r]
      BY <2>6 DEF ReplayDeadLetter, DiscardDeadLetter
    <3> QED BY <2>v, <3>1, <3>2 DEF LeaseRespected
  <2>7. ASSUME NEW b \in SUBSET Event, PurgePublished(b) PROVE \A e \in Event : LeaseRespected(e)
    <3>1. \A e \in b : ~row[e].live
      BY <1>1, <2>7 DEF PurgePublished, FeedInv, LiveIsPending
    <3> QED BY <2>7, <3>1 DEF PurgePublished, LeaseRespected
  <2>8. ASSUME UNCHANGED storeVars PROVE \A e \in Event : LeaseRespected(e)
    BY <2>8, <2>u DEF storeVars
  <2>9. ASSUME NEW w \in Worker, StartCycle(w) \/ StopClaiming(w) \/ EndCycle(w) \/ Crash(w)
        PROVE  \A e \in Event : LeaseRespected(e)
    BY <2>8, <2>9 DEF StartCycle, StopClaiming, EndCycle, Crash
  <2>10. ASSUME NEW w \in Worker, NEW x \in Event,
                \/ PublishSucceeds(w, x) \/ ReportFails(w, x)
                \/ \E class \in {"retryable", "permanent"} : PublishFails(w, x, class)
         PROVE  \A e \in Event : LeaseRespected(e)
    BY <2>8, <2>10 DEF PublishSucceeds, ReportFails, PublishFails
  <2>11. ASSUME NEW x \in Event, LateArrival(x) PROVE \A e \in Event : LeaseRespected(e)
    BY <2>8, <2>11 DEF LateArrival
  <2>12. CASE UNCHANGED vars
    BY <2>12, <2>u DEF vars
  <2> QED
    BY <1>1, <2>1, <2>2, <2>3, <2>4, <2>6, <2>7, <2>9, <2>10, <2>11, <2>12, Zenon
    DEF Next, Cycle, Deliver, Trouble, Operator, Clock
<1>2. FeedInv /\ JournalInv /\ [Next]_vars =>
        [\A e \in Event : row[e].live =>
           \/ /\ row'[e].state = row[e].state /\ row'[e].by = row[e].by
              /\ row'[e].version = row[e].version
           \/ /\ task[row[e].by][e].version = row[e].version
              /\ task'[row[e].by][e] = NoTask]_vars
  BY Zenon, <1>1 DEF LeaseRespected
<1> QED BY <1>2, JournalInvariant, PTL DEF Spec, LeaseIsExclusive

-----------------------------------------------------------------------------
(* The attempt limit *)

\* Only a claim that is live and worked on may have used the last attempt that the
\* limit and the faults so far allow.
BudgetInv ==
    \A e \in Event :
      /\ row[e].attempts <= MaxAttempts + faults
      /\ row[e].state = "pending" /\ ~(row[e].live /\ Worked(e)) =>
           row[e].attempts < MaxAttempts + faults

\* An event is tried at most max_attempts times plus once per fault.
LEMMA BudgetPreserved ==
    FeedInv /\ JournalInv /\ BudgetInv /\ [Next]_vars => BudgetInv'
<1> SUFFICES ASSUME FeedInv, JournalInv, BudgetInv, [Next]_vars PROVE BudgetInv'
  OBVIOUS
<1>t. TypeOK /\ TypeOK' /\ \A e \in Event : row[e] \in RowType
  BY TypePreserved DEF FeedInv, TypeOK
<1>n. /\ \A e \in Event : row[e].attempts \in Nat /\ row'[e].attempts \in Nat
      /\ faults \in Nat /\ faults' \in Nat /\ MaxAttempts \in Nat /\ MaxAttempts > 0
  BY <1>t, LimitsAssumption DEF TypeOK, RowType
\* One event at a time: it got no further attempt, and either a fault was counted,
\* or it stays worked on, or it is no longer pending, or it was not its last attempt.
<1>k. ASSUME NEW e \in Event, faults <= faults', row'[e].attempts <= row[e].attempts,
             \/ faults < faults' \/ row'[e].state # "pending"
             \/ row'[e].attempts < MaxAttempts
             \/ row[e].state = "pending" /\ ~(row[e].live /\ Worked(e))
             \/ row'[e].live /\ Worked(e)'
      PROVE  /\ row'[e].attempts <= MaxAttempts + faults'
             /\ row'[e].state = "pending" /\ ~(row'[e].live /\ Worked(e)') =>
                  row'[e].attempts < MaxAttempts + faults'
  <2>1. row[e].attempts <= MaxAttempts + faults
    BY DEF BudgetInv
  <2>2. row[e].state = "pending" /\ ~(row[e].live /\ Worked(e)) =>
          row[e].attempts < MaxAttempts + faults
    BY Zenon DEF BudgetInv
  <2> QED BY <1>k, <1>n, <2>1, <2>2
<1>f. ASSUME UNCHANGED row, faults < faults' PROVE BudgetInv'
  BY <1>f, <1>k, <1>n DEF BudgetInv
<1>u. ASSUME UNCHANGED row, faults <= faults',
             \A e \in Event : row[e].live /\ Worked(e) => Worked(e)'
      PROVE  BudgetInv'
  BY <1>u, <1>k, <1>n DEF BudgetInv
<1>w. ASSUME UNCHANGED <<row, task, faults>> PROVE BudgetInv'
  <2>1. \A e \in Event : Worked(e) => Worked(e)'
    BY <1>w DEF Worked, Held
  <2> QED BY <1>w, <1>n, <1>u, <2>1
<1>v. ASSUME NEW x \in Event, \A y \in Event : y # x => row'[y] = row[y],
             UNCHANGED <<task, faults>>, row'[x].attempts <= row[x].attempts,
             \/ row'[x].state # "pending" \/ row'[x].attempts < MaxAttempts
             \/ row[x].state = "pending" /\ ~(row[x].live /\ Worked(x))
             \/ /\ row'[x].live = row[x].live /\ row'[x].by = row[x].by
                /\ row'[x].version = row[x].version /\ row[x].state = "pending"
      PROVE  BudgetInv'
  <2>2. \A y \in Event : y # x /\ Worked(y) => Worked(y)'
    BY <1>v DEF Worked, Held
  <2>3. row'[x].by = row[x].by /\ row'[x].version = row[x].version /\ Worked(x) => Worked(x)'
    BY Zenon, <1>v DEF Worked, Held
  <2> SUFFICES ASSUME NEW y \in Event
               PROVE  /\ row'[y].attempts <= MaxAttempts + faults'
                      /\ row'[y].state = "pending" /\ ~(row'[y].live /\ Worked(y)') =>
                           row'[y].attempts < MaxAttempts + faults'
    BY Zenon DEF BudgetInv
  <2>4. CASE y = x
    BY <2>4, <1>k, <1>n, <1>v, <2>3, SMTT(60)
  <2>5. CASE y # x
    BY <2>5, <1>k, <1>n, <1>v, <2>2
  <2> QED BY <2>4, <2>5, Zenon
<1>1. ASSUME NEW x \in Event, Enqueue(x) PROVE BudgetInv'
  <2> DEFINE r == QueuedRow(last[StreamOf[x]] + 1)
  <2>1. r.attempts = 0
    BY Zenon DEF QueuedRow, AbsentRow
  <2>2. row' = [row EXCEPT ![x] = r] /\ UNCHANGED <<task, faults>>
    BY <1>1, Zenon DEF Enqueue, workerVars
  <2>4. row'[x] = r /\ \A y \in Event : y # x => row'[y] = row[y]
    BY <2>2, <1>t, Zenon DEF TypeOK
  <2> HIDE DEF r
  <2> QED BY <1>v, <1>n, <2>1, <2>2, <2>4
<1>2. ASSUME NEW w \in Worker, NEW t \in Tenant, ClaimAndSpawn(w, t) \/ ClaimFails(w, t)
      PROVE  BudgetInv'
  <2>1. PICK b \in Batches(w, t) \cup {{}} :
          /\ ClaimEvents(w, b)
          /\ \/ faults' = faults /\ task' = [task EXCEPT ![w] = [e \in Event |->
                  IF e \in b THEN [version |-> row[e].version + 1, answer |-> "none"] ELSE @[e]]]
             \/ faults' = faults + 1 /\ task' = task
    BY Zenon, <1>2 DEF ClaimAndSpawn, ClaimFails
  <2> SUFFICES ASSUME NEW y \in Event
               PROVE  /\ row'[y].attempts <= MaxAttempts + faults'
                      /\ row'[y].state = "pending" /\ ~(row'[y].live /\ Worked(y)') =>
                           row'[y].attempts < MaxAttempts + faults'
    BY Zenon DEF BudgetInv
  <2>2. CASE y \in b
    <3>1. row'[y] = ClaimRow(row[y], w)
      BY Zenon, <2>1, <2>2 DEF ClaimEvents
    <3>2. /\ row'[y].attempts = row[y].attempts + 1 /\ row'[y].live /\ row'[y].by = w
          /\ row'[y].version = row[y].version + 1
      BY <1>t, <3>1, ClaimFields
    <3>3. row[y].state = "pending" /\ ~row[y].live
      BY Zenon, <2>2 DEF Batches, Claimable, JournalInv, ClaimsHeld
    <3>4. row[y].attempts < MaxAttempts + faults
      BY Zenon, <3>3 DEF BudgetInv
    <3>5. CASE faults' = faults + 1
      BY <3>2, <3>4, <3>5, <1>n, SMTT(60)
    <3>6. CASE task' = [task EXCEPT ![w] = [e \in Event |->
                  IF e \in b THEN [version |-> row[e].version + 1, answer |-> "none"] ELSE @[e]]]
               /\ faults' = faults
      <4>1. task'[w][y] = [version |-> row[y].version + 1, answer |-> "none"]
        BY Zenon, <2>2, <3>6, <1>t DEF TypeOK
      <4>v. row[y].version \in Nat
        BY <1>t, Zenon DEF RowType
      <4>2. task'[w][y].version = row[y].version + 1
        BY <4>1
      <4>z. NoTask.version = 0
        BY Zenon DEF NoTask
      <4>3. task'[w][y] # NoTask
        BY <4>v, <4>2, <4>z
      <4>4. Worked(y)'
        BY <3>2, <4>2, <4>3, Zenon DEF Worked, Held
      <4> QED BY <3>2, <3>4, <3>6, <4>4, <1>n
    <3> QED BY Zenon, <2>1, <3>5, <3>6
  <2>3. CASE y \notin b
    <3>1. row'[y] = row[y]
      BY <2>1, <2>3, Zenon DEF ClaimEvents
    <3>2. \A v \in Worker : task'[v][y] = task[v][y]
      BY <2>1, <2>3, <1>t DEF TypeOK
    <3>3. Worked(y) => Worked(y)'
      BY <3>1, <3>2 DEF Worked, Held
    <3>4. faults <= faults' /\ row'[y].attempts <= row[y].attempts
      <4>1. faults' = faults \/ faults' = faults + 1
        BY <2>1, Zenon
      <4>2. faults <= faults'
        BY <1>n, <4>1
      <4>3. row'[y].attempts <= row[y].attempts
        BY <1>n, <3>1
      <4> QED BY <4>2, <4>3
    <3>5. \/ row'[y].state # "pending"
          \/ row[y].state = "pending" /\ ~(row[y].live /\ Worked(y))
          \/ row'[y].live /\ Worked(y)'
      BY <3>1, <3>3
    <3> QED BY <1>k, <3>4, <3>5, Zenon
  <2> QED BY <2>2, <2>3
<1>3. ASSUME NEW w \in Worker, NEW x \in Event, MarkPublished(w, x) \/ MarkFailed(w, x)
      PROVE  BudgetInv'
  <2> DEFINE v == task[w][x].version
  <2>1. TaskDone(w, x) /\ UNCHANGED faults /\ x \in Held(w)
    BY Zenon, <1>3 DEF MarkPublished, MarkFailed
  <2>2. \A u \in Worker, y \in Event : (u # w \/ y # x) => task'[u][y] = task[u][y]
    BY <2>1, <1>t DEF TaskDone, TypeOK
  <2>3. CASE ~Fenced(w, x, v)
    <3>1. row' = row
      BY Zenon, <1>3, <2>3 DEF MarkPublished, MarkFailed
    <3>2. ASSUME NEW y \in Event, row[y].live, Worked(y) PROVE Worked(y)'
      <4>1. PICK u \in Worker : y \in Held(u) /\ row[y].by = u /\ task[u][y].version = row[y].version
        BY <3>2, Zenon DEF Worked
      <4>2. u # w \/ y # x
        BY <2>3, <3>2, <4>1 DEF Fenced, FeedInv, LiveIsPending
      <4> QED BY <2>2, <3>1, <4>1, <4>2, Zenon DEF Worked, Held
    <3>3. faults <= faults'
      BY <1>n, <2>1
    <3> QED BY <1>u, <3>1, <3>2, <3>3
  <2>4. CASE Fenced(w, x, v)
    <3>1. Open(w, x, v)
      BY <2>4, FencedIsOpen
    <3>2. PICK r : /\ row' = [row EXCEPT ![x] = r]
                   /\ r.attempts = row[x].attempts
                   /\ r.state # "pending" \/ r.attempts < MaxAttempts
      <4>1. CASE MarkPublished(w, x)
        <5>1. row' = [row EXCEPT ![x] = PublishedRow(row[x])]
          BY Zenon, <2>4, <3>1, <4>1 DEF MarkPublished
        <5>2. /\ PublishedRow(row[x]).state = "published"
              /\ PublishedRow(row[x]).attempts = row[x].attempts
          BY <1>t, PublishedFields
        <5> QED BY Zenon, <5>1, <5>2
      <4>2. CASE MarkFailed(w, x)
        <5>1. PICK class \in {"retryable", "permanent"} :
                row' = [row EXCEPT ![x] = FailedRow(row[x], class)]
          BY Zenon, <2>4, <3>1, <4>2 DEF MarkFailed
        <5>2. /\ FailedRow(row[x], class).attempts = row[x].attempts
              /\ FailedRow(row[x], class).state = IF Exhausts(row[x], class) THEN "dead" ELSE row[x].state
          BY <1>t, FailedFields
        <5>3. Exhausts(row[x], class) \/ row[x].attempts < MaxAttempts
          BY <1>n DEF Exhausts
        <5> QED BY Zenon, <5>1, <5>2, <5>3
      <4> QED BY <1>3, <4>1, <4>2
    <3>3. row'[x] = r /\ \A y \in Event : y # x => row'[y] = row[y]
      BY <3>2, <1>t, Zenon DEF TypeOK
    <3> SUFFICES ASSUME NEW y \in Event
                 PROVE  /\ row'[y].attempts <= MaxAttempts + faults'
                        /\ row'[y].state = "pending" /\ ~(row'[y].live /\ Worked(y)') =>
                             row'[y].attempts < MaxAttempts + faults'
      BY Zenon DEF BudgetInv
    <3>4. CASE y = x
      BY <3>4, <1>k, <1>n, <2>1, <3>2, <3>3
    <3>5. CASE y # x
      <4>1. Worked(y) => Worked(y)'
        BY <3>5, <2>2, <3>3, Zenon DEF Worked, Held
      <4>2. row'[y] = row[y]
        BY <3>3, <3>5, Zenon
      <4>3. faults <= faults' /\ row'[y].attempts <= row[y].attempts
        BY <1>n, <2>1, <4>2
      <4>4. \/ row'[y].state # "pending"
            \/ row[y].state = "pending" /\ ~(row[y].live /\ Worked(y))
            \/ row'[y].live /\ Worked(y)'
        BY <4>1, <4>2, Zenon
      <4> QED BY <1>k, <4>3, <4>4, Zenon
    <3> QED BY <3>4, <3>5
  <2> QED BY <2>3, <2>4
<1>4. ASSUME NEW x \in Event, LeaseExpires(x) PROVE BudgetInv'
  <2> DEFINE r == [row[x] EXCEPT !.live = FALSE]
  <2>1. r.attempts = row[x].attempts
    BY <1>t DEF RowType
  <2>2. row' = [row EXCEPT ![x] = r] /\ UNCHANGED <<task, faults>>
    BY <1>4 DEF LeaseExpires, workerVars
  <2>3. row[x].state = "pending" /\ ~Worked(x)
    BY <1>4 DEF LeaseExpires, FeedInv, LiveIsPending
  <2>4. row'[x] = r /\ \A y \in Event : y # x => row'[y] = row[y]
    BY <2>2, <1>t, Zenon DEF TypeOK
  <2> HIDE DEF r
  <2> QED BY <1>v, <1>n, <2>1, <2>2, <2>3, <2>4
<1>5. ASSUME NEW x \in Event, LeaseOutrun(x) PROVE BudgetInv'
  <2>1. \A y \in Event : row'[y].attempts = row[y].attempts
    BY <1>5, <1>t DEF LeaseOutrun, TypeOK, RowType
  <2>2. faults < faults'
    BY <1>5, <1>n DEF LeaseOutrun
  <2> QED BY <1>k, <1>n, <2>1, <2>2 DEF BudgetInv
<1>6. ASSUME NEW x \in Event, RetryDelayElapses(x) PROVE BudgetInv'
  <2> DEFINE r == [row[x] EXCEPT !.avail = TRUE]
  <2>1. /\ r.attempts = row[x].attempts /\ r.live = row[x].live /\ r.by = row[x].by
        /\ r.version = row[x].version
    BY <1>t DEF RowType
  <2>2. row' = [row EXCEPT ![x] = r] /\ UNCHANGED <<task, faults>> /\ row[x].state = "pending"
    BY <1>6 DEF RetryDelayElapses, workerVars
  <2>4. row'[x] = r /\ \A y \in Event : y # x => row'[y] = row[y]
    BY <2>2, <1>t, Zenon DEF TypeOK
  <2> HIDE DEF r
  <2> QED BY <1>v, <1>n, <2>1, <2>2, <2>4
<1>7. ASSUME NEW x \in Event, ReplayDeadLetter(x) PROVE BudgetInv'
  <2> DEFINE r == ReplayedRow(row[x])
  <2>1. r.attempts = 0
    BY <1>t, ReplayedFields
  <2>2. row' = [row EXCEPT ![x] = r] /\ UNCHANGED <<task, faults>>
    BY <1>7, Zenon DEF ReplayDeadLetter, workerVars
  <2>4. row'[x] = r /\ \A y \in Event : y # x => row'[y] = row[y]
    BY <2>2, <1>t, Zenon DEF TypeOK
  <2> HIDE DEF r
  <2> QED BY <1>v, <1>n, <2>1, <2>2, <2>4
<1>8. ASSUME NEW x \in Event, DiscardDeadLetter(x) PROVE BudgetInv'
  <2> DEFINE r == [row[x] EXCEPT !.state = "discarded"]
  <2>1. r.attempts = row[x].attempts /\ r.state = "discarded"
    BY <1>t DEF RowType
  <2>2. row' = [row EXCEPT ![x] = r] /\ UNCHANGED <<task, faults>>
    BY <1>8 DEF DiscardDeadLetter, workerVars
  <2>4. row'[x] = r /\ \A y \in Event : y # x => row'[y] = row[y]
    BY <2>2, <1>t, Zenon DEF TypeOK
  <2> HIDE DEF r
  <2> QED BY <1>v, <1>n, <2>1, <2>2, <2>4
<1>9. ASSUME NEW b \in SUBSET Event, PurgePublished(b) PROVE BudgetInv'
  <2>1. /\ \A y \in b : row'[y].attempts = row[y].attempts /\ row'[y].state = "purged"
        /\ \A y \in Event \ b : row'[y] = row[y]
    BY <1>9, <1>t DEF PurgePublished, RowType
  <2>2. UNCHANGED <<task, faults>>
    BY <1>9, Zenon DEF PurgePublished, workerVars
  <2>3. \A y \in Event \ b : Worked(y) => Worked(y)'
    BY <2>1, <2>2 DEF Worked, Held
  <2> QED BY <1>k, <1>n, <2>1, <2>2, <2>3 DEF BudgetInv
<1>10. ASSUME NEW w \in Worker, StartCycle(w) \/ EndCycle(w) \/ StopClaiming(w) PROVE BudgetInv'
  <2>1. UNCHANGED <<row, task>> /\ faults <= faults'
    BY <1>10, <1>n DEF StartCycle, EndCycle, StopClaiming, storeVars
  <2>2. \A y \in Event : Worked(y) => Worked(y)'
    BY <2>1, Zenon DEF Worked, Held
  <2> QED BY <1>u, <2>1, <2>2, Zenon
<1>11. ASSUME NEW w \in Worker, Crash(w) \/ \E x \in Event : ReportFails(w, x) PROVE BudgetInv'
  <2>1. UNCHANGED row /\ faults' = faults + 1
    BY <1>11 DEF Crash, ReportFails, storeVars
  <2> QED BY <1>f, <1>n, <2>1, SMTT(60)
<1>12. ASSUME NEW w \in Worker, NEW x \in Event, NEW a \in Answer, a # "none",
              x \in Held(w), task' = [task EXCEPT ![w][x].answer = a], UNCHANGED <<row, faults>>
       PROVE  BudgetInv'
  <2>1. \A u \in Worker, y \in Event : /\ task'[u][y].version = task[u][y].version
                                       /\ task[u][y] # NoTask => task'[u][y] # NoTask
    BY <1>12, <1>t DEF TypeOK, TaskType, NoTask
  <2>2. \A y \in Event : Worked(y) => Worked(y)'
    BY <1>12, <2>1 DEF Worked, Held
  <2> QED BY <1>u, <1>n, <1>12, <2>2
<1>13. ASSUME NEW w \in Worker, NEW x \in Event,
              \/ PublishSucceeds(w, x)
              \/ \E class \in {"retryable", "permanent"} : PublishFails(w, x, class)
       PROVE  BudgetInv'
  BY <1>12, <1>13 DEF PublishSucceeds, PublishFails, Answer, storeVars
<1>14. ASSUME NEW x \in Event, LateArrival(x) PROVE BudgetInv'
  BY <1>14, <1>w DEF LateArrival, storeVars, workerVars
<1>15. CASE UNCHANGED vars
  BY <1>15, <1>w DEF vars, workerVars
<1> QED
  BY <1>1, <1>2, <1>3, <1>4, <1>5, <1>6, <1>7, <1>8, <1>9, <1>10, <1>11, <1>13, <1>14, <1>15, Zenon
  DEF Next, Cycle, Deliver, Trouble, Operator, Clock

\* mark_failed dead-letters at the limit, so an event is tried at most max_attempts
\* times in a generation, plus once per claim whose outcome was never reported.
THEOREM AttemptLimitHolds == Spec => []AttemptsBounded
<1>1. Init => BudgetInv
  BY LimitsAssumption DEF Init, BudgetInv, AbsentRow
<1>2. BudgetInv => AttemptsBounded
  BY DEF BudgetInv, AttemptsBounded
<1> QED BY <1>1, <1>2, BudgetPreserved, JournalInvariant, PTL DEF Spec

-----------------------------------------------------------------------------
(* The semaphore of the delivery worker *)

HeldBound(w) == Cardinality(Held(w)) <= MaxInFlight

INSTANCE FiniteSetTheorems

\* A worker that spawns nothing stays within its permits.
LEMMA FewerHeld ==
    ASSUME NEW w \in Worker, HeldBound(w), Held(w)' \subseteq Held(w) PROVE HeldBound(w)'
<1>1. IsFiniteSet(Held(w))
  BY EventAssumption, FS_Subset, Zenon DEF Held
<1>2. /\ Cardinality(Held(w)') <= Cardinality(Held(w)) /\ IsFiniteSet(Held(w)')
  BY <1>1, FS_Subset, Zenon
<1>3. Cardinality(Held(w)) \in Nat /\ Cardinality(Held(w)') \in Nat /\ MaxInFlight \in Nat
  BY <1>1, <1>2, FS_CardinalityType, LimitsAssumption, Zenon
<1> QED BY <1>2, <1>3 DEF HeldBound

\* claim_and_spawn claims no more than the permits it reserved.
LEMMA SpawnedHeld ==
    ASSUME TypeOK, NEW w \in Worker, NEW t \in Tenant, HeldBound(w), ClaimAndSpawn(w, t)
    PROVE  HeldBound(w)'
<1>1. PICK batch \in Batches(w, t) :
        task' = [task EXCEPT ![w] = [e \in Event |->
                   IF e \in batch THEN [version |-> row[e].version + 1, answer |-> "none"]
                   ELSE task[w][e]]]
  BY Zenon DEF ClaimAndSpawn
<1>2. batch \subseteq Event /\ Cardinality(batch) <= ClaimLimit(w)
  BY Zenon DEF Batches, Claimable
<1>3. Held(w)' \subseteq Held(w) \cup batch
  BY <1>1, Zenon DEF Held, TypeOK
<1>4. /\ IsFiniteSet(Held(w)) /\ IsFiniteSet(batch)
      /\ IsFiniteSet(Held(w) \cup batch) /\ IsFiniteSet(Held(w)')
  <2>1. Held(w) \subseteq Event /\ Held(w)' \subseteq Event /\ Held(w) \cup batch \subseteq Event
    BY <1>2, Zenon DEF Held
  <2> QED BY <1>2, <2>1, EventAssumption, FS_Subset, Zenon
<1>5. /\ Cardinality(Held(w)) \in Nat /\ Cardinality(batch) \in Nat
      /\ Cardinality(Held(w) \cup batch) \in Nat /\ Cardinality(Held(w)') \in Nat
      /\ Cardinality(Held(w) \cap batch) \in Nat
  <2>1. IsFiniteSet(Held(w) \cap batch)
    BY <1>4, FS_Intersection, Zenon
  <2> QED BY <1>4, <2>1, FS_CardinalityType, Zenon
<1>6. Cardinality(Held(w) \cup batch) <= Cardinality(Held(w)) + Cardinality(batch)
  <2>1. Cardinality(Held(w) \cup batch) =
          Cardinality(Held(w)) + Cardinality(batch) - Cardinality(Held(w) \cap batch)
    BY <1>4, FS_Union, Zenon
  <2> QED BY <1>5, <2>1
<1>7. Cardinality(Held(w)') <= Cardinality(Held(w) \cup batch)
  BY <1>3, <1>4, FS_Subset, Zenon
<1>8. Cardinality(batch) <= MaxInFlight - Cardinality(Held(w))
  BY <1>2, <1>5, LimitsAssumption DEF ClaimLimit
<1> QED BY <1>5, <1>6, <1>7, <1>8, LimitsAssumption DEF HeldBound

\* Every other step of w or of anybody else leaves w with the tasks it had or fewer.
LEMMA NothingSpawned ==
    ASSUME TypeOK, [Next]_vars, NEW w \in Worker, ~\E t \in Tenant : ClaimAndSpawn(w, t)
    PROVE  Held(w)' \subseteq Held(w)
<1>0. task \in [Worker -> [Event -> TaskType]]
  BY DEF TypeOK
<1>1. CASE UNCHANGED task
  BY <1>1, Zenon DEF Held
<1>2. ASSUME NEW x \in Worker, NEW t \in Tenant, ClaimAndSpawn(x, t)
      PROVE  Held(w)' \subseteq Held(w)
  <2>1. x # w
    BY <1>2, Zenon
  <2>2. task'[w] = task[w]
    BY <1>0, <1>2, <2>1, Zenon DEF ClaimAndSpawn
  <2> QED BY <2>2, Zenon DEF Held
<1>3. ASSUME NEW x \in Worker, Crash(x) PROVE Held(w)' \subseteq Held(w)
  BY <1>0, <1>3, Zenon DEF Crash, Held
<1>4. ASSUME NEW x \in Worker, NEW e \in Event, TaskDone(x, e) PROVE Held(w)' \subseteq Held(w)
  BY <1>0, <1>4 DEF TaskDone, Held
<1>5. ASSUME NEW x \in Worker, NEW e \in Event, e \in Held(x), NEW a,
             task' = [task EXCEPT ![x][e].answer = a]
      PROVE  Held(w)' \subseteq Held(w)
  BY <1>0, <1>5, Zenon DEF Held
<1>6. ASSUME NEW x \in Worker, NEW e \in Event, Deliver(x, e) PROVE Held(w)' \subseteq Held(w)
  BY <1>4, <1>5, <1>6, Zenon DEF Deliver, PublishSucceeds, PublishFails, MarkPublished, MarkFailed
<1>7. ASSUME NEW x \in Worker, Trouble(x) PROVE Held(w)' \subseteq Held(w)
  BY <1>1, <1>3, <1>4, <1>7, Zenon DEF Trouble, ClaimFails, ReportFails
<1>8. ASSUME NEW x \in Worker, Cycle(x) PROVE Held(w)' \subseteq Held(w)
  BY <1>1, <1>2, <1>8, Zenon DEF Cycle, StartCycle, StopClaiming, EndCycle
<1>9. CASE Operator
  BY <1>1, <1>9, Zenon DEF Operator, ReplayDeadLetter, DiscardDeadLetter, PurgePublished, workerVars
<1>10. ASSUME NEW e \in Event, Enqueue(e) \/ LateArrival(e) \/ Clock(e) \/ LeaseOutrun(e)
       PROVE  Held(w)' \subseteq Held(w)
  BY <1>1, <1>10 DEF Enqueue, LateArrival, Clock, LeaseExpires, RetryDelayElapses, LeaseOutrun,
     workerVars
<1> QED BY <1>1, <1>6, <1>7, <1>8, <1>9, <1>10, ZenonT(60) DEF Next, vars

\* Over all tenants and cycles, one process never has more than max_in_flight
\* deliveries running (reserve_claim_slots).
THEOREM PermitsHold == Spec => []InFlightBounded
<1>1. Init => InFlightBounded
  <2> SUFFICES ASSUME Init, NEW w \in Worker PROVE HeldBound(w)
    BY Zenon DEF InFlightBounded, HeldBound
  <2>1. Held(w) = {}
    BY Zenon DEF Init, Held
  <2> QED BY <2>1, FS_EmptySet, LimitsAssumption DEF HeldBound
<1>2. TypeOK /\ InFlightBounded /\ [Next]_vars => InFlightBounded'
  <2> SUFFICES ASSUME TypeOK, InFlightBounded, [Next]_vars, NEW w \in Worker
               PROVE  HeldBound(w)'
    BY DEF InFlightBounded, HeldBound
  <2>1. HeldBound(w)
    BY DEF InFlightBounded, HeldBound
  <2> QED BY <2>1, FewerHeld, SpawnedHeld, NothingSpawned, Zenon
<1> QED BY <1>1, <1>2, TypeCorrect, PTL DEF Spec
=============================================================================
