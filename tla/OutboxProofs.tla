---------------------------- MODULE OutboxProofs -----------------------------
(***************************************************************************)
(* Machine-checked proofs about Outbox for any number of events, ordering  *)
(* keys, tenants and workers, any batch size, capacity and attempt limit.  *)
(***************************************************************************)
EXTENDS Outbox, TLAPS

\* Every transition of a row yields a row.
LEMMA RowTransitionsTyped ==
    ASSUME NEW r \in RowType
    PROVE  /\ Released(r) \in RowType /\ PublishedRow(r) \in RowType
           /\ FailedRow(r, "retryable") \in RowType /\ FailedRow(r, "permanent") \in RowType
           /\ ReplayedRow(r) \in RowType
           /\ [r EXCEPT !.live = FALSE] \in RowType /\ [r EXCEPT !.avail = TRUE] \in RowType
           /\ [r EXCEPT !.state = "discarded"] \in RowType
           /\ [r EXCEPT !.state = "purged"] \in RowType
           /\ \A w \in Worker : ClaimRow(r, w) \in RowType
           /\ \A n \in Nat : QueuedRow(n) \in RowType
<1>1. /\ r.state \in EventState /\ r.seq \in Nat /\ r.avail \in BOOLEAN
      /\ r.by \in Worker \cup {NoWorker} /\ r.live \in BOOLEAN /\ r.version \in Nat
      /\ r.attempts \in Nat /\ r.error \in BOOLEAN /\ r.replays \in Nat
  BY DEF RowType
<1>2. Released(r) \in RowType
  BY Zenon DEF RowType, Released
<1>3. PublishedRow(r) \in RowType
  BY Zenon, <1>2 DEF RowType, PublishedRow, EventState
<1>4. FailedRow(r, "retryable") \in RowType /\ FailedRow(r, "permanent") \in RowType
  BY Zenon, <1>2 DEF RowType, FailedRow, EventState
<1>5. ASSUME NEW w \in Worker PROVE ClaimRow(r, w) \in RowType
  <2>1. r.version + 1 \in Nat /\ r.attempts + 1 \in Nat
    BY <1>1
  <2> QED BY Zenon, <1>1, <2>1 DEF RowType, ClaimRow
<1>6. ReplayedRow(r) \in RowType
  <2>1. r.replays + 1 \in Nat /\ 0 \in Nat
    BY <1>1
  <2> QED BY Zenon, <1>1, <2>1 DEF RowType, ReplayedRow, EventState
<1>7. ASSUME NEW n \in Nat PROVE QueuedRow(n) \in RowType
  BY Zenon DEF RowType, QueuedRow, AbsentRow, EventState
<1>8. [r EXCEPT !.live = FALSE] \in RowType /\ [r EXCEPT !.avail = TRUE] \in RowType
  BY Zenon DEF RowType
<1>9. [r EXCEPT !.state = "discarded"] \in RowType /\ [r EXCEPT !.state = "purged"] \in RowType
  BY Zenon DEF RowType, EventState
<1> QED BY Zenon, <1>2, <1>3, <1>4, <1>5, <1>6, <1>7, <1>8, <1>9

\* What the transitions do to the fields of a row.
LEMMA PublishedFields ==
    ASSUME NEW r \in RowType
    PROVE  /\ PublishedRow(r).seq = r.seq /\ PublishedRow(r).by = NoWorker /\ ~PublishedRow(r).live
           /\ PublishedRow(r).version = r.version /\ PublishedRow(r).attempts = r.attempts
           /\ PublishedRow(r).state = "published"
BY DEF RowType, PublishedRow, Released

\* What mark_failed does to a row.
LEMMA FailedFields ==
    ASSUME NEW r \in RowType, NEW class \in {"retryable", "permanent"}
    PROVE  /\ FailedRow(r, class).seq = r.seq /\ FailedRow(r, class).by = NoWorker
           /\ ~FailedRow(r, class).live /\ FailedRow(r, class).version = r.version
           /\ FailedRow(r, class).attempts = r.attempts /\ FailedRow(r, class).error
           /\ FailedRow(r, class).state = IF Exhausts(r, class) THEN "dead" ELSE r.state
BY DEF RowType, FailedRow, Released

\* What replay_dead_letter does to a row.
LEMMA ReplayedFields ==
    ASSUME NEW r \in RowType
    PROVE  /\ ReplayedRow(r).seq = r.seq /\ ReplayedRow(r).by = NoWorker /\ ~ReplayedRow(r).live
           /\ ReplayedRow(r).version = r.version /\ ReplayedRow(r).attempts = 0
           /\ ReplayedRow(r).state = "pending"
BY DEF RowType, ReplayedRow

\* What claim_events does to a row.
LEMMA ClaimFields ==
    ASSUME NEW r \in RowType, NEW w \in Worker
    PROVE  /\ ClaimRow(r, w).state = r.state /\ ClaimRow(r, w).seq = r.seq
           /\ ClaimRow(r, w).by = w /\ ClaimRow(r, w).live
           /\ ClaimRow(r, w).version = r.version + 1
           /\ ClaimRow(r, w).attempts = r.attempts + 1
BY DEF RowType, ClaimRow

\* The row enqueue inserts.
LEMMA QueuedFields ==
    ASSUME NEW n \in Nat
    PROVE  /\ QueuedRow(n).state = "pending" /\ QueuedRow(n).seq = n
           /\ QueuedRow(n).by = NoWorker /\ ~QueuedRow(n).live
           /\ QueuedRow(n).version = 0 /\ QueuedRow(n).attempts = 0
BY DEF QueuedRow, AbsentRow

\* Journalling outcomes keeps the result table typed.
LEMMA ResultsTyped ==
    ASSUME TypeOK, NEW w \in Worker, NEW e \in Event, NEW v \in Nat, NEW o \in Outcome,
           RecordDeliveryResult(w, e, v, o)
    PROVE  result' \subseteq ResultType
BY DEF TypeOK, RecordDeliveryResult, ResultType

\* The type invariant is inductive.
LEMMA TypePreserved == TypeOK /\ [Next]_vars => TypeOK'
<1> SUFFICES ASSUME TypeOK, [Next]_vars PROVE TypeOK'
  OBVIOUS
<1> USE ConstantsAssumption
<1>e. ASSUME NEW e \in Event, Enqueue(e) PROVE TypeOK'
  <2>1. StreamOf[e] \in Stream /\ last[StreamOf[e]] + 1 \in Nat
    BY DEF TypeOK
  <2>2. row' \in [Event -> RowType]
    BY Zenon, <1>e, <2>1, RowTransitionsTyped DEF TypeOK, Enqueue
  <2>3. last' \in [Stream -> Nat]
    BY <1>e, <2>1 DEF TypeOK, Enqueue
  <2> QED BY <1>e, <2>2, <2>3 DEF TypeOK, Enqueue, workerVars
<1>c. ASSUME NEW w \in Worker, NEW t \in Tenant, NEW b \in SUBSET Event, ClaimEvents(w, b)
      PROVE  row' \in [Event -> RowType] /\ journal' \subseteq AttemptType
  <2>1. row' \in [Event -> RowType]
    BY Zenon, <1>c, RowTransitionsTyped DEF TypeOK, ClaimEvents
  <2>2. \A e \in Event : /\ row[e].version + 1 \in Nat /\ row[e].replays \in Nat
                         /\ row[e].attempts + 1 \in Nat
    BY DEF TypeOK, RowType
  <2>3. journal' \subseteq AttemptType
    BY <1>c, <2>2 DEF TypeOK, ClaimEvents, AttemptType
  <2> QED BY <2>1, <2>3
<1>1. ASSUME NEW w \in Worker, StartCycle(w) PROVE TypeOK'
  BY <1>1 DEF TypeOK, StartCycle, storeVars
<1>2. ASSUME NEW w \in Worker, StopClaiming(w) PROVE TypeOK'
  BY <1>2 DEF TypeOK, StopClaiming, storeVars
<1>3. ASSUME NEW w \in Worker, EndCycle(w) PROVE TypeOK'
  BY <1>3 DEF TypeOK, EndCycle, storeVars
<1>4. ASSUME NEW w \in Worker, NEW t \in Tenant, ClaimAndSpawn(w, t) PROVE TypeOK'
  <2>1. PICK b \in Batches(w, t) :
          /\ ClaimEvents(w, b)
          /\ task' = [task EXCEPT ![w] = [e \in Event |->
                       IF e \in b THEN [version |-> row[e].version + 1, answer |-> "none"]
                       ELSE @[e]]]
    BY <1>4 DEF ClaimAndSpawn
  <2>2. b \in SUBSET Event
    BY DEF Batches, Claimable
  <2>3. \A e \in Event : row[e].version + 1 \in Nat
    BY DEF TypeOK, RowType
  <2>4. task' \in [Worker -> [Event -> TaskType]]
    BY <2>1, <2>3 DEF TypeOK, TaskType, Answer
  <2>5. todo' \in [Worker -> SUBSET Tenant]
    BY <1>4 DEF TypeOK, ClaimAndSpawn
  <2> QED BY Zenon, <1>4, <1>c, <2>1, <2>2, <2>4, <2>5 DEF TypeOK, ClaimAndSpawn, ClaimEvents
<1>5. ASSUME NEW w \in Worker, NEW t \in Tenant, ClaimFails(w, t) PROVE TypeOK'
  <2>1. PICK b \in Batches(w, t) \cup {{}} : ClaimEvents(w, b)
    BY <1>5 DEF ClaimFails
  <2>2. b \in SUBSET Event
    BY DEF Batches, Claimable
  <2>3. todo' \in [Worker -> SUBSET Tenant] /\ faults' \in Nat
    BY <1>5 DEF TypeOK, ClaimFails
  <2> QED BY Zenon, <1>5, <1>c, <2>1, <2>2, <2>3 DEF TypeOK, ClaimFails, ClaimEvents
<1>6. ASSUME NEW w \in Worker, Crash(w) PROVE TypeOK'
  <2>1. inflight' \subseteq Event /\ faults' \in Nat
    BY <1>6 DEF TypeOK, Crash, Held
  <2>2. task' \in [Worker -> [Event -> TaskType]]
    BY <1>6 DEF TypeOK, Crash, TaskType, Answer, NoTask
  <2> QED BY <1>6, <2>1, <2>2 DEF TypeOK, Crash, storeVars
<1>7. ASSUME NEW w \in Worker, NEW e \in Event, PublishSucceeds(w, e) PROVE TypeOK'
  <2>1. task' \in [Worker -> [Event -> TaskType]]
    BY <1>7 DEF TypeOK, PublishSucceeds, TaskType, Answer
  <2> QED BY <1>7, <2>1 DEF TypeOK, PublishSucceeds, storeVars
<1>8. ASSUME NEW w \in Worker, NEW e \in Event, NEW class \in {"retryable", "permanent"},
             PublishFails(w, e, class)
      PROVE  TypeOK'
  <2>1. task' \in [Worker -> [Event -> TaskType]]
    BY <1>8 DEF TypeOK, PublishFails, TaskType, Answer
  <2>2. inflight' \subseteq Event
    BY <1>8 DEF TypeOK, PublishFails
  <2> QED BY <1>8, <2>1, <2>2 DEF TypeOK, PublishFails, storeVars
<1>9. ASSUME NEW w \in Worker, NEW e \in Event, TaskDone(w, e)
      PROVE  task' \in [Worker -> [Event -> TaskType]] /\ task[w][e].version \in Nat
  BY <1>9 DEF TypeOK, TaskDone, TaskType, Answer, NoTask
<1>10. ASSUME NEW w \in Worker, NEW e \in Event, MarkPublished(w, e) PROVE TypeOK'
  <2>1. row' \in [Event -> RowType]
    BY Zenon, <1>10, RowTransitionsTyped DEF TypeOK, MarkPublished
  <2>2. TaskDone(w, e)
    BY <1>10 DEF MarkPublished
  <2>3. PICK o \in Outcome : RecordDeliveryResult(w, e, task[w][e].version, o)
    BY <1>10 DEF MarkPublished, Outcome
  <2>4. result' \subseteq ResultType
    BY <1>9, <2>2, <2>3, ResultsTyped
  <2> QED BY <1>9, <1>10, <2>1, <2>2, <2>4 DEF TypeOK, MarkPublished
<1>11. ASSUME NEW w \in Worker, NEW e \in Event, MarkFailed(w, e) PROVE TypeOK'
  <2>1. row' \in [Event -> RowType]
    BY Zenon, <1>11, RowTransitionsTyped DEF TypeOK, MarkFailed
  <2>2. TaskDone(w, e)
    BY <1>11, Zenon DEF MarkFailed
  <2>3. PICK o \in Outcome : RecordDeliveryResult(w, e, task[w][e].version, o)
    BY <1>11 DEF MarkFailed, FailureOutcome, Outcome
  <2>4. result' \subseteq ResultType
    BY <1>9, <2>2, <2>3, ResultsTyped
  <2> QED BY <1>9, <1>11, <2>1, <2>2, <2>4 DEF TypeOK, MarkFailed
<1>12. ASSUME NEW w \in Worker, NEW e \in Event, ReportFails(w, e) PROVE TypeOK'
  BY <1>9, <1>12 DEF TypeOK, ReportFails, storeVars
<1>13. ASSUME NEW e \in Event, LateArrival(e) PROVE TypeOK'
  BY <1>13 DEF TypeOK, LateArrival, storeVars, workerVars
<1>14a. ASSUME NEW e \in Event, LeaseExpires(e) PROVE TypeOK'
  <2>1. row' \in [Event -> RowType]
    BY Zenon, <1>14a, RowTransitionsTyped DEF TypeOK, LeaseExpires
  <2> QED BY <1>14a, <2>1 DEF TypeOK, LeaseExpires, workerVars
<1>14b. ASSUME NEW e \in Event, LeaseOutrun(e) PROVE TypeOK'
  <2>1. row' \in [Event -> RowType]
    BY Zenon, <1>14b, RowTransitionsTyped DEF TypeOK, LeaseOutrun
  <2> QED BY <1>14b, <2>1 DEF TypeOK, LeaseOutrun, workerVars
<1>14c. ASSUME NEW e \in Event, RetryDelayElapses(e) PROVE TypeOK'
  <2>1. row' \in [Event -> RowType]
    BY Zenon, <1>14c, RowTransitionsTyped DEF TypeOK, RetryDelayElapses
  <2> QED BY <1>14c, <2>1 DEF TypeOK, RetryDelayElapses, workerVars
<1>14d. ASSUME NEW e \in Event, ReplayDeadLetter(e) PROVE TypeOK'
  <2>1. row' \in [Event -> RowType]
    BY Zenon, <1>14d, RowTransitionsTyped DEF TypeOK, ReplayDeadLetter
  <2> QED BY <1>14d, <2>1 DEF TypeOK, ReplayDeadLetter, workerVars
<1>14e. ASSUME NEW e \in Event, DiscardDeadLetter(e) PROVE TypeOK'
  <2>1. row' \in [Event -> RowType]
    BY Zenon, <1>14e, RowTransitionsTyped DEF TypeOK, DiscardDeadLetter
  <2> QED BY <1>14e, <2>1 DEF TypeOK, DiscardDeadLetter, workerVars
<1>15. ASSUME NEW b \in SUBSET Event, PurgePublished(b) PROVE TypeOK'
  <2>1. row' \in [Event -> RowType]
    BY Zenon, <1>15, RowTransitionsTyped DEF TypeOK, PurgePublished
  <2> QED BY <1>15, <2>1 DEF TypeOK, PurgePublished, workerVars
<1>16. CASE UNCHANGED vars
  BY <1>16 DEF TypeOK, vars
<1> QED
  BY <1>e, <1>1, <1>2, <1>3, <1>4, <1>5, <1>6, <1>7, <1>8, <1>10, <1>11, <1>12, <1>13, <1>14a, <1>14b,
     <1>14c, <1>14d, <1>14e, <1>15, <1>16
  DEF Next, Cycle, Deliver, Trouble, Operator, Clock

\* The tables, the journal and every task stay well typed.
THEOREM TypeCorrect == Spec => []TypeOK
<1>1. Init => TypeOK
  BY ConstantsAssumption
  DEF Init, TypeOK, RowType, AbsentRow, EventState, TaskType, Answer, NoTask
<1> QED BY <1>1, TypePreserved, PTL DEF Spec

-----------------------------------------------------------------------------
(* Delivery at least once and in order *)

Settled(e) == row[e].state \in {"published", "discarded", "purged"}

\* A delivery of e is under way or may still arrive.
Opened(e) == e \in inflight \/ \E w \in Worker : e \in Held(w)

Numbered ==
    \A e \in Event : /\ row[e].state = "absent" <=> row[e].seq = 0
                     /\ row[e].seq <= last[StreamOf[e]]

SettledHonestly ==
    \A e \in Event : /\ row[e].state = "published" => e \in delivered
                     /\ row[e].state = "discarded" => e \in discards
                     /\ row[e].state = "purged" => e \in delivered \cup discards

AnswersHonest == \A w \in Worker, e \in Event : task[w][e].answer = "ok" => e \in delivered

\* The strengthening: a delivery is opened only behind settled predecessors, and
\* stays behind settled predecessors however long its request is delayed.
OpenedInOrder ==
    \A e \in Event : Opened(e) =>
      /\ row[e].seq > 0
      /\ \A p \in Event :
           StreamOf[p] = StreamOf[e] /\ 0 < row[p].seq /\ row[p].seq < row[e].seq => Settled(p)

LiveIsPending == \A e \in Event : row[e].live => row[e].state = "pending"

FeedInv ==
    TypeOK /\ Numbered /\ LiveIsPending /\ SettledHonestly /\ AnswersHonest /\ OpenedInOrder

\* Numbers are given once, in increasing order.
SeqsKept ==
    \A e \in Event : \/ row'[e].seq = row[e].seq
                     \/ row[e].seq = 0 /\ row'[e].seq > last[StreamOf[e]]

\* A step that settles no less and opens no delivery keeps deliveries in order.
LEMMA OrderKept ==
    ASSUME FeedInv, TypeOK', SeqsKept,
           \A e \in Event : Settled(e) => Settled(e)',
           \A e \in Event : Opened(e)' => Opened(e)
    PROVE  OpenedInOrder'
<1> SUFFICES ASSUME NEW e \in Event, Opened(e)'
             PROVE  /\ row'[e].seq > 0
                    /\ \A p \in Event :
                         StreamOf[p] = StreamOf[e] /\ 0 < row'[p].seq /\ row'[p].seq < row'[e].seq
                         => Settled(p)'
  BY DEF OpenedInOrder
<1>1. \A p \in Event : row[p].seq \in Nat /\ row'[p].seq \in Nat /\ last[StreamOf[p]] \in Nat
  BY ConstantsAssumption DEF FeedInv, TypeOK, RowType
<1>2. row[e].seq > 0 /\ row'[e].seq = row[e].seq
  BY <1>1 DEF FeedInv, OpenedInOrder, SeqsKept
<1>3. ASSUME NEW p \in Event, StreamOf[p] = StreamOf[e], 0 < row'[p].seq, row'[p].seq < row'[e].seq
      PROVE  Settled(p)'
  <2>1. row[e].seq <= last[StreamOf[p]]
    BY <1>3 DEF FeedInv, Numbered
  <2>2. row'[p].seq = row[p].seq
    BY <1>1, <1>2, <1>3, <2>1 DEF SeqsKept
  <2>3. Settled(p)
    BY <1>1, <1>2, <1>3, <2>2 DEF FeedInv, OpenedInOrder
  <2> QED BY <2>3
<1> QED BY <1>2, <1>3

\* A step that leaves rows, evidence and arrivals alone, invents no answer and opens
\* no delivery preserves the invariant.
LEMMA TaskStepKeepsFeed ==
    ASSUME FeedInv, TypeOK', UNCHANGED <<row, last, discards>>, delivered \subseteq delivered',
           AnswersHonest', \A e \in Event : Opened(e)' => Opened(e)
    PROVE  FeedInv'
<1>1. SeqsKept /\ \A e \in Event : Settled(e) => Settled(e)'
  BY DEF SeqsKept, Settled
<1>2. OpenedInOrder'
  BY <1>1, OrderKept
<1>3. Numbered' /\ LiveIsPending' /\ SettledHonestly'
  BY DEF FeedInv, Numbered, LiveIsPending, SettledHonestly
<1> QED BY <1>2, <1>3 DEF FeedInv

\* A step that changes one row in the ways a settled or retried row changes, and no
\* arrival, answer or stream, preserves the invariant.
LEMMA RowStepKeepsFeed ==
    ASSUME FeedInv, TypeOK', NEW e \in Event, NEW r, row' = [row EXCEPT ![e] = r],
           UNCHANGED <<last, delivered>>, discards \subseteq discards',
           r.seq = row[e].seq, row[e].state # "absent", r.state # "absent",
           ~Settled(e), r.live => r.state = "pending",
           \/ r.state = row[e].state \/ r.state \in {"pending", "dead"}
           \/ r.state = "published" /\ e \in delivered
           \/ r.state = "discarded" /\ e \in discards',
           AnswersHonest', \A x \in Event : Opened(x)' => Opened(x)
    PROVE  FeedInv'
<1>1. row'[e] = r /\ \A x \in Event : x # e => row'[x] = row[x]
  BY DEF FeedInv, TypeOK
<1>2. SeqsKept /\ \A x \in Event : Settled(x) => Settled(x)'
  BY <1>1 DEF SeqsKept, Settled
<1>3. OpenedInOrder'
  BY <1>2, OrderKept
<1>4. Numbered' /\ LiveIsPending'
  BY <1>1 DEF FeedInv, Numbered, LiveIsPending
<1>5. SettledHonestly'
  BY <1>1 DEF FeedInv, SettledHonestly
<1> QED BY <1>3, <1>4, <1>5 DEF FeedInv

\* Claims open deliveries only where no predecessor is unsettled.
LEMMA ClaimKeepsFeed ==
    ASSUME FeedInv, TypeOK', NEW w \in Worker, NEW t, NEW batch \in SUBSET Claimable(t),
           ClaimEvents(w, batch), UNCHANGED <<delivered, inflight>>,
           \A x \in Worker, e \in Event : \/ task'[x][e] = task[x][e]
                                          \/ e \in batch /\ task'[x][e].answer = "none"
    PROVE  FeedInv'
<1>1. \A e \in Event : row'[e] = IF e \in batch THEN ClaimRow(row[e], w) ELSE row[e]
  BY DEF ClaimEvents
<1>2. \A e \in Event : row[e] \in RowType
  BY DEF FeedInv, TypeOK
<1>3. \A e \in Event : row'[e].seq = row[e].seq /\ row'[e].state = row[e].state
  BY <1>1, <1>2, ClaimFields
<1>4. batch \subseteq Event /\ \A e \in batch : row[e].state = "pending" /\ Predecessors(e) = {}
  BY DEF Claimable
<1>5. Numbered' /\ SettledHonestly'
  BY <1>3 DEF FeedInv, Numbered, SettledHonestly, ClaimEvents
<1>6. LiveIsPending'
  BY <1>1, <1>3, <1>4 DEF FeedInv, LiveIsPending
<1>7. AnswersHonest'
  BY DEF FeedInv, AnswersHonest
<1>8. \A e \in Event : Settled(e)' <=> Settled(e)
  BY <1>3 DEF Settled
<1>9. \A e \in Event : Opened(e)' => Opened(e) \/ e \in batch
  BY DEF Opened, Held
<1>10. ASSUME NEW e \in batch, NEW p \in Event, StreamOf[p] = StreamOf[e], 0 < row[p].seq,
              row[p].seq < row[e].seq
       PROVE  Settled(p)
  <2>1. row[p].state \notin {"pending", "dead"}
    BY <1>4, <1>10 DEF Predecessors
  <2>2. row[p].state # "absent"
    BY <1>10 DEF FeedInv, Numbered
  <2> QED BY <1>2, <2>1, <2>2 DEF RowType, EventState, Settled
<1>11. ASSUME NEW e \in batch PROVE row[e].seq > 0
  BY <1>2, <1>4, SMTT(60) DEF FeedInv, Numbered, RowType
<1>12. OpenedInOrder'
  BY <1>3, <1>4, <1>8, <1>9, <1>10, <1>11 DEF FeedInv, OpenedInOrder
<1> QED BY <1>5, <1>6, <1>7, <1>12 DEF FeedInv

\* Every step preserves the invariant.
LEMMA FeedPreserved == FeedInv /\ [Next]_vars => FeedInv'
<1> SUFFICES ASSUME FeedInv, [Next]_vars PROVE FeedInv'
  OBVIOUS
<1>t. TypeOK /\ TypeOK'
  BY TypePreserved DEF FeedInv
<1>r. \A e \in Event : row[e] \in RowType
  BY <1>t DEF TypeOK
<1>e. ASSUME NEW e \in Event, Enqueue(e) PROVE FeedInv'
  <2>1. StreamOf[e] \in Stream /\ last[StreamOf[e]] \in Nat /\ last[StreamOf[e]] + 1 \in Nat
    BY <1>t, ConstantsAssumption DEF TypeOK
  <2>2. /\ row[e].state = "absent" /\ row[e].seq = 0
        /\ row'[e] = QueuedRow(last[StreamOf[e]] + 1)
        /\ \A x \in Event : x # e => row'[x] = row[x]
    BY <1>e, <1>t DEF Enqueue, FeedInv, Numbered, TypeOK
  <2>3. row'[e].state = "pending" /\ row'[e].seq = last[StreamOf[e]] + 1 /\ ~row'[e].live
    BY <2>1, <2>2, <1>r, QueuedFields
  <2>5. /\ last'[StreamOf[e]] = last[StreamOf[e]] + 1
        /\ \A s \in Stream : s # StreamOf[e] => last'[s] = last[s]
    BY <1>e, <1>t, <2>1 DEF Enqueue, TypeOK
  <2>4. \A x \in Event : last[StreamOf[x]] \in Nat /\ last[StreamOf[x]] <= last'[StreamOf[x]]
    <3> TAKE x \in Event
    <3>1. StreamOf[x] \in Stream /\ last[StreamOf[x]] \in Nat
      BY <1>t, ConstantsAssumption DEF TypeOK
    <3> QED BY <2>5, <3>1
  <2>6. \A x \in Event : row[x].seq \in Nat
    BY <1>r DEF RowType
  <2>7. Numbered'
    <3> SUFFICES ASSUME NEW x \in Event
                 PROVE  /\ row'[x].state = "absent" <=> row'[x].seq = 0
                        /\ row'[x].seq <= last'[StreamOf[x]]
      BY DEF Numbered
    <3>1. CASE x = e
      BY <2>1, <2>3, <2>5, <3>1
    <3>2. CASE x # e
      <4>1. row[x].seq <= last[StreamOf[x]] /\ (row[x].state = "absent" <=> row[x].seq = 0)
        BY DEF FeedInv, Numbered
      <4>2. last'[StreamOf[x]] \in Nat
        BY <2>1, <2>4, <2>5, ConstantsAssumption, <1>t, Zenon DEF TypeOK
      <4> QED BY <2>2, <2>4, <2>6, <3>2, <4>1, <4>2
    <3> QED BY <3>1, <3>2
  <2>8. LiveIsPending' /\ SettledHonestly' /\ AnswersHonest'
    BY <1>e, <2>2, <2>3
    DEF Enqueue, workerVars, FeedInv, LiveIsPending, SettledHonestly, AnswersHonest
  <2>9. SeqsKept
    BY <2>1, <2>2, <2>3 DEF SeqsKept
  <2>10. \A x \in Event : (Settled(x) => Settled(x)') /\ (Opened(x)' => Opened(x))
    BY <1>e, <2>2 DEF Enqueue, workerVars, Settled, Opened, Held
  <2>11. OpenedInOrder'
    BY <1>t, <2>9, <2>10, OrderKept, Zenon
  <2> QED BY <1>t, <2>7, <2>8, <2>11 DEF FeedInv
<1>1. ASSUME NEW w \in Worker, StartCycle(w) \/ StopClaiming(w) \/ EndCycle(w) PROVE FeedInv'
  <2>1. UNCHANGED <<storeVars, task, inflight, delivered>>
    BY <1>1, Zenon DEF StartCycle, StopClaiming, EndCycle
  <2> QED
    BY <1>t, <2>1, TaskStepKeepsFeed DEF storeVars, FeedInv, AnswersHonest, Opened, Held
<1>4. ASSUME NEW w \in Worker, NEW t \in Tenant, ClaimAndSpawn(w, t) PROVE FeedInv'
  <2>1. PICK b \in Batches(w, t) :
          /\ ClaimEvents(w, b)
          /\ task' = [task EXCEPT ![w] = [e \in Event |->
                       IF e \in b THEN [version |-> row[e].version + 1, answer |-> "none"]
                       ELSE @[e]]]
    BY <1>4 DEF ClaimAndSpawn
  <2>2. b \in SUBSET Claimable(t)
    BY DEF Batches
  <2>3. \A x \in Worker, e \in Event : \/ task'[x][e] = task[x][e]
                                       \/ e \in b /\ task'[x][e].answer = "none"
    BY <1>t, <2>1, Zenon DEF TypeOK
  <2> QED BY <1>4, <1>t, <2>1, <2>2, <2>3, ClaimKeepsFeed, Zenon DEF ClaimAndSpawn
<1>5. ASSUME NEW w \in Worker, NEW t \in Tenant, ClaimFails(w, t) PROVE FeedInv'
  <2>1. PICK b \in Batches(w, t) \cup {{}} : ClaimEvents(w, b)
    BY <1>5 DEF ClaimFails
  <2>2. b \in SUBSET Claimable(t)
    BY Zenon DEF Batches
  <2> QED BY <1>5, <1>t, <2>1, <2>2, ClaimKeepsFeed DEF ClaimFails
<1>6. ASSUME NEW w \in Worker, Crash(w) PROVE FeedInv'
  <2>1. \A x \in Worker, e \in Event : task'[x][e] = task[x][e] \/ task'[x][e] = NoTask
    BY <1>6, <1>t, Zenon DEF Crash, TypeOK
  <2>2. \A e \in Event : Opened(e)' => Opened(e)
    BY <1>6, <2>1 DEF Crash, Opened, Held
  <2>3. AnswersHonest'
    BY <1>6, <2>1 DEF Crash, FeedInv, AnswersHonest, NoTask
  <2> QED BY <1>6, <1>t, <2>2, <2>3, TaskStepKeepsFeed DEF Crash, storeVars
<1>7. ASSUME NEW w \in Worker, NEW e \in Event, PublishSucceeds(w, e) PROVE FeedInv'
  <2>1. \A x \in Worker, y \in Event : task'[x][y] = task[x][y] \/ (x = w /\ y = e)
    BY <1>7, <1>t DEF PublishSucceeds, TypeOK
  <2>2. \A x \in Event : Opened(x)' => Opened(x)
    BY <1>7, <2>1 DEF PublishSucceeds, Opened, Held
  <2>3. AnswersHonest'
    BY <1>7, <2>1 DEF PublishSucceeds, FeedInv, AnswersHonest
  <2> QED BY <1>7, <1>t, <2>2, <2>3, TaskStepKeepsFeed DEF PublishSucceeds, storeVars
<1>8. ASSUME NEW w \in Worker, NEW e \in Event, NEW class \in {"retryable", "permanent"},
             PublishFails(w, e, class)
      PROVE  FeedInv'
  <2>1. \A x \in Worker, y \in Event : task'[x][y] = task[x][y] \/ (x = w /\ y = e)
    BY <1>8, <1>t DEF PublishFails, TypeOK
  <2>2. task'[w][e].answer = class
    BY <1>8, <1>t DEF PublishFails, TypeOK, TaskType
  <2>3. \A x \in Event : Opened(x)' => Opened(x)
    BY <1>8, <2>1 DEF PublishFails, Opened, Held
  <2>4. AnswersHonest'
    BY <1>8, <2>1, <2>2 DEF PublishFails, FeedInv, AnswersHonest
  <2> QED BY <1>8, <1>t, <2>3, <2>4, TaskStepKeepsFeed DEF PublishFails, storeVars
<1>9. ASSUME NEW w \in Worker, NEW e \in Event, TaskDone(w, e), UNCHANGED <<inflight, delivered>>
      PROVE  AnswersHonest' /\ \A x \in Event : Opened(x)' => Opened(x)
  <2>1. \A x \in Worker, y \in Event : task'[x][y] = task[x][y] \/ task'[x][y] = NoTask
    BY <1>9, <1>t DEF TaskDone, TypeOK
  <2> QED BY <1>9, <2>1 DEF FeedInv, AnswersHonest, NoTask, Opened, Held
<1>10. ASSUME NEW w \in Worker, NEW e \in Event, MarkPublished(w, e) PROVE FeedInv'
  <2>1. AnswersHonest' /\ \A x \in Event : Opened(x)' => Opened(x)
    BY <1>9, <1>10, Zenon DEF MarkPublished
  <2>2. CASE row' = row
    BY <1>10, <1>t, <2>1, <2>2, TaskStepKeepsFeed DEF MarkPublished
  <2>3. CASE row' # row
    <3>1. row' = [row EXCEPT ![e] = PublishedRow(row[e])] /\ row[e].state = "pending"
      BY <1>10, <2>3, Zenon DEF MarkPublished, Fenced
    <3>2. e \in delivered
      BY <1>10 DEF MarkPublished, FeedInv, AnswersHonest
    <3>3. /\ PublishedRow(row[e]).seq = row[e].seq /\ ~PublishedRow(row[e]).live
          /\ PublishedRow(row[e]).state = "published"
      BY <1>r, PublishedFields
    <3>4. ~Settled(e)
      BY <3>1, Zenon DEF Settled
    <3> QED BY Zenon, <1>10, <1>t, <2>1, <3>1, <3>2, <3>3, <3>4, RowStepKeepsFeed DEF MarkPublished
  <2> QED BY <2>2, <2>3, Zenon
<1>11. ASSUME NEW w \in Worker, NEW e \in Event, MarkFailed(w, e) PROVE FeedInv'
  <2>1. AnswersHonest' /\ \A x \in Event : Opened(x)' => Opened(x)
    BY <1>9, <1>11, Zenon DEF MarkFailed
  <2>2. CASE row' = row
    BY <1>11, <1>t, <2>1, <2>2, TaskStepKeepsFeed DEF MarkFailed
  <2>3. CASE row' # row
    <3>1. PICK class \in {"retryable", "permanent"} : row' = [row EXCEPT ![e] = FailedRow(row[e], class)]
      BY Zenon, <1>11, <2>3 DEF MarkFailed
    <3>2. row[e].state = "pending"
      BY <1>11, <2>3, Zenon DEF MarkFailed, Fenced
    <3>3. /\ FailedRow(row[e], class).seq = row[e].seq /\ ~FailedRow(row[e], class).live
          /\ FailedRow(row[e], class).state \in {"pending", "dead"}
      BY <1>r, <3>2, FailedFields
    <3>4. ~Settled(e)
      BY <3>2, Zenon DEF Settled
    <3> QED BY Zenon, <1>11, <1>t, <2>1, <3>1, <3>2, <3>3, <3>4, RowStepKeepsFeed DEF MarkFailed
  <2> QED BY <2>2, <2>3
<1>12. ASSUME NEW w \in Worker, NEW e \in Event, ReportFails(w, e) PROVE FeedInv'
  <2>1. AnswersHonest' /\ \A x \in Event : Opened(x)' => Opened(x)
    BY <1>9, <1>12 DEF ReportFails
  <2> QED BY <1>12, <1>t, <2>1, TaskStepKeepsFeed, Zenon DEF ReportFails, storeVars
<1>13. ASSUME NEW e \in Event, LateArrival(e) PROVE FeedInv'
  <2>1. AnswersHonest' /\ \A x \in Event : Opened(x)' => Opened(x)
    BY <1>13 DEF LateArrival, workerVars, FeedInv, AnswersHonest, Opened, Held
  <2> QED BY <1>13, <1>t, <2>1, TaskStepKeepsFeed, Zenon DEF LateArrival, storeVars
<1>14. ASSUME UNCHANGED <<task, inflight, delivered>>
       PROVE  AnswersHonest' /\ \A x \in Event : Opened(x)' => Opened(x)
  BY <1>14 DEF FeedInv, AnswersHonest, Opened, Held
<1>15. ASSUME NEW e \in Event, LeaseExpires(e) \/ LeaseOutrun(e) PROVE FeedInv'
  <2> DEFINE r == [row[e] EXCEPT !.live = FALSE]
  <2>1. row' = [row EXCEPT ![e] = r] /\ UNCHANGED <<last, discards, task, inflight, delivered>>
    BY <1>15 DEF LeaseExpires, LeaseOutrun, workerVars
  <2>2. row[e].state = "pending"
    BY <1>15 DEF LeaseExpires, LeaseOutrun, FeedInv, LiveIsPending
  <2>3. r.seq = row[e].seq /\ r.state = row[e].state /\ ~r.live
    BY <1>r DEF RowType
  <2>4. ~Settled(e)
    BY <2>2 DEF Settled
  <2> HIDE DEF r
  <2> QED BY Zenon, <1>t, <1>14, <2>1, <2>2, <2>3, <2>4, RowStepKeepsFeed
<1>16. ASSUME NEW e \in Event, RetryDelayElapses(e) PROVE FeedInv'
  <2> DEFINE r == [row[e] EXCEPT !.avail = TRUE]
  <2>1. row' = [row EXCEPT ![e] = r] /\ UNCHANGED <<last, discards, task, inflight, delivered>>
    BY <1>16 DEF RetryDelayElapses, workerVars
  <2>2. row[e].state = "pending" /\ ~Settled(e)
    BY <1>16 DEF RetryDelayElapses, Settled
  <2>3. r.seq = row[e].seq /\ r.state = row[e].state
    BY <1>r DEF RowType
  <2> HIDE DEF r
  <2> QED BY Zenon, <1>t, <1>14, <2>1, <2>2, <2>3, RowStepKeepsFeed
<1>17. ASSUME NEW e \in Event, ReplayDeadLetter(e) PROVE FeedInv'
  <2>1. /\ row' = [row EXCEPT ![e] = ReplayedRow(row[e])]
        /\ UNCHANGED <<last, discards, task, inflight, delivered>>
    BY <1>17 DEF ReplayDeadLetter, workerVars
  <2>2. row[e].state = "dead" /\ ~Settled(e)
    BY <1>17 DEF ReplayDeadLetter, DeadLetter, Settled
  <2>3. ReplayedRow(row[e]).seq = row[e].seq /\ ReplayedRow(row[e]).state = "pending"
    BY <1>r, ReplayedFields
  <2> QED BY Zenon, <1>t, <1>14, <2>1, <2>2, <2>3, RowStepKeepsFeed
<1>18. ASSUME NEW e \in Event, DiscardDeadLetter(e) PROVE FeedInv'
  <2> DEFINE r == [row[e] EXCEPT !.state = "discarded"]
  <2>1. /\ row' = [row EXCEPT ![e] = r] /\ UNCHANGED <<last, task, inflight, delivered>>
        /\ discards' = discards \cup {e}
    BY <1>18 DEF DiscardDeadLetter, workerVars
  <2>2. row[e].state = "dead" /\ ~Settled(e)
    BY <1>18 DEF DiscardDeadLetter, DeadLetter, Settled
  <2>3. r.seq = row[e].seq /\ r.state = "discarded" /\ r.live = row[e].live
    BY <1>r DEF RowType
  <2>4. ~row[e].live
    BY <2>2 DEF FeedInv, LiveIsPending
  <2> HIDE DEF r
  <2> QED BY Zenon, <1>t, <1>14, <2>1, <2>2, <2>3, <2>4, RowStepKeepsFeed
<1>19. ASSUME NEW b \in SUBSET Event, PurgePublished(b) PROVE FeedInv'
  <2>1. UNCHANGED <<last, discards, task, inflight, delivered>>
    BY <1>19 DEF PurgePublished, workerVars
  <2>2. \A x \in Event : /\ row'[x].seq = row[x].seq /\ row'[x].live = row[x].live
                         /\ x \notin b => row'[x].state = row[x].state
                         /\ x \in b => /\ row'[x].state = "purged"
                                       /\ row[x].state \in {"published", "discarded"}
    BY <1>19, <1>r, Zenon DEF PurgePublished, RowType
  <2>3. Numbered' /\ SettledHonestly'
    BY <2>1, <2>2 DEF FeedInv, Numbered, SettledHonestly
  <2>4. LiveIsPending'
    BY <2>2 DEF FeedInv, LiveIsPending
  <2>5. SeqsKept /\ \A x \in Event : Settled(x) => Settled(x)'
    BY <2>2 DEF SeqsKept, Settled
  <2>6. OpenedInOrder'
    BY <1>t, <1>14, <2>1, <2>5, OrderKept, Zenon
  <2> QED BY <1>t, <1>14, <2>1, <2>3, <2>4, <2>6 DEF FeedInv
<1>20. CASE UNCHANGED vars
  BY <1>20, <1>14, <1>t, TaskStepKeepsFeed DEF vars
<1> QED
  BY <1>e, <1>1, <1>4, <1>5, <1>6, <1>7, <1>8, <1>10, <1>11, <1>12, <1>13, <1>15, <1>16, <1>17,
     <1>18, <1>19, <1>20
  DEF Next, Cycle, Deliver, Trouble, Operator, Clock

\* Types and settled predecessors hold in every reachable state.
LEMMA FeedInvariant == Spec => []FeedInv
<1>1. Init => FeedInv
  <2> SUFFICES ASSUME Init PROVE FeedInv
    BY Zenon
  <2>1. TypeOK
    BY ConstantsAssumption
    DEF Init, TypeOK, RowType, AbsentRow, EventState, TaskType, Answer, NoTask
  <2>2. \A e \in Event : last[StreamOf[e]] = 0
    BY ConstantsAssumption, Zenon DEF Init
  <2>3. Numbered /\ LiveIsPending /\ SettledHonestly
    BY <2>2 DEF Init, AbsentRow, Numbered, LiveIsPending, SettledHonestly
  <2>4. AnswersHonest /\ OpenedInOrder
    BY DEF Init, NoTask, AnswersHonest, OpenedInOrder, Opened, Held
  <2> QED BY <2>1, <2>3, <2>4 DEF FeedInv
<1> QED BY <1>1, FeedPreserved, PTL DEF Spec

\* Delivery is at least once: a row is marked published, and a row is purged, only
\* after the receiver took the event or an operator discarded it.
THEOREM AtLeastOnce == Spec => []PublishedWasDelivered
<1>1. FeedInv => PublishedWasDelivered
  BY Zenon DEF FeedInv, SettledHonestly, PublishedWasDelivered
<1> QED BY <1>1, FeedInvariant, PTL

\* Every step of the outbox is a step of the ordered feed or changes nothing of it.
LEMMA StepIsFeedStep == FeedInv /\ [Next]_vars => [Feed!FeedNext]_Feed!feedVars
<1> SUFFICES ASSUME FeedInv, [Next]_vars PROVE [Feed!FeedNext]_Feed!feedVars
  BY Zenon
<1> DEFINE place == [e \in Event |-> row[e].seq]
<1>t. TypeOK /\ TypeOK'
  BY TypePreserved DEF FeedInv
<1>r. \A e \in Event : row[e] \in RowType /\ row[e].seq \in Nat
  BY <1>t DEF TypeOK, RowType
<1>s. ASSUME UNCHANGED <<last, delivered, discards>>,
             \A e \in Event : row'[e].seq = row[e].seq
      PROVE  UNCHANGED Feed!feedVars
  <2>1. place' = place
    BY <1>s
  <2> QED BY <1>s, <2>1 DEF Feed!feedVars
<1>c. ASSUME NEW e \in Event, Opened(e), delivered' = delivered \cup {e},
             UNCHANGED <<row, last, discards>>
      PROVE  Feed!FeedNext
  <2>1. row[e].seq > 0
    BY <1>c DEF FeedInv, OpenedInOrder
  <2>2. ASSUME NEW p \in Event, StreamOf[p] = StreamOf[e], 0 < row[p].seq, row[p].seq < row[e].seq
        PROVE  p \in delivered \cup discards
    <3>1. Settled(p)
      BY <1>c, <2>2 DEF FeedInv, OpenedInOrder
    <3> QED BY <3>1, Zenon DEF Settled, FeedInv, SettledHonestly
  <2>3. e \in Feed!Committed
    BY <2>1 DEF Feed!Committed
  <2>4. Feed!Before(e) \subseteq delivered \cup discards
    BY <1>r, <2>2 DEF Feed!Before, Feed!Committed
  <2>5. Feed!See(e)
    BY <1>c, <2>3, <2>4 DEF Feed!See
  <2> QED BY <2>5 DEF Feed!FeedNext
<1>e. ASSUME NEW e \in Event, Enqueue(e) PROVE Feed!FeedNext
  <2>1. StreamOf[e] \in Stream /\ last[StreamOf[e]] + 1 \in Nat
    BY <1>t, ConstantsAssumption DEF TypeOK
  <2>2. /\ row[e].seq = 0 /\ row'[e] = QueuedRow(last[StreamOf[e]] + 1)
        /\ \A x \in Event : x # e => row'[x] = row[x]
    BY <1>e, <1>t, Zenon DEF Enqueue, FeedInv, Numbered, TypeOK
  <2>3. row'[e].seq = last[StreamOf[e]] + 1
    BY <1>r, <2>1, <2>2, QueuedFields
  <2>4. place' = [place EXCEPT ![e] = last[StreamOf[e]] + 1]
    BY Zenon, <2>2, <2>3
  <2>5. e \notin Feed!Committed
    BY <2>2 DEF Feed!Committed
  <2>6. Feed!Commit(e)
    BY <1>e, <2>4, <2>5, Zenon DEF Feed!Commit, Enqueue
  <2> QED BY <2>6, Zenon DEF Feed!FeedNext
<1>1. ASSUME NEW w \in Worker, StartCycle(w) \/ StopClaiming(w) \/ EndCycle(w) \/ Crash(w)
      PROVE  UNCHANGED Feed!feedVars
  BY <1>1, <1>s, Zenon DEF StartCycle, StopClaiming, EndCycle, Crash, storeVars
<1>2. ASSUME NEW w \in Worker, NEW b \in SUBSET Event, ClaimEvents(w, b), UNCHANGED delivered
      PROVE  UNCHANGED Feed!feedVars
  <2>1. \A e \in Event : row'[e].seq = row[e].seq
    BY <1>2, <1>r, ClaimFields, Zenon DEF ClaimEvents
  <2> QED BY <1>2, <1>s, <2>1, Zenon DEF ClaimEvents
<1>3. ASSUME NEW w \in Worker, NEW t \in Tenant, ClaimAndSpawn(w, t) \/ ClaimFails(w, t)
      PROVE  UNCHANGED Feed!feedVars
  <2>1. PICK b \in Batches(w, t) \cup {{}} : ClaimEvents(w, b)
    BY <1>3, Zenon DEF ClaimAndSpawn, ClaimFails
  <2>2. b \in SUBSET Event
    BY DEF Batches, Claimable
  <2> QED BY <1>2, <1>3, <2>1, <2>2, Zenon DEF ClaimAndSpawn, ClaimFails
<1>4. ASSUME NEW w \in Worker, NEW e \in Event, PublishSucceeds(w, e) PROVE Feed!FeedNext
  <2>1. Opened(e)
    BY <1>4 DEF PublishSucceeds, Opened
  <2> QED BY <1>4, <1>c, <2>1 DEF PublishSucceeds, storeVars
<1>5. ASSUME NEW e \in Event, LateArrival(e) PROVE Feed!FeedNext
  <2>1. Opened(e)
    BY <1>5 DEF LateArrival, Opened
  <2> QED BY <1>5, <1>c, <2>1 DEF LateArrival, storeVars
<1>6. ASSUME NEW w \in Worker, NEW e \in Event,
             \/ ReportFails(w, e)
             \/ \E class \in {"retryable", "permanent"} : PublishFails(w, e, class)
      PROVE  UNCHANGED Feed!feedVars
  BY <1>6, <1>s DEF ReportFails, PublishFails, storeVars
<1>7. ASSUME NEW w \in Worker, NEW e \in Event, MarkPublished(w, e) PROVE UNCHANGED Feed!feedVars
  <2>1. \A x \in Event : row'[x].seq = row[x].seq
    BY <1>7, <1>r, <1>t, PublishedFields DEF MarkPublished, TypeOK
  <2> QED BY Zenon, <1>7, <1>s, <2>1 DEF MarkPublished
<1>8. ASSUME NEW w \in Worker, NEW e \in Event, MarkFailed(w, e) PROVE UNCHANGED Feed!feedVars
  <2>1. \A x \in Event : row'[x].seq = row[x].seq
    BY <1>8, <1>r, <1>t, FailedFields DEF MarkFailed, TypeOK
  <2> QED BY Zenon, <1>8, <1>s, <2>1 DEF MarkFailed
<1>9. ASSUME NEW e \in Event, LeaseExpires(e) \/ LeaseOutrun(e) \/ RetryDelayElapses(e)
      PROVE  UNCHANGED Feed!feedVars
  <2>1. \A x \in Event : row'[x].seq = row[x].seq
    BY <1>9, <1>r, <1>t DEF LeaseExpires, LeaseOutrun, RetryDelayElapses, TypeOK, RowType
  <2> QED BY <1>9, <1>s, <2>1 DEF LeaseExpires, LeaseOutrun, RetryDelayElapses
<1>10. ASSUME NEW e \in Event, ReplayDeadLetter(e) PROVE UNCHANGED Feed!feedVars
  <2>1. \A x \in Event : row'[x].seq = row[x].seq
    BY <1>10, <1>r, <1>t, ReplayedFields DEF ReplayDeadLetter, TypeOK
  <2> QED BY <1>10, <1>s, <2>1, Zenon DEF ReplayDeadLetter
<1>11. ASSUME NEW e \in Event, DiscardDeadLetter(e) PROVE Feed!FeedNext
  <2>1. \A x \in Event : row'[x].seq = row[x].seq
    BY <1>11, <1>r, <1>t DEF DiscardDeadLetter, TypeOK, RowType
  <2>2. place' = place
    BY <2>1
  <2>3. row[e].seq > 0
    BY <1>11, <1>r DEF DiscardDeadLetter, DeadLetter, FeedInv, Numbered
  <2>4. e \in Feed!Committed
    BY <2>3 DEF Feed!Committed
  <2>5. Feed!GiveUp(e)
    BY <1>11, <2>2, <2>4 DEF Feed!GiveUp, DiscardDeadLetter
  <2> QED BY <2>5 DEF Feed!FeedNext
<1>12. ASSUME NEW b \in SUBSET Event, PurgePublished(b) PROVE UNCHANGED Feed!feedVars
  <2>1. \A x \in Event : row'[x].seq = row[x].seq
    BY <1>12, <1>r DEF PurgePublished, RowType
  <2> QED BY <1>12, <1>s, <2>1 DEF PurgePublished
<1>13. CASE UNCHANGED vars
  BY <1>13, <1>s DEF vars
<1> QED
  BY <1>e, <1>1, <1>3, <1>4, <1>5, <1>6, <1>7, <1>8, <1>9, <1>10, <1>11, <1>12, <1>13, Zenon
  DEF Next, Cycle, Deliver, Trouble, Operator, Clock

\* Delivery is in order: to a deduplicating receiver every behaviour of the outbox,
\* its workers and its operators is a behaviour of the ordered feed.
THEOREM OrderedDelivery == Spec => OrderedFeed
<1>1. Init => Feed!FeedInit
  BY DEF Init, Feed!FeedInit, AbsentRow
<1> QED BY <1>1, FeedInvariant, StepIsFeedStep, PTL DEF Spec, OrderedFeed, Feed!FeedSpec
=============================================================================
