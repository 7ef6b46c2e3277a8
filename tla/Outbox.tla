-------------------------------- MODULE Outbox -------------------------------
(***************************************************************************)
(* The transactional outbox: the outbox tables and their triggers          *)
(* (persistence-postgres/src/outbox.rs, migrations), the delivery worker   *)
(* (worker/src/runner.rs over apps/worker/src/store.rs), the operator's    *)
(* dead-letter commands (api/src/repo/integration_monitor.rs) and the      *)
(* receiver behind a publisher (apps/worker/src/publisher.rs).             *)
(*                                                                         *)
(* A database transaction is one atomic action.  A delivery task takes a   *)
(* step of its own for the publisher call and for the report of its        *)
(* outcome; crashes, lease expiry, other workers and operators interleave. *)
(* Timestamps compared with the database clock become flags: avail says    *)
(* available_at has passed, live says lease_expires_at has not.            *)
(***************************************************************************)
EXTENDS Naturals, FiniteSets

CONSTANTS
    Event,        \* event keys
    Stream,       \* ordering keys
    Tenant,       \* tenant identifiers, positive integers
    StreamOf,     \* ordering key of an event
    TenantOf,     \* tenant of an ordering key
    Worker,       \* worker processes
    NoWorker,     \* SQL NULL in claimed_by
    BatchSize,    \* WorkerConfig.batch_size
    MaxInFlight,  \* WorkerConfig.max_in_flight
    MaxAttempts,  \* WorkerConfig.max_attempts
    MaxReplays,   \* bound on operator replays of one event
    MaxFaults     \* bound on crashes, lost answers and early lease expiries

VARIABLES
    row,        \* outbox_events
    last,       \* outbox_aggregate_sequences.last_sequence
    journal,    \* outbox_delivery_attempts
    result,     \* outbox_delivery_attempt_results
    discards,   \* events with a row in outbox_dead_letter_discards
    cycle,      \* where each worker is in run_discovered_cycle
    todo,       \* tenants the cycle has still to visit
    task,       \* delivery tasks each worker has in flight
    inflight,   \* events whose abandoned request may still reach the receiver
    delivered,  \* events the receiver has seen
    faults      \* faults that have happened

storeVars == <<row, last, journal, result, discards>>
workerVars == <<cycle, todo, task>>
vars == <<row, last, journal, result, discards, cycle, todo, task, inflight, delivered, faults>>

-----------------------------------------------------------------------------
(* Tables *)

\* outbox_events up to its CHECK constraints: published, dead-lettered and
\* discarded exclude each other here because discarded rows stay dead-lettered.
EventState == {"absent", "pending", "published", "dead", "discarded", "purged"}

Outcome == {"published", "retry_scheduled", "permanent_failure", "retry_exhausted", "lease_lost"}

RowType == [state : EventState, seq : Nat, avail : BOOLEAN, by : Worker \cup {NoWorker},
            live : BOOLEAN, version : Nat, attempts : Nat, error : BOOLEAN, replays : Nat]

AttemptType == [event : Event, version : Nat, replay : Nat, number : Nat, by : Worker]

ResultType == [event : Event, version : Nat, outcome : Outcome]

\* What a delivery task knows: the claim it works for and the answer it got.
Answer == {"none", "ok", "retryable", "permanent"}

TaskType == [version : Nat, answer : Answer]

NoTask == [version |-> 0, answer |-> "none"]

ASSUME ConstantsAssumption ==
    /\ Tenant \subseteq Nat
    /\ StreamOf \in [Event -> Stream] /\ TenantOf \in [Stream -> Tenant]
    /\ NoWorker \notin Worker

\* A table has finitely many rows.
ASSUME EventAssumption == IsFiniteSet(Event)

\* WorkerConfig::validate
ASSUME LimitsAssumption ==
    /\ BatchSize \in Nat \ {0} /\ MaxInFlight \in Nat \ {0} /\ MaxAttempts \in Nat \ {0}
    /\ MaxReplays \in Nat /\ MaxFaults \in Nat

AbsentRow == [state |-> "absent", seq |-> 0, avail |-> FALSE, by |-> NoWorker, live |-> FALSE,
              version |-> 0, attempts |-> 0, error |-> FALSE, replays |-> 0]

\* The row enqueue inserts.
QueuedRow(n) == [AbsentRow EXCEPT !.state = "pending", !.avail = TRUE, !.seq = n]

Held(w) == {e \in Event : task[w][e] # NoTask}

-----------------------------------------------------------------------------
(* Producers *)

\* enqueue, inside the producer's transaction.  The advisory lock on the
\* ordering key makes the sequence contiguous in commit order; the permanent
\* key table refuses a second event under the same key, purged or not.
Enqueue(e) ==
    /\ row[e].state = "absent"
    /\ row' = [row EXCEPT ![e] = QueuedRow(last[StreamOf[e]] + 1)]
    /\ last' = [last EXCEPT ![StreamOf[e]] = @ + 1]
    /\ UNCHANGED <<journal, result, discards, workerVars, inflight, delivered, faults>>

-----------------------------------------------------------------------------
(* Claiming *)

\* Mutant: a dead-lettered event no longer holds its successors back.
PredecessorsOfLive(e) ==
    {p \in Event : /\ StreamOf[p] = StreamOf[e] /\ row[p].seq < row[e].seq
                   /\ row[p].state = "pending"}

\* Predecessors that are neither published nor discarded; a purged row is gone.
Predecessors(e) ==
    {p \in Event : /\ StreamOf[p] = StreamOf[e] /\ row[p].seq < row[e].seq
                   /\ row[p].state \in {"pending", "dead"}}

\* Mutant: only events that were never claimed qualify, expired leases do not.
ClaimableUnclaimed(t) ==
    {e \in Event : /\ row[e].state = "pending" /\ TenantOf[StreamOf[e]] = t
                   /\ row[e].avail /\ row[e].by = NoWorker
                   /\ Predecessors(e) = {}}

\* The candidates of claim_events.
Claimable(t) ==
    {e \in Event : /\ row[e].state = "pending" /\ TenantOf[StreamOf[e]] = t
                   /\ row[e].avail
                   /\ row[e].by = NoWorker \/ ~row[e].live
                   /\ Predecessors(e) = {}}

\* The UPDATE of claim_events on one row.
ClaimRow(r, w) == [r EXCEPT !.by = w, !.live = TRUE, !.version = @ + 1, !.attempts = @ + 1]

\* claim_events: lease the batch to w and journal one attempt per event.
ClaimEvents(w, batch) ==
    /\ row' = [e \in Event |-> IF e \in batch THEN ClaimRow(row[e], w) ELSE row[e]]
    /\ journal' = journal \cup
         {[event |-> e, version |-> row[e].version + 1, replay |-> row[e].replays,
           number |-> row[e].attempts + 1, by |-> w] : e \in batch}
    /\ UNCHANGED <<last, result, discards>>

-----------------------------------------------------------------------------
(* Worker cycle *)

\* The poll timer fires; delivery_tenants pages through the tenants by id.
StartCycle(w) ==
    /\ cycle[w] = "idle"
    /\ cycle' = [cycle EXCEPT ![w] = "claiming"]
    /\ todo' = [todo EXCEPT ![w] = Tenant]
    /\ UNCHANGED <<storeVars, task, inflight, delivered, faults>>

\* Mutant: every tenant gets a full batch.
ClaimLimitPerTenant(w) == IF BatchSize < MaxInFlight THEN BatchSize ELSE MaxInFlight

\* reserve_claim_slots: wait for one permit, then take what is free.
ClaimLimit(w) ==
    LET free == MaxInFlight - Cardinality(Held(w))
    IN  IF BatchSize < free THEN BatchSize ELSE free

\* Batches claim_events may return: at most the limit, and none only when
\* nothing qualifies (available_at order and skipped locks leave the choice open).
Batches(w, t) ==
    {b \in SUBSET Claimable(t) : /\ Cardinality(b) <= ClaimLimit(w)
                                 /\ b = {} => Claimable(t) = {}}

NextTenant(w, t) == t \in todo[w] /\ \A u \in todo[w] : t <= u

\* claim_and_spawn: claim a batch of the next tenant, one task per event.
ClaimAndSpawn(w, t) ==
    /\ cycle[w] = "claiming" /\ NextTenant(w, t) /\ ClaimLimit(w) > 0
    /\ \E batch \in Batches(w, t) :
         /\ ClaimEvents(w, batch)
         /\ task' = [task EXCEPT ![w] = [e \in Event |->
                       IF e \in batch THEN [version |-> row[e].version + 1, answer |-> "none"]
                       ELSE @[e]]]
    /\ todo' = [todo EXCEPT ![w] = @ \ {t}]
    /\ UNCHANGED <<cycle, inflight, delivered, faults>>

\* The claim fails, or commits and its answer is lost: the cycle goes on with
\* the next tenant and nobody works on the claimed batch.
ClaimFails(w, t) ==
    /\ cycle[w] = "claiming" /\ NextTenant(w, t) /\ ClaimLimit(w) > 0 /\ faults < MaxFaults
    /\ \E batch \in Batches(w, t) \cup {{}} : ClaimEvents(w, batch)
    /\ todo' = [todo EXCEPT ![w] = @ \ {t}]
    /\ faults' = faults + 1
    /\ UNCHANGED <<cycle, task, inflight, delivered>>

\* Every tenant is visited, or discovering the next page fails.
StopClaiming(w) ==
    /\ cycle[w] = "claiming"
    /\ \/ todo[w] = {} /\ UNCHANGED faults
       \/ todo[w] # {} /\ faults < MaxFaults /\ faults' = faults + 1
    /\ cycle' = [cycle EXCEPT ![w] = "draining"]
    /\ todo' = [todo EXCEPT ![w] = {}]
    /\ UNCHANGED <<storeVars, task, inflight, delivered>>

\* drain_tasks returns when the last task is joined.
EndCycle(w) ==
    /\ cycle[w] = "draining" /\ Held(w) = {}
    /\ cycle' = [cycle EXCEPT ![w] = "idle"]
    /\ UNCHANGED <<storeVars, todo, task, inflight, delivered, faults>>

\* The process dies; requests it had sent may still arrive.
Crash(w) ==
    /\ cycle[w] # "idle" /\ faults < MaxFaults
    /\ faults' = faults + 1
    /\ inflight' = inflight \cup ({e \in Held(w) : task[w][e].answer = "none"} \ delivered)
    /\ cycle' = [cycle EXCEPT ![w] = "idle"]
    /\ todo' = [todo EXCEPT ![w] = {}]
    /\ task' = [task EXCEPT ![w] = [e \in Event |-> NoTask]]
    /\ UNCHANGED <<storeVars, delivered>>

-----------------------------------------------------------------------------
(* Delivery tasks: process_event *)

\* The publisher returned Ok: the receiver has taken the event.
PublishSucceeds(w, e) ==
    /\ e \in Held(w) /\ task[w][e].answer = "none"
    /\ delivered' = delivered \cup {e}
    /\ inflight' = inflight \ {e}
    /\ task' = [task EXCEPT ![w][e].answer = "ok"]
    /\ UNCHANGED <<storeVars, cycle, todo, faults>>

\* The publisher returned an error, timed out or panicked.  After a retryable
\* failure the request may still arrive; a permanent one is the receiver's
\* refusal.  Arrivals of an event already seen change nothing.
PublishFails(w, e, class) ==
    /\ e \in Held(w) /\ task[w][e].answer = "none"
    /\ inflight' = IF class = "retryable" THEN inflight \cup ({e} \ delivered) ELSE inflight
    /\ task' = [task EXCEPT ![w][e].answer = class]
    /\ UNCHANGED <<storeVars, cycle, todo, delivered, faults>>

LateArrival(e) ==
    /\ e \in inflight
    /\ delivered' = delivered \cup {e}
    /\ inflight' = inflight \ {e}
    /\ UNCHANGED <<storeVars, workerVars, faults>>

\* Mutant: the fence forgets who claimed and when.
FencedByLeaseOnly(w, e, v) == row[e].state = "pending" /\ row[e].live

\* The WHERE clause of mark_published and mark_failed.
Fenced(w, e, v) ==
    row[e].state = "pending" /\ row[e].by = w /\ row[e].version = v /\ row[e].live

HasResult(e, v) == \E r \in result : r.event = e /\ r.version = v

\* The attempt is journalled and has no result yet.
Open(w, e, v) ==
    (\E a \in journal : a.event = e /\ a.version = v /\ a.by = w) /\ ~HasResult(e, v)

\* record_delivery_result: one result per journalled attempt, the first stays.
RecordDeliveryResult(w, e, v, outcome) ==
    result' = IF Open(w, e, v)
              THEN result \cup {[event |-> e, version |-> v, outcome |-> outcome]}
              ELSE result

Released(r) == [r EXCEPT !.by = NoWorker, !.live = FALSE]

PublishedRow(r) == [Released(r) EXCEPT !.state = "published", !.error = FALSE]

\* The task ends and its permit is returned.
TaskDone(w, e) == task' = [task EXCEPT ![w][e] = NoTask]

\* Mutant: the event is marked before it is published.
MarkPublishedEarly(w, e) ==
    LET v == task[w][e].version
    IN  /\ e \in Held(w) /\ task[w][e].answer \in {"none", "ok"}
        /\ row' = IF Fenced(w, e, v) /\ Open(w, e, v)
                  THEN [row EXCEPT ![e] = PublishedRow(@)] ELSE row
        /\ RecordDeliveryResult(w, e, v, IF Fenced(w, e, v) THEN "published" ELSE "lease_lost")
        /\ TaskDone(w, e)
        /\ UNCHANGED <<last, journal, discards, cycle, todo, inflight, delivered, faults>>

\* mark_published after an Ok.  Without the fence the row is left alone; with
\* the fence but no open attempt the transaction is rolled back.
MarkPublished(w, e) ==
    LET v == task[w][e].version
    IN  /\ e \in Held(w) /\ task[w][e].answer = "ok"
        /\ row' = IF Fenced(w, e, v) /\ Open(w, e, v)
                  THEN [row EXCEPT ![e] = PublishedRow(@)] ELSE row
        /\ RecordDeliveryResult(w, e, v, IF Fenced(w, e, v) THEN "published" ELSE "lease_lost")
        /\ TaskDone(w, e)
        /\ UNCHANGED <<last, journal, discards, cycle, todo, inflight, delivered, faults>>

\* Mutant: the attempt that reaches the limit is retried once more.
ExhaustsLate(r, class) == class = "permanent" \/ r.attempts > MaxAttempts

\* Does this failure dead-letter the row?
Exhausts(r, class) == class = "permanent" \/ r.attempts >= MaxAttempts

\* The UPDATE of mark_failed: dead-letter the row or schedule a retry.
FailedRow(r, class) ==
    IF Exhausts(r, class) THEN [Released(r) EXCEPT !.state = "dead", !.error = TRUE]
    ELSE [Released(r) EXCEPT !.avail = FALSE, !.error = TRUE]

FailureOutcome(r, class) ==
    IF class = "permanent" THEN "permanent_failure"
    ELSE IF Exhausts(r, class) THEN "retry_exhausted" ELSE "retry_scheduled"

\* mark_failed after an error, a timeout or a panic.
MarkFailed(w, e) ==
    LET v == task[w][e].version
        class == task[w][e].answer
    IN  /\ e \in Held(w) /\ class \in {"retryable", "permanent"}
        /\ row' = IF Fenced(w, e, v) /\ Open(w, e, v)
                  THEN [row EXCEPT ![e] = FailedRow(@, class)] ELSE row
        /\ RecordDeliveryResult(w, e, v,
             IF Fenced(w, e, v) THEN FailureOutcome(row[e], class) ELSE "lease_lost")
        /\ TaskDone(w, e)
        /\ UNCHANGED <<last, journal, discards, cycle, todo, inflight, delivered, faults>>

\* The report fails in the database: the task ends and the claim stays.
ReportFails(w, e) ==
    /\ e \in Held(w) /\ task[w][e].answer # "none" /\ faults < MaxFaults
    /\ faults' = faults + 1
    /\ TaskDone(w, e)
    /\ UNCHANGED <<storeVars, cycle, todo, inflight, delivered>>

-----------------------------------------------------------------------------
(* Database clock, operator and retention *)

\* The claim on e belongs to a task that is still running.
Worked(e) == \E w \in Worker : e \in Held(w) /\ row[e].by = w /\ task[w][e].version = row[e].version

\* lease_expires_at passes on a claim nobody works on any more.
LeaseExpires(e) ==
    /\ row[e].live /\ ~Worked(e)
    /\ row' = [row EXCEPT ![e].live = FALSE]
    /\ UNCHANGED <<last, journal, result, discards, workerVars, inflight, delivered, faults>>

\* The lease is longer than the publisher's timeout, so it outruns a working
\* task only when the process or the database stalls.
LeaseOutrun(e) ==
    /\ row[e].live /\ Worked(e) /\ faults < MaxFaults
    /\ faults' = faults + 1
    /\ row' = [row EXCEPT ![e].live = FALSE]
    /\ UNCHANGED <<last, journal, result, discards, workerVars, inflight, delivered>>

\* available_at passes.
RetryDelayElapses(e) ==
    /\ row[e].state = "pending" /\ ~row[e].avail
    /\ row' = [row EXCEPT ![e].avail = TRUE]
    /\ UNCHANGED <<last, journal, result, discards, workerVars, inflight, delivered, faults>>

\* lock_replay_target_tx and the insert triggers on the evidence tables.
DeadLetter(e) == /\ row[e].state = "dead" /\ row[e].by = NoWorker
                 /\ row[e].error /\ row[e].attempts > 0

\* The UPDATE of replay_dead_letter: a new generation with a fresh budget.
ReplayedRow(r) ==
    [r EXCEPT !.state = "pending", !.avail = TRUE, !.error = FALSE, !.attempts = 0,
              !.replays = @ + 1, !.by = NoWorker, !.live = FALSE]

\* replay_dead_letter: a new generation, available at once.
ReplayDeadLetter(e) ==
    /\ DeadLetter(e) /\ row[e].replays < MaxReplays
    /\ row' = [row EXCEPT ![e] = ReplayedRow(@)]
    /\ UNCHANGED <<last, journal, result, discards, workerVars, inflight, delivered, faults>>

\* discard_dead_letter, with its immutable evidence.
DiscardDeadLetter(e) ==
    /\ DeadLetter(e)
    /\ row' = [row EXCEPT ![e].state = "discarded"]
    /\ discards' = discards \cup {e}
    /\ UNCHANGED <<last, journal, result, workerVars, inflight, delivered, faults>>

\* purge_published: retention deletes settled rows; the deletion trigger
\* refuses any other.
PurgePublished(batch) ==
    /\ batch # {} /\ \A e \in batch : row[e].state \in {"published", "discarded"}
    /\ row' = [e \in Event |-> IF e \in batch THEN [row[e] EXCEPT !.state = "purged"]
                               ELSE row[e]]
    /\ UNCHANGED <<last, journal, result, discards, workerVars, inflight, delivered, faults>>

-----------------------------------------------------------------------------

Init ==
    /\ row = [e \in Event |-> AbsentRow]
    /\ last = [s \in Stream |-> 0]
    /\ journal = {} /\ result = {} /\ discards = {}
    /\ cycle = [w \in Worker |-> "idle"]
    /\ todo = [w \in Worker |-> {}]
    /\ task = [w \in Worker |-> [e \in Event |-> NoTask]]
    /\ inflight = {} /\ delivered = {} /\ faults = 0

\* The worker's own steps while it is up.
Cycle(w) ==
    \/ StartCycle(w) \/ StopClaiming(w) \/ EndCycle(w)
    \/ \E t \in Tenant : ClaimAndSpawn(w, t)

Deliver(w, e) ==
    \/ PublishSucceeds(w, e)
    \/ \E class \in {"retryable", "permanent"} : PublishFails(w, e, class)
    \/ MarkPublished(w, e) \/ MarkFailed(w, e)

Trouble(w) ==
    \/ Crash(w)
    \/ \E t \in Tenant : ClaimFails(w, t)
    \/ \E e \in Event : ReportFails(w, e)

Operator ==
    \/ \E e \in Event : ReplayDeadLetter(e) \/ DiscardDeadLetter(e)
    \/ \E batch \in SUBSET Event : PurgePublished(batch)

Clock(e) == LeaseExpires(e) \/ RetryDelayElapses(e)

Next ==
    \/ \E e \in Event : Enqueue(e) \/ LateArrival(e) \/ Clock(e) \/ LeaseOutrun(e)
    \/ \E w \in Worker : Cycle(w) \/ Trouble(w) \/ \E e \in Event : Deliver(w, e)
    \/ Operator

Spec == Init /\ [][Next]_vars

\* The process polls on a timer and awaits its tasks; a publisher call ends at
\* its timeout; the database clock advances.  Nothing makes an operator act, a
\* producer commit or an abandoned request arrive.
FairSpec ==
    /\ Spec
    /\ \A w \in Worker : WF_vars(Cycle(w)) /\ \A e \in Event : WF_vars(Deliver(w, e))
    /\ \A e \in Event : WF_vars(Clock(e))

-----------------------------------------------------------------------------
(* Properties *)

TypeOK ==
    /\ row \in [Event -> RowType] /\ last \in [Stream -> Nat]
    /\ journal \subseteq AttemptType /\ result \subseteq ResultType
    /\ discards \subseteq Event
    /\ cycle \in [Worker -> {"idle", "claiming", "draining"}]
    /\ todo \in [Worker -> SUBSET Tenant]
    /\ task \in [Worker -> [Event -> TaskType]]
    /\ inflight \subseteq Event /\ delivered \subseteq Event
    /\ faults \in Nat

\* At-least-once delivery: an event leaves the queue as published only after the
\* receiver took it, however crashes, lost leases and rival workers interleave,
\* and retention deletes no event that was neither delivered nor given up.
PublishedWasDelivered ==
    \A e \in Event : /\ row[e].state = "published" => e \in delivered
                     /\ row[e].state = "purged" => e \in delivered \cup discards

\* Ordered delivery: to a receiver that deduplicates, the outbox is a feed in
\* which an event is first seen only after every predecessor of its ordering key
\* was seen or discarded by an operator; late requests of crashed workers included.
Feed == INSTANCE EventFeed WITH place <- [e \in Event |-> row[e].seq], length <- last,
                                givenUp <- discards
OrderedFeed == Feed!FeedSpec

ResultsOf(e, outcomes) == {r \in result : r.event = e /\ r.outcome \in outcomes}

\* The append-only journal tells the truth about the row: a published event has
\* one published result, that of its last claim; a dead letter's last claim ended
\* in a failure that warrants it; and a live claim has no result yet, so that the
\* report of its holder is never rolled back by mark_published or mark_failed.
JournalAgrees ==
    \A e \in Event :
      /\ row[e].state = "published" =>
           {r.version : r \in ResultsOf(e, {"published"})} = {row[e].version}
      /\ row[e].state \in {"dead", "discarded"} =>
           \E r \in ResultsOf(e, {"permanent_failure", "retry_exhausted"}) :
             r.version = row[e].version
      /\ row[e].live => ~HasResult(e, row[e].version)

\* An event is tried at most max_attempts times in a generation; only a claim
\* whose outcome was never reported (a crash, a lost answer) adds one more.
AttemptsBounded == \A e \in Event : row[e].attempts <= MaxAttempts + faults

\* Every dead letter can be replayed or discarded: the conditions under which the
\* operator commands accept it hold from the moment it is dead-lettered.
DeadLettersCanBeSettled == \A e \in Event : row[e].state = "dead" => DeadLetter(e)

\* The semaphore bounds the deliveries of one process over all tenants.
InFlightBounded == \A w \in Worker : Cardinality(Held(w)) <= MaxInFlight

\* A live lease is exclusive: while it lasts the claim ends only by the report of
\* the very task that holds it, never by another worker, an operator or a stale task.
LeaseIsExclusive ==
    [][\A e \in Event : row[e].live =>
         \/ /\ row'[e].state = row[e].state /\ row'[e].by = row[e].by
            /\ row'[e].version = row[e].version
         \/ /\ task[row[e].by][e].version = row[e].version
            /\ task'[row[e].by][e] = NoTask]_vars

\* Nothing is forgotten: a pending event is eventually published or dead-lettered
\* unless a dead predecessor blocks its ordering key, as long as faults are finite.
EventuallySettled ==
    \A e \in Event : row[e].state = "pending" ~>
      \/ row[e].state # "pending"
      \/ \E p \in Predecessors(e) : row[p].state = "dead"
=============================================================================
