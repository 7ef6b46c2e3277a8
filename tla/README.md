# Wareboxes verification project

TLA+ models of the coordination protocols of Wareboxes, a multi-tenant warehouse
management system in Rust over PostgreSQL, with TLC runs on small instances and
TLAPS proofs for every size. The system is large (about 475,000 lines of Rust and
56,000 of SQL); the project starts with the parts where a mistake is hardest to
find by testing and grows outward along the plan below.

| Part | Specification | Abstract promise | TLC instances | Proofs |
|---|---|---|---|---|
| Facility edge agent | `EdgeAgent` | `EdgeContract` | `MCEdgeAgent`, `EdgeAgent_*.cfg` | `EdgeAgentProofs`, `EdgeContractProofs` |
| Edge agent and cloud, over a lossy link | `EdgeCloud` | | `MCEdgeCloud`, `edge_cloud_*.cfg` | `EdgeCloudProofs`, `EdgeCloudDeliveryProofs` |
| Transactional outbox and its worker | `Outbox` | `EventFeed` | `MCOutbox`, `Outbox_*.cfg` | `OutboxProofs`, `OutboxJournalProofs` |
| Loose-stock ledger | `StockLedger` | `StockBook` | `MCStock`, `Stock_*.cfg` | model-checked only |
| An order from release to departure | `Outbound` | `OrderPromise` | `MCOutbound`, `Outbound_order.cfg` | `OutboundProofs` |

`PROJECT.json` maps every definition to the lines it models and lists the runs,
the mutants that show each property can fail, the hazards, findings and theorems.

## 1. Inventory of the system

Processes: the API server (`apps/server`), the worker (`apps/worker`), the edge
agent at a facility (`apps/edge-agent`), the operations web application
(`apps/web-ops`) and the Android execution client (`apps/rf-android`). The server
and the worker share one PostgreSQL schema, which holds much of the logic in
triggers and deferred constraints (`migrations/postgres/0001_baseline.sql`).

What interacts with what:

- A business command (`crates/api/src/repo/*`) is one READ COMMITTED transaction: it
  locks rows in a documented order, looks up its idempotency key, checks, writes,
  appends outbox events and stores its result.
- The worker leases outbox events, publishes them and records every attempt; an
  operator replays or discards dead letters through the integration monitor.
- The edge agent keeps its own SQLite store. It pulls device commands from the
  cloud, drives device adapters, and reports back; an operator at the facility
  can take a device away from automation.
- Order work flows over the ledger: orders are reserved, allocated, picked, packed
  and shipped; inbound work ends in receipts, holds and putaway.

| Area | Where | Concurrency and failure that matter | State |
|---|---|---|---|
| Edge command store and engine | `apps/edge-agent/src/{store,engine,adapter}.rs` | crashes around a physical effect, leases, probes, quarantine | modelled, proved |
| Edge cloud synchronisation | `apps/edge-agent/src/cloud`, `repo/automation` | lost answers, expired deliveries, revised payloads under one key | modelled, proved |
| Outbox store, worker, dead letters | `persistence-postgres/src/outbox.rs`, `crates/worker`, `apps/worker` | rival workers, crashes, late requests, ordering | modelled, proved |
| Carrier manifest worker | `crates/worker/src/carrier.rs`, `apps/worker/src/carrier_gateway.rs` | ambiguous gateway answers, retries | planned (A) |
| Loose-stock ledger, holds, recalls, reservations, idempotency | `repo/inventory*.rs` | lock order, stale checks, retries, deferred constraints | modelled |
| Order release and cancellation, picking, packing, outbound checks, shipping | `repo/order_release.rs`, `order_cancellation.rs`, `picking*`, `packing*`, `outbound_qa*`, `shipping*` | release against cancellation, leases, nested shortages, reversal, reopening, partial departure | modelled, partly proved |
| Order intake and allocation, waves, clusters, outbound loads | `repo/orders.rs`, `order_allocation*`, `pick_wave*`, `picking/cluster`, `outbound_load*` | several orders over one stock | planned (B) |
| Warehouse tasks and orchestration | `repo/tasks*`, `repo/work_orchestration` | leases of work, reassignment | planned (B) |
| License plates, replenishment, slotting, counts | `repo/license_plates*`, `replenishment*`, `slotting*`, `audits.rs` | containment hierarchy, task against stock | planned (B) |
| Inbound | `repo/inbound_*.rs`, `purchase_order.rs`, `expected_receiving.rs` | partial receipts, inspection holds | planned (B) |
| Tenant cell moves, data cells, tenant life cycle | `repo/tenant_cell_moves`, `repo/data_cells` | staged copy, fencing, cut-over | planned (C) |
| Android command slot | `apps/rf-android/src/command_store*` | restart between send and answer | planned (C) |
| Integration inbox and order intake | `persistence-postgres/src/integration_inbox.rs`, `repo/integration_order_intake*` | duplicate partner messages | planned (C) |
| Runtime configuration, labor, billing, yard, cross-dock, returns | `repo/*` | effective dating; mostly records | late or not planned |
| Web application, routes, schemas, barcodes, scripts | `apps/web-ops`, `routes`, `crates/api-contract`, `crates/barcodes`, `deploy`, `scripts` | rendering, request mapping, pure data | not planned |

`PROJECT.json` gives the sources and the reason for each part.

## 2. Plan

Conventions: a module per component with its specification; an abstract module
where the component makes a promise that can be stated without its mechanism; one MC
module per component; proofs in modules of their own. A transaction is one action
when it takes all its locks before it reads, and a sequence of actions when its
lock order, or what it reads between two locks, is the question.

Done:

1. `EdgeAgent` implements `EdgeContract`.
2. `EdgeCloud` composes agents, in terms of the statuses of `EdgeContract`, with the
   cloud's automation control plane over a link that loses requests and answers.
3. `Outbox` implements `EventFeed`.
4. `StockLedger` implements `StockBook`.
5. `Outbound` implements `OrderPromise`.

Next, in this order:

- **A. More workers.** `CarrierWorker`: claims, gateway references, ambiguous answers;
  then the carrier manifest as a second way to `RecordManifest` in `Outbound`.
- **B. Several orders.** The allocation run and waves over the stock of several orders,
  and outbound loads, which depart with several shipments at once.
- **C. Fencing protocols.** `TenantCellMove` with the promise that at most one cell
  accepts writes; `CommandSlot` for the Android client, with `StockBook`'s at-most-once
  entry as the promise.
- **D. Proofs.** For `StockLedger`: exclusion of the lock table, then the inductive
  invariant "every lock step behind the program counter is held", from it
  `ChecksStillHold`, `KeepsBook`, `DeletedBatchIsEmpty` and `RecallIsTotal`. For
  `Outbound`: `SessionReconciles`. For `EdgeCloud`: `CloudShowsOutcome`.

Bounds: two actors of each kind unless the code's protocol involves three, two
objects that conflict, and budgets of one or two above the first boundary.

## 3. The edge agent

`EdgeAgent.tla` models the SQLite command store, the engine, the local operator and
the device controller. Every store transaction is one action. Between two of them a
runner holds a claim in memory (`pc`, `claim`), so crashes, operators, lease expiry
and a second runner come in between.

| State | Code |
|---|---|
| `mode`, `health` | `edge_devices.control_mode`, `health_state` |
| `cmd` | row of `edge_commands` with its active `edge_command_attempts` row |
| `adapter` | adapter registry of the running process |
| `pc`, `claim` | `Engine::process_claim` and its `ClaimedCommand` |
| `effect`, `reviews` | history: physical effects, operator retries |

Actions: `RegisterDevice`, `ChangeControlMode` (with `quarantine_device_commands`),
`ResolveManually`, `CancelCommand`, `RetryAfterReview`, `Submit`, `RefreshHeartbeat`,
`RecoverExpiredLeases`, `ClaimNext`, `RejectAdapter`, `HeartbeatAnswers`,
`HeartbeatFails`, `Execute`, `Recover`, `FinishClaim`, `LeaseMismatch`, and the
environment's `RetryDelayElapses`, `LeaseRunsOut`, `RunFails`, `Boot`.

Abstractions: comparisons of timestamps with now are the flags `due` and `expired`;
the `ORDER BY` of `claim_next` is left open, so any claimable command may be next;
`consecutive_health_failures` and all texts are dropped; runners of one store share an
adapter registry; an adapter call has returned before its outcome is committed.

`EdgeContract.tla` is the promise: a submission and each operator retry grant one
physical effect; success follows an effect; only an operator reopens a command.

| Run | Shows | Instance |
|---|---|---|
| `edge_runners` | `StoreInv`, `LeaseIsFenced` | 2 commands of one device, 2 runners, 1 attempt, 1 probe, no review |
| `edge_budgets` | `AtMostOncePhysical`, `FailedHadNoEffect`, `StrandedByResendOnly`, `ImplementsContract`, `SettlesUnlessProbesLost` | 1 command, every policy, 1 runner, 3 attempts, 2 probes, 2 reviews |

Two tokens suffice: a token is fresh among those in use, and one runner holds at most
one stale token; a single runner can claim only when it holds none, so `edge_budgets`
needs one. Two commands on one device are the smallest conflict that
`OneExecutingPerDevice` and the quarantine can meet; devices share nothing. `StoreInv`
is the inductive invariant of section 8: types and budgets, `LeaseMatchesAttempt`,
`OneExecutingPerDevice` and `NoWorkOnRestrictedDevice`. That success follows an effect and
that only an operator leaves a review are steps of the contract.
`FailedHadNoEffect` is stated of the policies that never resend unseen, and
`StrandedByResendOnly` names the two ways a command can wait with no attempt left; why
both have to be stated so is in section 9.

What concerns physical effects (at most once, none behind a failure, the contract) is
stated for one runner, as `docs/operations/edge-agent.md` requires; `edge_runners` checks
what the lease fence guarantees with two.

Fairness: a run of the engine that holds a claim goes on (`WF` of a runner's steps while
it is not idle) and time passes (`WF` of the two clock actions). Nothing makes an
operator act, and nothing makes the engine run again: `sync.rs:177` calls it at the end
of a cycle, after requests to the cloud any of which may fail, so a cloud that cannot be
reached, or a report it refuses for good (section 9), keeps the engine idle. That cycles
keep reaching it is therefore a premise of `SettlesUnlessProbesLost` (`EngineRunsOn`).
The property has two exceptions, also in section 9: probes that are lost for ever, and
commands stranded with no attempt left.

## 4. The edge agent and the cloud

`EdgeCloud.tla` composes any number of agents, each with its store, with the cloud's
device registry, command queue and edge handlers. A cycle of `run_once` is a sequence of
steps, one per request or store transaction; a request is answered, carried out with its
answer lost, or lost, and the process may stop between any two steps. What the engine
does with a command is abstracted to the statuses of `EdgeContract`.

| State | Code |
|---|---|
| `cloud`, `device` | `automation_commands`; `automation_devices` with the latest heartbeat |
| `reply` | idempotency records of acknowledgements and reports |
| `edge`, `mode` | `edge_commands` with `edge_cloud_deliveries`; `edge_devices.control_mode` |
| `pc`, `queue` | where a cycle is, and what its current loop has read |
| `since` | what the cloud accepted after this cycle began |

Actions: the cloud operator's `RegisterDevice`, `ChangeControl`, `EnqueueCommand`,
`CancelPrint`, `ResolveCommand`; the local operator's `ChangeControlMode`,
`ResolveManually`, `CancelCommand`, `RetryAfterReview`; the cycle's `BeginCycle`,
`Acknowledge`, `Report`, `Refused`, `ReconcileControls`, `PublishHeartbeats`,
`PullCommands`, `SubmitDelivery`, `EngineRuns`, `LoopEnds`, `Abandon`; the clock's
`DeliveryLeaseExpires`, `HeartbeatGoesStale`, `TimeCatchesUp`.

Abstractions: of the content of a report only what `report_command` makes of it is kept,
as the `flaw` of the local row. It is `early` when it was written with a time before the
cloud's acceptance, and `unfit` when its time is more than a minute ahead of the cloud's,
or its text or result is one that the cloud rejects and the agent does not
(`validate_report_shape`, `validate_for`). A time too far ahead is caught up with
(`TimeCatchesUp`); a text or a result stays. `EdgeLeads` says that the agents' clocks lead
the cloud's, in which case no result is early, and `Fits` whether unfit content occurs.
Whether `record_heartbeat` takes a heartbeat depends on the clocks of the agents, so each
is taken or refused. A request carried out after the client has given up on it is not
modelled.

| Run | Shows | Instance |
|---|---|---|
| `edge_cloud_cycle` | `CloudShowsOutcome`, `OutcomePublished`, `CloudStopReachesEdge` | 1 agent, 1 command, 3 local changes before the last retry, revisions to 4, fit and unfit content |
| `edge_cloud_agents` | `OneAgentRuns`, `RunsOnlyAccepted`, `PublishedIsRecorded`, `BlockedForCause` | 2 agents, 2 commands of one device, a pull of 2 and a flush of 1, pulls from revisions below 3, fit and unfit content |
| `edge_cloud_report` | finding (section 9) | 1 agent, 1 command, fit content |

A delivery that expires once and is pulled by the other agent is the smallest conflict;
a second command of the device is what a review holds back, and what a flush of one
leaves out. `edge_cloud_agents` follows two agents over one command or one agent over
two, on a device the cloud keeps automatic, and a local row through one change after it
is entered (`Followed`); states a step beyond are checked but not followed. Each of the
five causes of `BlockedForCause` occurs in it as the only one, and so does a command that
is run although a flush left it out. That both agents run such a command is beyond what
is followed; that it is the only way both can is a theorem, as all four invariants are,
for every bound (section 8).

`CloudSyncConfig::validate` does not demand that a batch of acknowledgements
(`sync_batch_size`) be as large as a pull, so after a full flush the engine may find a
command that is not acknowledged. `RunsOnlyAccepted` and `OneAgentRuns` except exactly
that command (`LeftOut`): batches are smaller than pulls, and a full batch of commands
before it was acknowledged.

Fairness: the agent starts a cycle again and again and each cycle goes on (`WF` of
`Advance`). That the link holds is no fairness but the premise `LinkHolds` of the
liveness properties: from some point on no cycle ends but at its end or by a refusal.

## 5. The outbox

`Outbox.tla` models the tables with their triggers, the worker process and its
delivery tasks, the operator and the receiver. A database transaction is one action;
a delivery takes one step for the publisher call and one for the report.

| State | Code |
|---|---|
| `row`, `last` | `outbox_events`, `outbox_aggregate_sequences` |
| `journal`, `result`, `discards` | the append-only attempt, result and discard tables |
| `cycle`, `todo`, `task` | `Worker::run_discovered_cycle` and its delivery tasks |
| `inflight`, `delivered` | requests that outlive their worker; what the receiver saw |
| `faults` | crashes, lost answers and leases outrun so far |

Actions: `Enqueue`; `StartCycle`, `ClaimAndSpawn`, `ClaimFails`, `StopClaiming`,
`EndCycle`; publisher answers and reports of each task with `mark_published` and
`mark_failed`; `Crash`, late arrivals, the clock; `replay_dead_letter`,
`discard_dead_letter`, `purge_published`.

Abstractions: `available_at` and `lease_expires_at` are flags; the set of tenants is
fixed; a claimed batch is any admissible subset, whatever the `ORDER BY`; the expected
replay count and the idempotency key of the operator's commands are left out, being
checked before anything changes; `purge_published` is modelled although nothing in
production calls it.

`EventFeed.tla` is the promise to a deduplicating receiver: an event is first seen only
after every predecessor of its ordering key was seen, or discarded by an operator.

| Run | Shows | Instance |
|---|---|---|
| `outbox_rivals` | `PublishedWasDelivered`, `JournalAgrees`, `OrderedFeed` | 2 workers, 2 events of one key, 2 faults |
| `outbox_generations` | `AttemptsBounded` | 1 event, 2 attempts, 1 replay, 2 faults |
| `outbox_settles` | `InFlightBounded`, `EventuallySettled` | 1 worker with capacity 1, 2 tenants, 2 events of one key and 1 of another, 1 fault |

`LeaseIsExclusive`, `DeadLettersCanBeSettled` and the types are proved (section 8) and
need no run. Two faults let one worker lose its lease and its successor crash as well. Symmetry is
used only in runs without liveness, over workers and over events of one ordering key. In
`outbox_settles` the events of a key are named in the order they are committed
(`Numbered`), which leaves out renamings only: no fairness concerns a producer.

Fairness: the process polls on a timer and awaits its tasks, a publisher call ends at
its timeout, the database clock advances. Operators, producers and abandoned requests
get none, and faults are finite.

## 6. The stock ledger

`StockLedger.tla` models the commands on loose stock as concurrent READ COMMITTED
transactions. A command is a program: a sequence of row locks, advisory locks, the
replay lookup, the check on what it has read and the locks its writes take through
triggers. A session executes one statement per step, so commands interleave between
any two statements, and everything is visible at the commit.

| State | Code |
|---|---|
| `onHand`, `reserved`, `held`, `rows` | `inventory_balances`, with its projections |
| `posted` | sum of `inventory_entries` by position |
| `open` | active reservations, allocations, holds and recall cases |
| `cover` | `inventory_recall_case_holds` |
| `deleted`, `done` | deleted `item_batches`; `command_idempotency_records` |
| `sess`, `locks` | running transactions; the lock table |

Steps: `Begin` (a client sends a command, or sends it again), `Acquire` (a lock is
granted), `Select` (a statement over several rows finds them), `Replay`, `Live`,
`Check`, `Accepts` (`ensure_location_accepts_batch_tx`), `Seal` (the writes with the
conditions in their WHERE clauses, unique index and deferred constraints), `Commit`,
`BreakDeadlock`, `Crash`. The programs (`ReceiveSteps` to `BatchSteps`) carry the order
of each command's statements: `PutSteps` the destinations of a split move one after the
other, `Unfold` the rows a statement finds, in the order of their ids (`Among`), with
`FreeSteps` for the holds a released recall gives back; `Admissible` and the `...After` operators carry what it
checks and writes.

`Seal` and `Commit` are separate because a deferred constraint is evaluated before
the commit is visible: two transactions can both pass it. `ChecksStillHold` says that
the locks make up for that.

Abstractions: owners, units, plates and texts are left out; row ids follow the order
of commits; whoever locks an allocation has locked its reservation, so cancelling a
reservation does not list the allocation locks; the share locks on owner, facility and
user scope, and the outbox sequence locks, are not modelled, nor are order status,
location activity, storage and traceability policies. Triggers that repeat a check of
the command are not guards: what they assert is an invariant, and so shown never to
fire (`guard_inventory_balance_commitments` is the bound on promises in `StockBook`,
with `ProjectionsAgree`).

`StockBook.tla` is the promise: each command is entered once, as a whole or not at all;
entries that move stock leave promises alone; no position promises more than it has.

| Run | Shows | Commands |
|---|---|---|
| `stock_ledger` | `ProjectionsAgree`, `OneLotPerLocation`, `RecallIsTotal`, `DeletedBatchIsEmpty`, `DemandRespected`, `ChecksStillHold`, `KeepsBook` | four workloads, below |
| `stock_opposed` | `CirclesHaveCause`, `Settles` | pairs of opposing commands over existing stock |
| `stock_late_receipt` | finding (section 9) | recall against a receipt at an existing position |

The commands clients send are chosen in the initial state (`sent`, a member of
`Workload`). `stock_ledger` starts from each of four workloads, so that commands that
conflict meet and the others do not multiply the states:

- `Floor`: two receipts, a move, a split move, a status change, a hold and its release at
  one position;
- `Lots`: two lots of an item received and moved at the same shelves, with a batch
  deleted, restored and recalled;
- `Demand`: an order line of two units reserved at two facilities, allocated twice and
  cancelled both ways, against a hold;
- `Recalled`: a recall, its release and the refused release of one of its holds, against
  receipts, a move and a hold.

Every run has two sessions: each of the hazards is a conflict of two transactions, and
any session may run any sent command any number of times, so retries, races of a command
with itself and every order of commands are covered. Quantities of one and two make the
boundaries (exactly enough, one short) reachable. Sessions are interchangeable, which
the safety runs use as a symmetry.

Fairness: PostgreSQL grants a contended lock in the order of the requests, which is
strong fairness of a session's steps; its deadlock detector always runs (weak fairness
of `BreakDeadlock`). Clients and crashes get none.

`stock_opposed` takes commands two at a time: moves there and back, status changes there
and back, a move or a split move against a status change of the same rows and of other
rows of the shelf, and two lots that change places. Transactions do wait for one another
in a circle there, and `CirclesHaveCause` says where: never over the rows the commands
work on, which `lock_loose_balance_positions_tx` and `lock_status_balances` order by id,
but only with one of them waiting for the recall key or for the stock of another lot.
Section 9 lists the three circles. The detector ends each by aborting a transaction, so
`Settles` holds all the same.

## 7. An order from release to departure

`Outbound.tla` models one order over the stock allocated to it: release into pick work,
claims and leases, picks, shortages and their recovery, reversal, cancellation, packing,
outbound checks and shipping. Every command is one transaction. Most lock the order
first; a claim locks the task it takes, and verifying or completing a check locks its
session. One that carries a stale revision is refused. So a command is one action;
what interleaves are the commands of pickers, packers, checkers, supervisors and shippers
and the lapse of leases.

| State | Code |
|---|---|
| `order` | `orders.status` |
| `work` | `pick_tasks` with their content row and confirmation |
| `alloc` | the live `inventory_allocations` row of each pick: at its source, staged in a tote or packed |
| `bal` | `inventory_balances`: on hand, reserved and held |
| `bound` | totes with an unreleased `outbound_order_containers` row |
| `short` | `pick_shortages` |
| `sess`, `carton` | the latest `packing_sessions` row with its counters; its cartons |
| `qa`, `ship` | the latest check and shipment, with the content they recorded |
| `left` | history: units that departed |

Actions: `ReleaseOrder`, `CancelOrder`; `ClaimPick`, `LeaseExpires`, `ReleaseClaim`,
`ConfirmPick`, `ReportShortage`, `ReallocateShortage`, `AcceptShortShipment`,
`ReversePick`; `OpenSession`, `CreateCarton`, `PackAllocation`, `RemoveContent`,
`CloseCarton`, `VoidCarton`, `ReopenCarton`, `AbandonSession`; `StartQa`, `VerifyCarton`,
`CompleteQa`, `CancelQa`; `CreateShipment`, `RecordManifest`, `CancelShipment`,
`ConfirmDeparture`.

Abstractions: `sess.ahead` is the order's revision less the session's, the only
comparison of revisions that is more than optimistic locking; a command that records the
number and quantity of a carton's rows is modelled as recording the rows; a deferred
trigger is a guard where a command can run into it (`CanReverse`) and otherwise an
invariant (`RecoveryCounts`, `SessionReconciles`); a heartbeat moves the end of a current
lease and is no step; a recovery takes one allocation per source. Whether a check is
required is chosen at the start.

`OrderPromise.tla` is the promise: demand only shrinks, before anything left and never to
nothing; no more leaves than the demand; the order is shipped exactly when all of it has
left, and cancelled only while nothing has.

`outbound_order` checks all of it: `StockConserved`, `ReservedIsLive`,
`DemandAccounted`, `WorkHasStock`, `RecoveryCounts`, `SessionReconciles`, `QaStands`,
`ShipmentHolds`, `CancelLeavesNoTrace`, `OrderGoesOn` and the
refinement `KeepsPromise`. The instance has two pickers, two totes, two cartons, three
locations and two lines, of two units and of one: the two units can come up short in
part or in whole, the whole is recovered by two tasks from two locations, and each of
these can come up short again. Three spare picks are enough for that, and bound the
recoveries. Two cartons make a departure partial. Pickers, totes and cartons are
interchangeable, which the run uses as a symmetry. A carton that was voided is used
again, which stands for any number of them. Deadlock is not checked: a shipped or
cancelled order is at its end, and section 9 names states in which an order is stuck.

No fairness is assumed and no liveness stated: every action but the lapse of a lease is a
person's decision. That an order is not stuck is stated of states instead
(`OrderGoesOn`).

## 8. What is proved

For every number of commands, devices, runners, events, workers and every budget:

- `StoreCorrect` (`EdgeAgentProofs`): the inductive invariant `StoreInv`. `TypeOK`
  alone is not inductive because the steps of a runner need its claim to name an
  existing row (`WellFormed`); `LeaseMatchesAttempt` needs `OneExecutingPerDevice` for
  the claim and the quarantine for the operator's steps. From it
  `RestrictedDeviceIsQuiet`, `LeasesMatchAttempts`, `DevicesRunOne` and `BudgetsHold`.
- `AtMostOnce`, `SuccessIsReal` (`EdgeContractProofs`), assuming one runner per store:
  `EffectInv` counts the execution a runner has in hand that has not reached the
  controller (`Unspent`) together with the effects, and bounds the sum by the grants;
  without the execution in hand the bound is lost at the adapter call.
- `FailureIsHarmless` and `AgentImplementsContract` (`EdgeContractProofs`), from the same
  invariant and for one runner: a failed command that is not resent unseen had no effect
  since it was last granted, and every step of `EdgeAgent` is a step of `EdgeContract` or
  leaves its variables alone.
- `LeasesAreFenced`, `StrandedOnlyByResend` (`EdgeAgentProofs`), for any number of
  runners: `LeaseInv` adds that no two runners hold one token and that a live claim counts
  attempts as its row does. `StrandedByResendOnly` is a conjunct of it: the last attempt
  of a command is given back only by a resend or after a retry.
- `CloudInductive` (`EdgeCloudDeliveryProofs`, on the step lemmas of `EdgeCloudProofs`):
  every delivery revision is in the hands of one agent, in its queue or in its row; what
  a row holds as published the cloud has recorded; and where the engine runs, a row waits
  for its acknowledgement only if it was left out of a full batch (`Flushed`), which a row
  that ran remembers (`RanFlushed`). For that the invariant follows a flush from its
  snapshot on: what it has not reached yet is in the queue, and it began with the first
  rows there are (`AgentFlushed`, `FlushFinds`). From it `OneAgentRunsHolds`,
  `RunsOnlyAcceptedHolds` and `PublishedIsRecordedHolds`; and `BlockedForCauseHolds`, for
  which it also says that a report is recorded exactly of a command beyond acceptance, and
  that an unacknowledged delivery at the cloud's revision is still delivered.
- `TypeCorrect`, `AtLeastOnce`, `OrderedDelivery` (`OutboxProofs`): `FeedInv` adds to
  the types that every open delivery (a claim, an answer, an abandoned request) has only
  settled predecessors. `OrderedDelivery` is the refinement: every step of `Outbox` is a
  step of `EventFeed` or leaves its variables alone.
- `JournalTellsTheTruth`, `DeadLettersSettle`, `LeasesAreExclusive`
  (`OutboxJournalProofs`): `JournalInv` ties every claim version to its journal row and
  every result to an attempt, so that the report of a live claim always finds its
  attempt open.
- `AttemptLimitHolds` (`OutboxJournalProofs`): only a live claim that is being worked on
  may have used the last attempt the limit and the faults allow (`BudgetInv`).
- `PermitsHold` (`OutboxJournalProofs`): over all tenants and cycles a process has at most
  `MaxInFlight` deliveries, by the cardinalities of the sets of held events before and
  after a claim.
- `ShippingIsConsistent` (`OutboundProofs`): `ShipInv` ties the session's state to the
  order's and to its cartons, a check to the cartons it saw and a shipment to the cartons
  it recorded. `QaStands` and `ShipmentHolds` are not inductive alone: that nothing is
  repacked under a check or a shipment follows from the states of the order and the
  session. From it `ChecksStand` and `ShipmentsHold`.
- `WorkIsConsistent` (`OutboundProofs`): `WorkInv` says of every pick that its task fits
  its allocation (`TaskFits`), after completion too, which is what lets a reversal
  restore it. From it `TasksHaveStock` and `OneTaskInHand`.

The assumptions are the named `ASSUME`s on the constants of `EdgeAgent`, `EdgeCloud`,
`Outbox` and `Outbound` (types, finite and non-empty sets, positive limits),
which TLC evaluates in every run; and, where a theorem says so, that a
store has one runner.

Only model-checked:

- liveness (`SettlesUnlessProbesLost`, `OutcomePublished`, `CloudStopReachesEdge`,
  `EventuallySettled`, `Settles`), which is beyond the prover;
- `CloudShowsOutcome` of `EdgeCloud`, which needs an invariant of its own about what a row
  went through after its report;
- the sums of `Outbound` (`StockConserved`, `ReservedIsLive`, `DemandAccounted`,
  `RecoveryCounts`, `KeepsPromise`), which need induction over data, and its
  `SessionReconciles`, `CancelLeavesNoTrace` and `OrderGoesOn`;
- everything about `StockLedger`, whose `ProjectionsAgree` and `DemandRespected` are sums
  over sets, and whose other invariants rest on the lock table (plan D).

## 9. Findings and known disagreements

Two runs show the code at odds with its documents or tests:

- `stock_late_receipt`: a receipt at a position that has a balance row takes the recall
  key in the trigger of its upsert and waits for the row; a recall has the row and waits
  for the key. One of them is aborted, and nothing retries it.
- `edge_cloud_report`: a command pulled, acknowledged and executed in one cycle is
  reported with the time the cycle began, which is before its acceptance. The cloud
  refuses the report, in every cycle from then on, and each of these cycles ends there.

The quotations these contradict are in `PROJECT.json`. Other disagreements met while
modelling have no run; the property named with each is stated so as to leave it out:

- Three circles of waiting transactions, each ended by the detector with an error to a
  client, against `docs/architecture.md:78`, "Balance rows are locked in stable order"
  (`CirclesHaveCause`): the recall key against a row, between a receipt and any command
  that locked the row before it writes it, the run above being the case of a recall; the
  shelf key against the recall key, between a move to a shelf
  (`repo/inventory.rs:892`, then the source update) and a status change of other rows
  there (`repo/inventory_status_change.rs:241`, then its upsert); and row against row,
  between two lots that change places, each move locking the stock it finds at its
  destination (`repo/inventory.rs:215`).
- `retry_after_review` (`apps/edge-agent/src/store.rs:858`) keeps `attempt_count`, so an
  operator's retry of a command that used up its attempts is queued and never claimed,
  where `docs/operations/edge-agent.md:41-43` lets operators "explicitly retry it". A deduplicated command
  whose last attempt was ambiguous or expired waits in `retry_wait` in the same way
  (`StrandedByResendOnly`).
- A permanent heartbeat failure before a deduplicated resend
  (`apps/edge-agent/src/engine.rs:287`) closes as failed a command an earlier ambiguous
  send may have carried out; `adapter.rs:40-41` calls a permanent failure one without
  physical effect (`FailedHadNoEffect`).
- Probes that fail ambiguously, or whose lease expires, are repeated without consulting
  `max_recovery_probes` (`apps/edge-agent/src/store.rs:1235`)
  (`SettlesUnlessProbesLost`).
- An agent whose `sync_batch_size` is below its `pull_limit`, which
  `apps/edge-agent/src/cloud/sync.rs:67-76` accepts, acknowledges a batch of what it pulled
  and runs the engine over all of it. The cloud still offers the rest; when its delivery
  expires another agent pulls and runs it too (`RunsOnlyAccepted`, `OneAgentRuns`).
- The cloud checks a report for control characters, surrounding blanks and the fit of
  result and command (`repo/automation/edge.rs:308`, `353-357`, `536-551`), the agent only
  trims and bounds its texts (`apps/edge-agent/src/types.rs:273-279`, `store.rs:1869`). A
  report refused for that is refused in every cycle, which ends there, until an operator
  changes the row (`BlockedForCause`, `OutcomePublished`).
- An order in picking is stuck, with no stock free, when every pick came up short: the
  last shortage may not be accepted, since no demand would be left
  (`repo/picking/short_shipment.rs:139`), and an order with a shortage may not be
  cancelled (`repo/order_cancellation.rs:415-421`). It is stuck in the same way when a
  session was abandoned, a pick reversed and then found short: no shortage is accepted
  once a session exists (`repo/picking/short_shipment.rs:466-480`). `OrderGoesOn` names
  the two as `AllIsOwed` and `ShortAfterPacking`.
- After a packing session is abandoned, an order that had a shortage is stuck: a pick
  that came up short or recovers a shortage cannot be reversed
  (`repo/picking/reversal.rs:388` and the shortage trigger), a new session refuses its
  restored picks (`repo/packing/session.rs:355`), and cancellation refuses orders with
  shortages. `apps/web-ops/src/packing/abandonment.rs:88` says abandoning "enables pick
  reversal or a fresh execution attempt" (`OrderGoesOn`).
- After a cancelled shipment of an order with a passed check, no carton can be reopened:
  the check bars it (`repo/packing/reopening.rs:352`), and it cannot be cancelled, since a
  shipment row exists (`repo/outbound_qa/session.rs:288`). Only a new attempt with the
  same cartons is left. `apps/web-ops/src/shipping/cancellation.rs:97` says "packing
  recovery and a new shipment attempt become available" (`OrderGoesOn`).

## 10. Not modelled

- Of the modelled parts: full-pallet picks, substitutions, order holds, the release of
  discrepancy holds, changes of the check policy during an order, weights and documents;
  plated stock; permissions, tenants and facility scope, which every command checks before
  it does anything; requests the cloud carries out late.
- Several orders over one stock: allocation runs, waves, clusters and outbound loads.
  With one order there are over 50,000 states already, up to symmetry; two orders that compete need a
  coarser model of each, which `OrderPromise` is meant to become.
- The carrier and reconciliation workers, tenant cell moves and the Android command slot,
  which come next in the plan.
- Inbound work, putaway, replenishment, counts, tasks, yard, labor, billing, returns: each
  is a further set of transactions over rows of its own, and nothing in the prover or the
  checker stands against modelling them; they were left for later as conflicts are fewer.
- Rendering, routes, schemas, barcodes and scripts, which keep no state of their own that
  a protocol depends on.

## 11. Running it

In this directory, with the TLA+ tools and the community modules on the path:
`tlc -config Stock_ledger.cfg MCStock` (the module and configuration of each run are in
`PROJECT.json`), and `tlapm OutboxProofs.tla` for the proofs. A run takes from a few
seconds to about two minutes.
