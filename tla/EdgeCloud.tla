------------------------------ MODULE EdgeCloud ------------------------------
(***************************************************************************)
(* Edge agents synchronising with the cloud automation control plane: the  *)
(* cycle of apps/edge-agent/src/cloud/sync.rs with the delivery rows of    *)
(* store/cloud.rs, against the cloud's registry, command and edge handlers *)
(* (crates/api/src/repo/automation), over a link that loses requests and   *)
(* answers.                                                                *)
(*                                                                         *)
(* Each agent is a process with a store of its own; all agents use the     *)
(* facility's one service account.  A cycle is a sequence of steps, one    *)
(* per request or store transaction, so the local operator, the cloud      *)
(* operator or another agent may act between any two of them.  A request   *)
(* is answered, is carried out and its answer lost (heard = FALSE), or     *)
(* is lost: then, as on a crash of the process, the cycle is abandoned.    *)
(*                                                                         *)
(* What the engine does with a command is abstracted to the statuses of    *)
(* EdgeContract, which EdgeAgent implements: "open" stands for every state *)
(* automation may still work on.                                           *)
(*                                                                         *)
(* Time is abstracted to what report_command makes of a local row: it is   *)
(* early when its updated_at is older than the cloud's accepted_at, and    *)
(* unfit when it is more than a minute ahead of the cloud, or its text or  *)
(* result is not one the cloud takes.  The whole cycle runs on the time    *)
(* read when it began, an operator on the time of the operation.  The      *)
(* clocks of two agents are never compared.                                *)
(***************************************************************************)
EXTENDS Naturals, FiniteSets

CONSTANTS
    Agent,        \* edge agents, each with its own store
    NoAgent,      \* no heartbeat yet
    Device,       \* devices, registered with an adapter at every agent
    Command,      \* cloud command identifiers, in the order they are enqueued
    DeviceOf,     \* the device each command is for
    PullLimit,    \* CloudSyncConfig.pull_limit
    BatchSize,    \* CloudSyncConfig.sync_batch_size
    EdgeLeads,    \* the agents' clocks lead the cloud's, so that no result is early
    Fits,         \* whether the cloud takes the texts, results and times of the edge
    MaxRevision,  \* bound on the revision a delivery may reach
    MaxEdits      \* bound on the changes an operator's retry may extend

VARIABLES
    cloud,    \* automation_commands, per command
    device,   \* automation_devices with the latest automation_heartbeats row
    reply,    \* command_idempotency_records of acknowledgements and reports
    edge,     \* per agent and command: edge_commands with edge_cloud_deliveries
    mode,     \* per agent and device: edge_devices.control_mode
    pc,       \* per agent: where run_once is
    queue,    \* per agent: what the current loop has read and not yet worked off
    since     \* per agent: commands the cloud accepted after the cycle began

cloudVars == <<cloud, device, reply>>
agentVars == <<edge, mode>>
cycleVars == <<pc, queue, since>>
vars == <<cloud, device, reply, edge, mode, pc, queue, since>>

\* ControlMode: nothing here tells disabled and manual_fallback apart.
ControlMode == {"automatic", "restricted"}

CloudStatus == {"absent", "queued", "delivered", "accepted", "succeeded", "failed",
                "manual_review", "resolved_manually", "cancelled"}

EdgeState == {"absent", "open", "succeeded", "failed", "manual_review",
              "resolved_manually", "cancelled"}

\* The states pending_cloud_reports selects.
Reportable == EdgeState \ {"absent", "open"}

Phase == {"idle", "ack1", "report1", "registry", "heartbeat", "pull", "submit",
          "ack2", "execute", "report2"}

ReportStatus == {"succeeded", "failed", "manual_review"}

\* report_request and status_wire: the status a local state is reported as.
WireStatus(state) ==
    CASE state = "succeeded" -> "succeeded"
      [] state \in {"failed", "cancelled"} -> "failed"
      [] OTHER -> "manual_review"

\* What report_command finds wrong with the content of a report.
Flaw == {"none", "early", "unfit"}

ASSUME CommandAssumption == Command \subseteq Nat /\ IsFiniteSet(Command)
ASSUME DeviceOfAssumption == DeviceOf \in [Command -> Device]
ASSUME AgentAssumption == NoAgent \notin Agent
ASSUME LimitsAssumption == /\ PullLimit \in Nat \ {0}
                           /\ BatchSize \in Nat \ {0}
                           /\ MaxRevision \in Nat \ {0}
                           /\ MaxEdits \in Nat
                           /\ EdgeLeads \in BOOLEAN
                           /\ Fits \subseteq BOOLEAN

NoRow == [state |-> "absent", edits |-> 0, flaw |-> "none", ran |-> FALSE,
          token |-> 0, ack |-> 0, reported |-> "no"]

\* ORDER BY id LIMIT n over a set of records or identifiers.
First(S, n) == {c \in S : Cardinality({x \in S : x < c}) < n}

\* The item of a loop that comes next: deliveries go by cloud_command_id.
Next1(items) == CHOOSE i \in items : \A j \in items : i.cmd <= j.cmd

-----------------------------------------------------------------------------
(* Cloud control plane: devices and commands *)

UnderReview(d) == \E c \in Command : DeviceOf[c] = d /\ cloud[c].status = "manual_review"

RegisterDevice(d) ==
    /\ device[d].mode = "unregistered"
    /\ device' = [device EXCEPT ![d].mode = "restricted"]
    /\ UNCHANGED <<cloud, reply, agentVars, cycleVars>>

ChangeControl(d, target) ==
    /\ device[d].mode \notin {"unregistered", target}
    /\ target = "automatic" => device[d].fresh /\ ~UnderReview(d)
    /\ device' = [device EXCEPT ![d].mode = target]
    /\ UNCHANGED <<cloud, reply, agentVars, cycleVars>>

\* Automatic at the cloud and, by the latest heartbeat, at the edge.
Ready(d) == /\ device[d].mode = "automatic"
            /\ device[d].fresh
            /\ device[d].beatMode = "automatic"

EnqueueCommand(c) ==
    /\ cloud[c].status = "absent"
    /\ \A x \in Command : x < c => cloud[x].status # "absent"
    /\ Ready(DeviceOf[c])
    /\ ~UnderReview(DeviceOf[c])
    /\ cloud' = [cloud EXCEPT ![c].status = "queued", ![c].revision = 1]
    /\ UNCHANGED <<device, reply, agentVars, cycleVars>>

\* A print job is taken back before it was delivered.
CancelPrint(c) ==
    /\ cloud[c].status = "queued"
    /\ cloud' = [cloud EXCEPT ![c].status = "cancelled", ![c].revision = @ + 1]
    /\ UNCHANGED <<device, reply, agentVars, cycleVars>>

ResolveCommand(c) ==
    /\ cloud[c].status = "manual_review"
    /\ cloud' = [cloud EXCEPT ![c].status = "resolved_manually", ![c].revision = @ + 1]
    /\ UNCHANGED <<device, reply, agentVars, cycleVars>>

DeliveryLeaseExpires(c) ==
    /\ cloud[c].status = "delivered"
    /\ ~cloud[c].expired
    /\ cloud' = [cloud EXCEPT ![c].expired = TRUE]
    /\ UNCHANGED <<device, reply, agentVars, cycleVars>>

HeartbeatGoesStale(d) ==
    /\ device[d].fresh
    /\ device' = [device EXCEPT ![d].fresh = FALSE]
    /\ UNCHANGED <<cloud, reply, agentVars, cycleVars>>

-----------------------------------------------------------------------------
(* Local rows *)

Accepted(c) == cloud[c].status \notin {"absent", "queued", "delivered", "cancelled"}

\* What a report of the row would meet: its updated_at is the time the writer
\* carries, its message or result the one the adapter or the operator gave.  The
\* agent does not check them as validate_report_shape and validate_for do.
FlawOf(state, early, fit) ==
    IF state = "open" THEN "none"
    ELSE IF ~fit THEN "unfit"
    ELSE IF early /\ ~EdgeLeads THEN "early"
    ELSE "none"

\* The row after a transition.
Moved(row, state, early, fit) ==
    [row EXCEPT !.state = state, !.edits = @ + 1, !.flaw = FlawOf(state, early, fit)]

\* The cycle writes the time it began with.
EarlyInCycle(a, c) == ~Accepted(c) \/ c \in since[a]

\* change_control_mode to a restrictive mode: quarantine_device_commands moves
\* every command automation could still work on to manual review, with one reason
\* and on a time that is early for some commands.
Restricted(a, ds, early, fit) ==
    [c \in Command |-> IF DeviceOf[c] \in ds /\ edge[a][c].state = "open"
                       THEN Moved(edge[a][c], "manual_review", c \in early, fit)
                       ELSE edge[a][c]]

\* A time that was too far ahead of the cloud's no longer is.  A row whose text or
\* result is at fault may never take this step.
TimeCatchesUp(a, c) ==
    /\ edge[a][c].flaw = "unfit"
    /\ edge' = [edge EXCEPT ![a][c].flaw = "none"]
    /\ UNCHANGED <<cloudVars, mode, cycleVars>>

-----------------------------------------------------------------------------
(* The operator at the agent's store, on the time of the operation *)

EarlyNow(c) == ~Accepted(c)

ChangeControlMode(a, d, target, fit) ==
    /\ mode[a][d] # target
    /\ mode' = [mode EXCEPT ![a][d] = target]
    /\ edge' = IF target = "automatic" THEN edge
               ELSE [edge EXCEPT ![a] = Restricted(a, {d}, {c \in Command : EarlyNow(c)}, fit)]
    /\ UNCHANGED <<cloudVars, cycleVars>>

ResolveManually(a, c, fit) ==
    /\ edge[a][c].state = "manual_review"
    /\ edge' = [edge EXCEPT ![a][c] = Moved(@, "resolved_manually", EarlyNow(c), fit)]
    /\ UNCHANGED <<cloudVars, mode, cycleVars>>

CancelCommand(a, c, fit) ==
    /\ edge[a][c].state \in {"open", "manual_review"}
    /\ edge' = [edge EXCEPT ![a][c] = Moved(@, "cancelled", EarlyNow(c), fit)]
    /\ UNCHANGED <<cloudVars, mode, cycleVars>>

\* Mutant: a failed command can be retried as well.
RetryAfterFailure(a, c) ==
    /\ edge[a][c].state \in {"manual_review", "failed"}
    /\ mode[a][DeviceOf[c]] = "automatic"
    /\ edge[a][c].edits < MaxEdits
    /\ edge' = [edge EXCEPT ![a][c] = Moved(@, "open", FALSE, TRUE)]
    /\ UNCHANGED <<cloudVars, mode, cycleVars>>

RetryAfterReview(a, c) ==
    /\ edge[a][c].state = "manual_review"
    /\ mode[a][DeviceOf[c]] = "automatic"
    /\ edge[a][c].edits < MaxEdits
    /\ edge' = [edge EXCEPT ![a][c] = Moved(@, "open", FALSE, TRUE)]
    /\ UNCHANGED <<cloudVars, mode, cycleVars>>

-----------------------------------------------------------------------------
(* run_once: the two flushes *)

\* pending_cloud_acknowledgements: the snapshot a flush works through.
AckItems(a) ==
    LET due == {c \in Command : edge[a][c].state # "absent" /\ edge[a][c].ack = 0}
    IN  {[cmd |-> c, revision |-> edge[a][c].token, status |-> "accepted",
          edits |-> 0, flaw |-> "none"] : c \in First(due, BatchSize)}

\* Mutant: only what automation itself has settled is reported.
ReportItemsSettled(a) ==
    LET due == {c \in Command : /\ edge[a][c].ack # 0
                                /\ edge[a][c].reported = "no"
                                /\ edge[a][c].state \in {"succeeded", "failed"}}
    IN  {[cmd |-> c, revision |-> edge[a][c].ack, status |-> WireStatus(edge[a][c].state),
          edits |-> edge[a][c].edits, flaw |-> edge[a][c].flaw]
         : c \in First(due, BatchSize)}

\* pending_cloud_reports with report_request.
ReportItems(a) ==
    LET due == {c \in Command : /\ edge[a][c].ack # 0
                                /\ edge[a][c].reported = "no"
                                /\ edge[a][c].state \in Reportable}
    IN  {[cmd |-> c, revision |-> edge[a][c].ack, status |-> WireStatus(edge[a][c].state),
          edits |-> edge[a][c].edits, flaw |-> edge[a][c].flaw]
         : c \in First(due, BatchSize)}

Enters(a, phase, items) ==
    /\ pc' = [pc EXCEPT ![a] = phase]
    /\ queue' = [queue EXCEPT ![a] = items]

\* A flush that finds nothing goes straight on to the phase after it.
FlushReports(a, phase, after) ==
    IF ReportItems(a) = {} THEN Enters(a, after, {}) ELSE Enters(a, phase, ReportItems(a))
FlushAcknowledgements(a, phase, goesOn) ==
    IF AckItems(a) = {} THEN goesOn ELSE Enters(a, phase, AckItems(a))

\* Cycles in progress learn nothing, but the commands in cs were accepted after
\* they began.
CyclesGoOn(cs) ==
    since' = [x \in Agent |-> IF pc'[x] = "idle" THEN {} ELSE since[x] \cup cs]

\* The cycle returns, with or without an error, or its process dies.
CycleOver(a) == Enters(a, "idle", {}) /\ CyclesGoOn({})

BeginCycle(a) ==
    /\ pc[a] = "idle"
    /\ FlushAcknowledgements(a, "ack1", FlushReports(a, "report1", "registry"))
    /\ UNCHANGED <<cloudVars, agentVars, since>>

Abandon(a) ==
    /\ pc[a] # "idle"
    /\ CycleOver(a)
    /\ UNCHANGED <<cloudVars, agentVars>>

\* A request was carried out: its loop goes on to the next item, or the answer was
\* lost and the cycle ends with the transport's error.
Carried(a, i, heard) ==
    IF heard THEN Enters(a, pc[a], queue[a] \ {i}) ELSE Enters(a, "idle", {})

\* Mutant: any delivery of the command may be acknowledged.
AckCommitsAnyDelivery(i) ==
    /\ ~UnderReview(DeviceOf[i.cmd])
    /\ cloud[i.cmd].status = "delivered"

\* acknowledge_command commits for delivery i: it is still the delivery the
\* cloud knows, and nothing on the device awaits review.
AckCommits(i) ==
    /\ ~UnderReview(DeviceOf[i.cmd])
    /\ cloud[i.cmd].status = "delivered"
    /\ cloud[i.cmd].revision = i.revision

\* The key names the delivery revision, so only the same request replays.
AckReplays(i) == reply[i.cmd].ack = i.revision

\* Mutant: the delivery's revision is kept as the accepted one.
AcknowledgeKeepsDelivery(a, heard) ==
    LET i == Next1(queue[a])
    IN  /\ pc[a] \in {"ack1", "ack2"}
        /\ queue[a] # {}
        /\ AckReplays(i) \/ AckCommits(i)
        /\ cloud' = IF AckReplays(i) THEN cloud
                    ELSE [cloud EXCEPT ![i.cmd] = [status |-> "accepted", expired |-> FALSE,
                                                   revision |-> @.revision + 1]]
        /\ reply' = [reply EXCEPT ![i.cmd].ack = i.revision]
        /\ edge' = IF heard THEN [edge EXCEPT ![a][i.cmd].ack = i.revision] ELSE edge
        /\ Carried(a, i, heard)
        /\ CyclesGoOn(IF AckReplays(i) THEN {} ELSE {i.cmd})
        /\ UNCHANGED <<device, mode>>

\* acknowledge_command, with mark_cloud_acknowledged once the answer is heard: the
\* accepted revision follows the delivery's.
Acknowledge(a, heard) ==
    LET i == Next1(queue[a])
    IN  /\ pc[a] \in {"ack1", "ack2"}
        /\ queue[a] # {}
        /\ AckReplays(i) \/ AckCommits(i)
        /\ cloud' = IF AckReplays(i) THEN cloud
                    ELSE [cloud EXCEPT ![i.cmd] = [status |-> "accepted", expired |-> FALSE,
                                                   revision |-> @.revision + 1]]
        /\ reply' = [reply EXCEPT ![i.cmd].ack = i.revision]
        /\ edge' = IF heard THEN [edge EXCEPT ![a][i.cmd].ack = i.revision + 1] ELSE edge
        /\ Carried(a, i, heard)
        /\ CyclesGoOn(IF AckReplays(i) THEN {} ELSE {i.cmd})
        /\ UNCHANGED <<device, mode>>

\* report_command commits: the command is at the revision the agent knows, and the
\* text, the result and the time of the report are taken.
ReportCommits(i) ==
    /\ cloud[i.cmd].status = "accepted"
    /\ cloud[i.cmd].revision = i.revision
    /\ i.flaw = "none"

\* The key names the accepted revision and the status; the rest of the request,
\* the time and message of the local row among it, is in the request hash.
ReportReplays(i) == reply[i.cmd].report = [status |-> i.status, edits |-> i.edits]

\* Another request was carried out under the key of this one.
ReportKeyTaken(i) == reply[i.cmd].report.status = i.status /\ ~ReportReplays(i)

\* report_command, with mark_cloud_reported once the answer is heard.
Report(a, heard) ==
    LET i == Next1(queue[a])
    IN  /\ pc[a] \in {"report1", "report2"}
        /\ queue[a] # {}
        /\ ReportReplays(i) \/ (~ReportKeyTaken(i) /\ ReportCommits(i))
        /\ cloud' = IF ReportReplays(i) THEN cloud
                    ELSE [cloud EXCEPT ![i.cmd].status = i.status,
                                       ![i.cmd].revision = @ + 1]
        /\ reply' = [reply EXCEPT ![i.cmd].report = [status |-> i.status, edits |-> i.edits]]
        /\ edge' = IF heard THEN [edge EXCEPT ![a][i.cmd].reported = i.status] ELSE edge
        /\ Carried(a, i, heard)
        /\ CyclesGoOn({})
        /\ UNCHANGED <<device, mode>>

AckRefused(i) == ~AckReplays(i) /\ ~AckCommits(i)
ReportRefused(i) == ~ReportReplays(i) /\ (ReportKeyTaken(i) \/ ~ReportCommits(i))

\* Mutant: a refused item is skipped and the loop goes on.
RefusedGoesOn(a) ==
    /\ queue[a] # {}
    /\ \/ pc[a] \in {"ack1", "ack2"} /\ AckRefused(Next1(queue[a]))
       \/ pc[a] \in {"report1", "report2"} /\ ReportRefused(Next1(queue[a]))
    /\ Enters(a, pc[a], queue[a] \ {Next1(queue[a])})
    /\ CyclesGoOn({})
    /\ UNCHANGED <<cloudVars, agentVars>>

\* The cloud answers with a conflict or a bad request: the error is recorded and
\* ends the cycle, whatever else is waiting.
Refused(a) ==
    /\ queue[a] # {}
    /\ \/ pc[a] \in {"ack1", "ack2"} /\ AckRefused(Next1(queue[a]))
       \/ pc[a] \in {"report1", "report2"} /\ ReportRefused(Next1(queue[a]))
    /\ CycleOver(a)
    /\ UNCHANGED <<cloudVars, agentVars>>

-----------------------------------------------------------------------------
(* run_once: registry, heartbeats, pull, submission, execution *)

\* Mutant: a device with work in hand is left alone.
ReconcileIdleControls(a, fit) ==
    LET stopped == {d \in Device : /\ device[d].mode = "restricted"
                                   /\ \A c \in Command : DeviceOf[c] = d => edge[a][c].state # "open"}
        early == {c \in Command : EarlyInCycle(a, c)}
    IN  /\ pc[a] = "registry"
        /\ mode' = [mode EXCEPT ![a] =
                      [d \in Device |-> IF d \in stopped THEN "restricted" ELSE mode[a][d]]]
        /\ edge' = [edge EXCEPT ![a] = Restricted(a, stopped, early, fit)]
        /\ Enters(a, "heartbeat", {d \in Device : device[d].mode # "unregistered"})
        /\ UNCHANGED <<cloudVars, since>>

\* assigned_devices and reconcile_restrictive_controls: a device the cloud
\* restricts is restricted here; nothing is ever resumed.
ReconcileControls(a, fit) ==
    LET stopped == {d \in Device : device[d].mode = "restricted"}
        early == {c \in Command : EarlyInCycle(a, c)}
    IN  /\ pc[a] = "registry"
        /\ mode' = [mode EXCEPT ![a] =
                      [d \in Device |-> IF d \in stopped THEN "restricted" ELSE mode[a][d]]]
        /\ edge' = [edge EXCEPT ![a] = Restricted(a, stopped, early, fit)]
        /\ Enters(a, "heartbeat", {d \in Device : device[d].mode # "unregistered"})
        /\ UNCHANGED <<cloudVars, since>>

\* record_heartbeat for an observation it takes: the agent is the device's latest
\* observer, and the device is fresh when its adapter works.
RecordHeartbeat(a, d, works) ==
    [device[d] EXCEPT !.beat = a, !.beatMode = mode[a][d], !.fresh = d \in works]

\* refresh_heartbeats and publish_heartbeats for the devices in published, all of
\* which the registry answer named.  record_heartbeat takes an observation that is
\* within its window and newer than the one it has; the times are those of the
\* agents' own clocks, so either answer is possible.  The cycle goes on only when
\* every device was published and heard.
PublishHeartbeats(a, published, works, heard) ==
    /\ pc[a] = "heartbeat"
    /\ published \subseteq queue[a]
    /\ device' = [d \in Device |->
                    IF d \in published THEN RecordHeartbeat(a, d, works) ELSE device[d]]
    /\ Enters(a, IF published = Device /\ heard THEN "pull" ELSE "idle", {})
    /\ CyclesGoOn({})
    /\ UNCHANGED <<cloud, reply, agentVars>>

Eligible(a) ==
    {c \in Command :
        /\ Ready(DeviceOf[c]) /\ device[DeviceOf[c]].beat = a
        /\ ~UnderReview(DeviceOf[c])
        /\ \/ cloud[c].status = "queued"
           \/ cloud[c].status = "delivered" /\ cloud[c].expired
        /\ cloud[c].revision < MaxRevision}

\* pull_commands: every pull has a fresh key, so none is ever replayed.
PullCommands(a, heard) ==
    LET taken == First(Eligible(a), PullLimit)
    IN  /\ pc[a] = "pull"
        /\ cloud' = [c \in Command |->
                       IF c \in taken
                       THEN [status |-> "delivered", expired |-> FALSE,
                             revision |-> cloud[c].revision + 1]
                       ELSE cloud[c]]
        /\ IF heard
           THEN Enters(a, "submit", {[cmd |-> c, revision |-> cloud'[c].revision,
                                      status |-> "delivered", edits |-> 0, flaw |-> "none"]
                                     : c \in taken})
           ELSE Enters(a, "idle", {})
        /\ CyclesGoOn({})
        /\ UNCHANGED <<device, reply, agentVars>>

\* upsert_cloud_delivery_tx rejects a new delivery of an acknowledged command.
DeliveryConflict(a, i) == edge[a][i.cmd].ack # 0 /\ edge[a][i.cmd].token # i.revision

\* submit_with_cloud: a new command is queued, or quarantined on a device that is
\* not automatic here; a known one only takes over the newer delivery.  A command
\* validate_submission rejects (no adapter, unsupported recovery policy) ends the
\* cycle here as Abandon does.
SubmitDelivery(a, fit) ==
    LET i == Next1(queue[a])
        c == i.cmd
        new == Moved([NoRow EXCEPT !.token = i.revision],
                     IF mode[a][DeviceOf[c]] = "automatic" THEN "open" ELSE "manual_review",
                     TRUE, fit)
    IN  /\ pc[a] = "submit"
        /\ queue[a] # {}
        /\ IF DeliveryConflict(a, i)
           THEN CycleOver(a) /\ UNCHANGED edge
           ELSE /\ edge' = [edge EXCEPT ![a][c] =
                              IF @.state = "absent" THEN new
                              ELSE IF @.ack = 0 THEN [@ EXCEPT !.token = i.revision]
                              ELSE @]
                /\ Enters(a, "submit", queue[a] \ {i})
                /\ UNCHANGED since
        /\ UNCHANGED <<cloudVars, mode>>

\* EdgeEngine::run_once for one command: it settles, stays open for a later cycle,
\* or is put to review, which forces the device into manual fallback.
EngineRuns(a, c, outcome, fit) ==
    /\ pc[a] = "execute"
    /\ edge[a][c].state = "open"
    /\ mode[a][DeviceOf[c]] = "automatic"
    /\ LET early == {x \in Command : EarlyInCycle(a, x)}
           rows == IF outcome = "manual_review" THEN Restricted(a, {DeviceOf[c]}, early, fit)
                   ELSE [edge[a] EXCEPT ![c] = IF outcome = "open" THEN @
                                               ELSE Moved(@, outcome, c \in early, fit)]
       IN  edge' = [edge EXCEPT ![a] = [rows EXCEPT ![c].ran = TRUE]]
    /\ mode' = IF outcome = "manual_review"
               THEN [mode EXCEPT ![a][DeviceOf[c]] = "restricted"] ELSE mode
    /\ UNCHANGED <<cloudVars, cycleVars>>

\* Mutant: execution starts before the new deliveries are acknowledged.
LoopEndsUnacknowledged(a) ==
    /\ queue[a] = {}
    /\ \/ pc[a] = "ack1" /\ FlushReports(a, "report1", "registry")
       \/ pc[a] = "report1" /\ Enters(a, "registry", {})
       \/ pc[a] = "submit" /\ Enters(a, "execute", {})
       \/ pc[a] = "ack2" /\ Enters(a, "execute", {})
       \/ pc[a] = "execute" /\ FlushReports(a, "report2", "idle")
       \/ pc[a] = "report2" /\ Enters(a, "idle", {})
    /\ CyclesGoOn({})
    /\ UNCHANGED <<cloudVars, agentVars>>

\* The loop of the current phase has nothing left, and the next phase begins with
\* the rows as they are then.
LoopEnds(a) ==
    /\ queue[a] = {}
    /\ \/ pc[a] = "ack1" /\ FlushReports(a, "report1", "registry")
       \/ pc[a] = "report1" /\ Enters(a, "registry", {})
       \/ pc[a] = "submit" /\ FlushAcknowledgements(a, "ack2", Enters(a, "execute", {}))
       \/ pc[a] = "ack2" /\ Enters(a, "execute", {})
       \/ pc[a] = "execute" /\ FlushReports(a, "report2", "idle")
       \/ pc[a] = "report2" /\ Enters(a, "idle", {})
    /\ CyclesGoOn({})
    /\ UNCHANGED <<cloudVars, agentVars>>

-----------------------------------------------------------------------------
Init ==
    /\ cloud = [c \in Command |-> [status |-> "absent", revision |-> 0, expired |-> FALSE]]
    /\ device = [d \in Device |-> [mode |-> "unregistered", beat |-> NoAgent,
                                   beatMode |-> "restricted", fresh |-> FALSE]]
    /\ reply = [c \in Command |-> [ack |-> 0, report |-> [status |-> "none", edits |-> 0]]]
    /\ edge = [a \in Agent |-> [c \in Command |-> NoRow]]
    /\ mode = [a \in Agent |-> [d \in Device |-> "restricted"]]
    /\ pc = [a \in Agent |-> "idle"]
    /\ queue = [a \in Agent |-> {}]
    /\ since = [a \in Agent |-> {}]

CloudOperator ==
    \/ \E d \in Device : RegisterDevice(d)
    \/ \E d \in Device, target \in ControlMode : ChangeControl(d, target)
    \/ \E c \in Command : EnqueueCommand(c) \/ CancelPrint(c) \/ ResolveCommand(c)

LocalOperator(a) ==
    \/ \E c \in Command : RetryAfterReview(a, c)
    \/ \E fit \in Fits :
         \/ \E d \in Device, target \in ControlMode : ChangeControlMode(a, d, target, fit)
         \/ \E c \in Command : ResolveManually(a, c, fit) \/ CancelCommand(a, c, fit)

Clock ==
    \/ \E c \in Command : DeliveryLeaseExpires(c)
    \/ \E d \in Device : HeartbeatGoesStale(d)
    \/ \E a \in Agent, c \in Command : TimeCatchesUp(a, c)

\* One step of CloudSync::run_once.
CycleStep(a) ==
    \/ BeginCycle(a)
    \/ \E heard \in BOOLEAN :
         \/ Acknowledge(a, heard)
         \/ Report(a, heard)
         \/ PullCommands(a, heard)
         \/ \E published \in SUBSET Device : \E works \in SUBSET published :
              PublishHeartbeats(a, published, works, heard)
    \/ Refused(a)
    \/ \E fit \in Fits :
         \/ ReconcileControls(a, fit)
         \/ SubmitDelivery(a, fit)
         \/ \E c \in Command, outcome \in {"open", "succeeded", "failed", "manual_review"} :
              EngineRuns(a, c, outcome, fit)
    \/ LoopEnds(a)
    \/ Abandon(a)

Next == CloudOperator \/ Clock \/ \E a \in Agent : LocalOperator(a) \/ CycleStep(a)

Spec == Init /\ [][Next]_vars

\* The steps by which a cycle gets on, or ends in an answer the cloud gave.
Advance(a) ==
    \/ BeginCycle(a)
    \/ Acknowledge(a, TRUE)
    \/ Report(a, TRUE)
    \/ Refused(a)
    \/ \E fit \in Fits : ReconcileControls(a, fit) \/ SubmitDelivery(a, fit)
    \/ \E published \in SUBSET Device : \E works \in SUBSET published :
         PublishHeartbeats(a, published, works, TRUE)
    \/ PullCommands(a, TRUE)
    \/ LoopEnds(a)

\* run_until_shutdown starts a cycle again and again, and each cycle runs on.
Fairness == \A a \in Agent : WF_vars(Advance(a))

FairSpec == Spec /\ Fairness

-----------------------------------------------------------------------------
(* Properties *)

\* Types of all state.
TypeOK ==
    /\ cloud \in [Command -> [status : CloudStatus, revision : Nat, expired : BOOLEAN]]
    /\ device \in [Device -> [mode : ControlMode \cup {"unregistered"},
                              beat : Agent \cup {NoAgent}, beatMode : ControlMode,
                              fresh : BOOLEAN]]
    /\ edge \in [Agent -> [Command -> [state : EdgeState, edits : Nat, flaw : Flaw,
                                       ran : BOOLEAN, token : Nat, ack : Nat,
                                       reported : ReportStatus \cup {"no"}]]]
    /\ reply \in [Command -> [ack : Nat, report : [status : ReportStatus \cup {"none"},
                                                   edits : Nat]]]
    /\ mode \in [Agent -> [Device -> ControlMode]]
    /\ pc \in [Agent -> Phase]

\* A full batch of the commands in S goes before c.  One pull holds that many only
\* where it is larger than a batch, which CloudSyncConfig::validate permits.
FullBatchBefore(S, c) ==
    /\ BatchSize < PullLimit
    /\ Cardinality({x \in S : x < c}) >= BatchSize

\* The commands agent a holds as acknowledged.
Acked(a) == {c \in Command : edge[a][c].ack # 0}

\* The acknowledgement of c was left out of a flush.
LeftOut(a, c) == FullBatchBefore(Acked(a), c)

\* No engine starts a command before the cloud has accepted its acknowledgement
\* (run_once flushes acknowledgements between submission and execution), unless the
\* command was left out of a full batch of acknowledgements.
RunsOnlyAccepted ==
    \A a \in Agent, c \in Command : edge[a][c].ran => reply[c].ack # 0 \/ LeftOut(a, c)

\* A command is carried out by the engine of one agent only, however often its
\* delivery expired, was pulled by another agent or had its acknowledgement lost:
\* acknowledge_command accepts one delivery revision, once.  Where two engines do
\* carry it out, one of them found it left out of a full batch of acknowledgements.
OneAgentRuns ==
    \A c \in Command, a, b \in Agent :
      edge[a][c].ran /\ edge[b][c].ran => a = b \/ LeftOut(a, c) \/ LeftOut(b, c)

\* What the cloud shows as a final outcome is the outcome of a local command: a lost
\* answer, a replay or an operator's retry never makes it show another one.
CloudShowsOutcome ==
    \A c \in Command :
        /\ cloud[c].status = "succeeded" => \E a \in Agent : edge[a][c].state = "succeeded"
        /\ cloud[c].status = "failed" =>
             \E a \in Agent : edge[a][c].state \in {"failed", "cancelled"}

\* An agent that holds an acknowledgement or a report as published is right about
\* it: the cloud recorded that delivery's acknowledgement and still holds the command
\* at the accepted revision the agent will report against, and it recorded a report
\* with the status kept as published (mark_cloud_acknowledged, mark_cloud_reported).
PublishedIsRecorded ==
    \A a \in Agent, c \in Command :
        /\ edge[a][c].ack # 0 => /\ edge[a][c].ack = reply[c].ack + 1
                                 /\ edge[a][c].token = reply[c].ack
                                 /\ Accepted(c)
                                 /\ cloud[c].status = "accepted" =>
                                      cloud[c].revision = edge[a][c].ack
        /\ edge[a][c].reported # "no" => reply[c].report.status = edge[a][c].reported

\* The reasons for which the cloud refuses what an agent will send next.
Superseded(a, c) ==
    /\ edge[a][c].state # "absent" /\ edge[a][c].ack = 0
    /\ reply[c].ack # edge[a][c].token
    /\ cloud[c].revision # edge[a][c].token
HeldByReview(a, c) == edge[a][c].ack = 0 /\ UnderReview(DeviceOf[c])
TooEarly(a, c) == edge[a][c].ack # 0 /\ edge[a][c].flaw = "early"
Unfit(a, c) == edge[a][c].ack # 0 /\ edge[a][c].flaw = "unfit"
ChangedSince(a, c) ==
    /\ edge[a][c].ack # 0 /\ edge[a][c].reported = "no"
    /\ reply[c].report.status # "none"
    /\ reply[c].report # [status |-> WireStatus(edge[a][c].state), edits |-> edge[a][c].edits]

Blocked(a) == \/ \E i \in AckItems(a) : AckRefused(i)
              \/ \E i \in ReportItems(a) : ReportRefused(i)

\* A flush is refused for five reasons only: the delivery went to another pull in the
\* meantime, a command of the device awaits review, the result is older than its
\* acceptance, its time, text or shape is not one the cloud takes, or the row was
\* changed after the cloud had recorded a report whose answer was lost.
BlockedForCause ==
    \A a \in Agent : Blocked(a) =>
        \E c \in Command : \/ Superseded(a, c) \/ HeldByReview(a, c)
                           \/ TooEarly(a, c) \/ Unfit(a, c) \/ ChangedSince(a, c)

\* The link or the process fails: a cycle is over and the cloud did not refuse it.
Fails == \E a \in Agent : pc[a] # "idle" /\ pc'[a] = "idle" /\ ~Advance(a)
LinkHolds == <>[][~Fails]_vars

\* A settled command's outcome is published once the link holds, unless the agent is
\* refused or the operator reopens the command.
OutcomePublished ==
    LinkHolds =>
      \A a \in Agent, c \in Command :
        (edge[a][c].ack # 0 /\ edge[a][c].state \in Reportable)
          ~> (edge[a][c].reported # "no" \/ edge[a][c].state = "open" \/ Blocked(a))

\* A device the cloud has restricted comes to be restricted at the agent once the
\* link holds, unless the agent's cycle is refused or the cloud resumes the device.
CloudStopReachesEdge ==
    LinkHolds =>
      \A a \in Agent, d \in Device :
        device[d].mode = "restricted"
          ~> (mode[a][d] = "restricted" \/ device[d].mode # "restricted" \/ Blocked(a))

\* Every success an agent has acknowledged work for reaches the cloud once the link
\* holds (the exact report replay of run_once).
SuccessReachesCloud ==
    LinkHolds =>
      \A a \in Agent, c \in Command :
        (edge[a][c].ack # 0 /\ edge[a][c].state = "succeeded")
          ~> edge[a][c].reported = "succeeded"
=============================================================================
