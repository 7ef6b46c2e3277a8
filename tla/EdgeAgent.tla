------------------------------ MODULE EdgeAgent ------------------------------
(***************************************************************************)
(* The facility edge agent: the durable SQLite command store               *)
(* (apps/edge-agent/src/store.rs), the execution engine that claims        *)
(* commands and drives device adapters (engine.rs), the local operator     *)
(* (main.rs) and the device controller behind an adapter.                  *)
(*                                                                         *)
(* Every store transaction is one atomic action.  The engine's in-memory   *)
(* work between two transactions (claim, heartbeat, adapter call, commit)  *)
(* is one action per transaction or adapter call, so an operator, a second *)
(* runner, a lease expiry or a crash may come between any two of them.     *)
(*                                                                         *)
(* Time is abstracted: instead of comparing timestamps with now, a row     *)
(* records whether its retry delay has elapsed (due) and whether its lease *)
(* has run out (expired); two environment actions set these flags.         *)
(***************************************************************************)
EXTENDS Naturals, FiniteSets

CONSTANTS
    Command,      \* command identifiers
    Device,       \* device identifiers
    Runner,       \* engine runners sharing the store
    Token,        \* lease tokens (random UUIDs)
    NoToken,      \* SQL NULL in lease_token
    Requests,     \* the requests that may be submitted
    NoRequest,    \* the request of a row that does not exist
    Adapters,     \* adapter capability sets a process may boot with
    NoAdapter,    \* no adapter registered for the device
    MaxAttempts,  \* EngineConfig.max_attempts
    MaxProbes,    \* EngineConfig.max_recovery_probes
    MaxReviews    \* bound on operator retries per command

VARIABLES
    mode,     \* edge_devices.control_mode per device, or "unregistered"
    health,   \* edge_devices.health_state per device, see Health
    adapter,  \* the booted process's adapter registry
    cmd,      \* edge_commands with the active row of edge_command_attempts
    pc,       \* where each runner is in process_claim
    claim,    \* the ClaimedCommand each runner holds in memory
    effect,   \* times the controller acted on the command
    reviews   \* times an operator retried the command after review

deviceVars == <<mode, health>>
controllerVars == <<effect, reviews>>
runnerVars == <<pc, claim>>
vars == <<mode, health, adapter, cmd, pc, claim, effect, reviews>>

-----------------------------------------------------------------------------
(* Vocabulary of types.rs, command.rs and adapter.rs *)

ControlMode == {"disabled", "automatic", "manual_fallback"}

\* HealthState, up to what the engine tells apart: healthy and degraded permit
\* automatic work, unknown and offline postpone it, faulted stops the device.
Health == {"working", "down", "faulted"}

RecoveryPolicy == {"device_deduplicated_replay", "probe_then_retry", "manual_review"}

CommandState == {"queued", "executing", "retry_wait", "recovery_wait", "succeeded",
                 "failed", "manual_review", "resolved_manually", "cancelled"}

\* CommandState::is_terminal
Terminal == {"succeeded", "failed", "resolved_manually", "cancelled"}

\* The states quarantine_device_commands sweeps: work automation may still do.
Live == {"queued", "executing", "retry_wait", "recovery_wait"}

Waiting == Live \ {"executing"}

Capability == {"dedupe", "probe"}

ClaimKind == {"execute", "recovery_probe"}

FailureClass == {"retryable", "permanent", "ambiguous"}

\* What process_claim has decided to commit; "success" covers Ok(result) of
\* execute and Completed of recover, "review" every require_manual_review.
Verdict == FailureClass \cup {"none", "success", "still_processing", "not_found", "review"}

Phase == {"idle", "claimed", "ready", "finishing"}

RequestType == [id : Command, device : Device, correlation : STRING, key : STRING,
                policy : RecoveryPolicy, body : STRING]

RowType == [req : Requests \cup {NoRequest}, state : CommandState \cup {"absent"},
            attempts : Nat, probes : Nat, due : BOOLEAN,
            lease : Token \cup {NoToken}, expired : BOOLEAN, active : BOOLEAN]

ClaimType == [cmd : Command, token : Token \cup {NoToken}, kind : ClaimKind,
              attempt : Nat, probes : Nat, verdict : Verdict]

ASSUME CommandAssumption == Command # {}
ASSUME RequestsAssumption == Requests \subseteq RequestType /\ NoRequest \notin Requests
ASSUME TokenAssumption == NoToken \notin Token
ASSUME AdaptersAssumption == Adapters \subseteq SUBSET Capability /\ NoAdapter \notin Adapters
\* EngineConfig::validate rejects zero limits.
ASSUME LimitsAssumption == /\ MaxAttempts \in Nat \ {0}
                           /\ MaxProbes \in Nat \ {0}
                           /\ MaxReviews \in Nat

AbsentRow == [req |-> NoRequest, state |-> "absent", attempts |-> 0, probes |-> 0,
              due |-> FALSE, lease |-> NoToken, expired |-> FALSE, active |-> FALSE]

Submitted == {c \in Command : cmd[c].state # "absent"}
OnDevice(d) == {c \in Submitted : cmd[c].req.device = d}

-----------------------------------------------------------------------------
(* Store primitives *)

\* transition_leased_without_token: leave executing without presenting the
\* token; the lease is cleared and the row is due at once.
Unleased(row, to) == [row EXCEPT !.state = to, !.due = TRUE, !.lease = NoToken,
                                 !.expired = FALSE, !.active = FALSE]

\* quarantine_device_commands for one row: an executing row also abandons its
\* active attempt and loses its lease, a waiting row keeps its schedule.
QuarantineRow(row) ==
    IF row.state = "executing" THEN Unleased(row, "manual_review")
    ELSE IF row.state \in Waiting THEN [row EXCEPT !.state = "manual_review"]
    ELSE row

\* abandon_active_attempt fails with CorruptRecord, rolling the transaction
\* back, unless the executing row has exactly one active attempt.
CanAbandon(row) == row.state = "executing" => row.active

-----------------------------------------------------------------------------
(* Device registry and local operator *)

RegisterDevice(d) ==
    /\ mode[d] = "unregistered"
    /\ mode' = [mode EXCEPT ![d] = "disabled"]
    /\ UNCHANGED <<health, adapter, cmd, runnerVars, controllerVars>>

ChangeControlMode(d, target) ==
    /\ mode[d] # "unregistered"
    /\ target # "automatic" => \A c \in OnDevice(d) : CanAbandon(cmd[c])
    /\ cmd' = IF target = "automatic" THEN cmd
              ELSE [c \in Command |-> IF c \in OnDevice(d) THEN QuarantineRow(cmd[c])
                                                           ELSE cmd[c]]
    /\ mode' = [mode EXCEPT ![d] = target]
    /\ UNCHANGED <<health, adapter, runnerVars, controllerVars>>

ResolveManually(c) ==
    /\ cmd[c].state = "manual_review"
    /\ cmd[c].lease = NoToken
    /\ cmd' = [cmd EXCEPT ![c].state = "resolved_manually"]
    /\ UNCHANGED <<deviceVars, adapter, runnerVars, controllerVars>>

CancelCommand(c) ==
    /\ cmd[c].state \in Waiting \cup {"manual_review"}
    /\ cmd[c].lease = NoToken
    /\ cmd' = [cmd EXCEPT ![c].state = "cancelled"]
    /\ UNCHANGED <<deviceVars, adapter, runnerVars, controllerVars>>

\* The attempt count of the row is kept: only state and schedule change.
RetryAfterReview(c) ==
    /\ cmd[c].state = "manual_review"
    /\ mode[cmd[c].req.device] = "automatic"
    /\ cmd[c].lease = NoToken
    /\ reviews[c] < MaxReviews
    /\ cmd' = [cmd EXCEPT ![c].state = "queued", ![c].due = TRUE]
    /\ reviews' = [reviews EXCEPT ![c] = @ + 1]
    /\ UNCHANGED <<deviceVars, adapter, runnerVars, effect>>

-----------------------------------------------------------------------------
(* Submission *)

\* The capability the recovery policy demands of the adapter.
Supports(capabilities, policy) ==
    /\ policy = "device_deduplicated_replay" => "dedupe" \in capabilities
    /\ policy = "probe_then_retry" => "probe" \in capabilities

\* command_identity_candidates
IdentityCandidates(q) ==
    {c \in Submitted : \/ c = q.id
                       \/ /\ cmd[c].req.device = q.device
                          /\ \/ cmd[c].req.correlation = q.correlation
                             \/ cmd[c].req.key = q.key}

\* submit_with_cloud behind validate_submission.  A request with a candidate
\* changes nothing: an exact repeat is answered from the stored row, anything
\* else is an IdentityConflict.
Submit(q) ==
    /\ adapter[q.device] # NoAdapter
    /\ Supports(adapter[q.device], q.policy)
    /\ mode[q.device] # "unregistered"
    /\ IdentityCandidates(q) = {}
    /\ cmd' = [cmd EXCEPT ![q.id] =
                 [AbsentRow EXCEPT !.req = q, !.due = TRUE,
                    !.state = IF mode[q.device] = "automatic" THEN "queued"
                                                              ELSE "manual_review"]]
    /\ UNCHANGED <<deviceVars, adapter, runnerVars, controllerVars>>

-----------------------------------------------------------------------------
(* Passage of time and process lifetime *)

RetryDelayElapses(c) ==
    /\ cmd[c].state \in Waiting
    /\ ~cmd[c].due
    /\ cmd' = [cmd EXCEPT ![c].due = TRUE]
    /\ UNCHANGED <<deviceVars, adapter, runnerVars, controllerVars>>

LeaseRunsOut(c) ==
    /\ cmd[c].state = "executing"
    /\ ~cmd[c].expired
    /\ cmd' = [cmd EXCEPT ![c].expired = TRUE]
    /\ UNCHANGED <<deviceVars, adapter, runnerVars, controllerVars>>

NoClaim == [cmd |-> CHOOSE c \in Command : TRUE, token |-> NoToken, kind |-> "execute",
            attempt |-> 0, probes |-> 0, verdict |-> "none"]

Released(r) ==
    /\ pc' = [pc EXCEPT ![r] = "idle"]
    /\ claim' = [claim EXCEPT ![r] = NoClaim]

\* The process dies, or run_once returns early with an error (an invalid
\* health report, a result of the wrong kind): the claim is forgotten and its
\* lease stays in the store.
RunFails(r) ==
    /\ pc[r] # "idle"
    /\ Released(r)
    /\ UNCHANGED <<deviceVars, adapter, cmd, controllerVars>>

\* A new process boots with another adapter registration for the device.
Boot(d, capabilities) ==
    /\ \A r \in Runner : pc[r] = "idle"
    /\ adapter[d] # capabilities
    /\ adapter' = [adapter EXCEPT ![d] = capabilities]
    /\ UNCHANGED <<deviceVars, cmd, runnerVars, controllerVars>>

-----------------------------------------------------------------------------
(* Lease recovery and claiming *)

\* Mutant: a command with an unknown outcome is sent again without a probe.
ExpiryTargetBlind(policy) ==
    IF policy = "manual_review" THEN "manual_review" ELSE "retry_wait"

\* Where a command goes whose execution may or may not have reached the device.
ExpiryTarget(policy) ==
    CASE policy = "device_deduplicated_replay" -> "retry_wait"
      [] policy = "probe_then_retry"           -> "recovery_wait"
      [] policy = "manual_review"              -> "manual_review"

Expired == {c \in Command : cmd[c].state = "executing" /\ cmd[c].expired}

\* Devices that recover_expired_leases forces into manual fallback.
FallenBack == {cmd[c].req.device : c \in {x \in Expired : cmd[x].req.policy = "manual_review"}}

RecoverRow(c) ==
    LET row == IF c \in Expired THEN Unleased(cmd[c], ExpiryTarget(cmd[c].req.policy))
                                ELSE cmd[c]
    IN  IF cmd[c].state # "absent" /\ cmd[c].req.device \in FallenBack
        THEN QuarantineRow(row) ELSE row

\* recover_expired_leases, the first transaction of run_once.  The unique index
\* on executing rows allows one expired command per device, so the order of the
\* loop over Expired does not matter.
RecoverExpiredLeases(r) ==
    /\ pc[r] = "idle"
    /\ Expired # {}
    /\ \A c \in Expired : CanAbandon(cmd[c])
    /\ cmd' = [c \in Command |-> RecoverRow(c)]
    /\ mode' = [d \in Device |-> IF d \in FallenBack THEN "manual_fallback" ELSE mode[d]]
    /\ UNCHANGED <<health, adapter, runnerVars, controllerVars>>

\* Mutant: the command in flight on the device is not looked for.
ClaimableBusyDevice(c) ==
    /\ cmd[c].state \in Waiting
    /\ cmd[c].due
    /\ mode[cmd[c].req.device] = "automatic"
    /\ cmd[c].state = "recovery_wait" \/ cmd[c].attempts < MaxAttempts

\* The WHERE clause of claim_next.
Claimable(c) ==
    /\ cmd[c].state \in Waiting
    /\ cmd[c].due
    /\ mode[cmd[c].req.device] = "automatic"
    /\ cmd[c].state = "recovery_wait" \/ cmd[c].attempts < MaxAttempts
    /\ \A other \in OnDevice(cmd[c].req.device) : cmd[other].state # "executing"

\* Tokens are fresh UUIDs: distinct from every token still held anywhere.
TokensInUse == {cmd[c].lease : c \in Command} \cup {claim[r].token : r \in Runner}

\* recovery_probe_count is only compared with max_recovery_probes, so the model
\* lets it saturate there.
CountProbe(n) == IF n < MaxProbes THEN n + 1 ELSE n

\* Only an execution counts against max_attempts.
CountAttempt(n, kind) == IF kind = "execute" THEN n + 1 ELSE n

\* The ORDER BY of claim_next is left open: any claimable command may come first.
ClaimNext(r, c) ==
    LET kind == IF cmd[c].state = "recovery_wait" THEN "recovery_probe" ELSE "execute"
        attempt == CountAttempt(cmd[c].attempts, kind)
        probes == IF kind = "recovery_probe" THEN CountProbe(cmd[c].probes)
                                             ELSE cmd[c].probes
    IN  /\ pc[r] = "idle"
        /\ Claimable(c)
        /\ \E t \in Token \ TokensInUse :
             /\ cmd' = [cmd EXCEPT ![c] =
                          [@ EXCEPT !.state = "executing", !.attempts = attempt,
                                    !.probes = probes, !.lease = t, !.expired = FALSE,
                                    !.active = TRUE]]
             /\ claim' = [claim EXCEPT ![r] =
                            [cmd |-> c, token |-> t, kind |-> kind, attempt |-> attempt,
                             probes |-> probes, verdict |-> "none"]]
        /\ pc' = [pc EXCEPT ![r] = "claimed"]
        /\ UNCHANGED <<deviceVars, adapter, controllerVars>>

-----------------------------------------------------------------------------
(* process_claim: adapter checks, heartbeat, physical call *)

Request(r) == cmd[claim[r].cmd].req

Decide(r, verdict) ==
    /\ pc' = [pc EXCEPT ![r] = "finishing"]
    /\ claim' = [claim EXCEPT ![r].verdict = verdict]

Usable(r) == /\ adapter[Request(r).device] # NoAdapter
             /\ Supports(adapter[Request(r).device], Request(r).policy)

\* No adapter, or one without the capability the policy needs.
RejectAdapter(r) ==
    /\ pc[r] = "claimed"
    /\ ~Usable(r)
    /\ Decide(r, "review")
    /\ UNCHANGED <<deviceVars, adapter, cmd, controllerVars>>

\* The heartbeat is recorded before anything physical; only a working device
\* goes on to the adapter call.
HeartbeatAnswers(r, h) ==
    /\ pc[r] = "claimed"
    /\ Usable(r)
    /\ health' = [health EXCEPT ![Request(r).device] = h]
    /\ \/ /\ h = "working"
          /\ pc' = [pc EXCEPT ![r] = "ready"]
          /\ UNCHANGED claim
       \/ /\ h = "faulted"
          /\ Decide(r, "review")
       \/ /\ h = "down"
          /\ Decide(r, "retryable")
    /\ UNCHANGED <<mode, adapter, cmd, controllerVars>>

\* A heartbeat that fails records the device offline and is handled with the
\* failure class the adapter gave it, exactly like a failed execution.
HeartbeatFails(r, class) ==
    /\ pc[r] = "claimed"
    /\ Usable(r)
    /\ health' = [health EXCEPT ![Request(r).device] = "down"]
    /\ Decide(r, class)
    /\ UNCHANGED <<mode, adapter, cmd, controllerVars>>

\* Outside a claim, refresh_heartbeats records one heartbeat per adapter.
RefreshHeartbeat(d, h) ==
    /\ adapter[d] # NoAdapter
    /\ mode[d] # "unregistered"
    /\ health[d] # h
    /\ health' = [health EXCEPT ![d] = h]
    /\ UNCHANGED <<mode, adapter, cmd, runnerVars, controllerVars>>

Deduplicates(r) == "dedupe" \in adapter[Request(r).device]

\* The controller accepts the command; one with durable duplicate protection
\* acts at most once per command identity.
Accept(r) == effect' = [effect EXCEPT ![claim[r].cmd] =
                          IF Deduplicates(r) /\ @ > 0 THEN @ ELSE @ + 1]

\* DeviceAdapter::execute under the contract of adapter.rs: retryable and
\* permanent mean the controller did not accept, ambiguous means either.
Execute(r, verdict) ==
    /\ pc[r] = "ready"
    /\ claim[r].kind = "execute"
    /\ \/ verdict = "success" /\ Accept(r)
       \/ verdict = "ambiguous" /\ Accept(r)
       \/ verdict \in {"ambiguous", "retryable"} /\ UNCHANGED effect
       \/ /\ verdict = "permanent"
          /\ Deduplicates(r) => effect[claim[r].cmd] = 0
          /\ UNCHANGED effect
    /\ Decide(r, verdict)
    /\ UNCHANGED <<deviceVars, adapter, cmd, reviews>>

\* DeviceAdapter::recover queries the controller's durable history by the
\* command's stable identity.
Recover(r, verdict) ==
    /\ pc[r] = "ready"
    /\ claim[r].kind = "recovery_probe"
    /\ \/ verdict \in {"success", "still_processing"} /\ effect[claim[r].cmd] > 0
       \/ verdict = "not_found" /\ effect[claim[r].cmd] = 0
       \/ verdict \in FailureClass \cup {"review"}
    /\ Decide(r, verdict)
    /\ UNCHANGED <<deviceVars, adapter, cmd, controllerVars>>

-----------------------------------------------------------------------------
(* Committing the outcome of a claim *)

Completion(target, due) == [target |-> target, due |-> due, fallback |-> FALSE]

\* A completion that also forces the device into manual fallback.
Fallback(due) == [target |-> "manual_review", due |-> due, fallback |-> TRUE]

RequireManualReview == Fallback(TRUE)

CompleteSuccess == Completion("succeeded", TRUE)

PermanentFailure == Completion("failed", TRUE)

\* Mutant: a failed probe falls back to plain retry.
RetryableFailureBlind(cl) ==
    IF cl.attempt >= MaxAttempts THEN Fallback(FALSE) ELSE Completion("retry_wait", FALSE)

RetryableFailure(cl) ==
    IF \/ cl.kind = "execute" /\ cl.attempt >= MaxAttempts
       \/ cl.kind = "recovery_probe" /\ cl.probes >= MaxProbes
    THEN Fallback(FALSE)
    ELSE Completion(IF cl.kind = "recovery_probe" THEN "recovery_wait" ELSE "retry_wait",
                    FALSE)

\* No budget is consulted here, whatever the kind of the claim.
AmbiguousFailure(policy) ==
    IF policy = "manual_review" THEN Fallback(FALSE)
    ELSE Completion(ExpiryTarget(policy), FALSE)

\* handle_failure for a permanent failure: a probe that is refused proves nothing
\* about the command.  Mutant first.
PermanentOutcomeAnyKind(cl) == PermanentFailure

PermanentOutcome(cl) ==
    IF cl.kind = "recovery_probe" THEN RequireManualReview ELSE PermanentFailure

\* Mutant: the probe budget is not consulted.
DeferRecoveryUnbudgeted(cl) == Completion("recovery_wait", FALSE)

DeferRecovery(cl) ==
    IF cl.probes >= MaxProbes THEN RequireManualReview
    ELSE Completion("recovery_wait", FALSE)

\* Mutants: one attempt too many, and a command the controller does not know is
\* taken for an old success.
RecoveryNotFoundOneMore(cl) ==
    IF cl.attempt > MaxAttempts THEN RequireManualReview ELSE Completion("queued", TRUE)

RecoveryNotFound(cl) ==
    IF cl.attempt >= MaxAttempts THEN RequireManualReview ELSE Completion("queued", TRUE)

\* process_claim's last match, with handle_failure.
CompletionOf(cl, policy) ==
    CASE cl.verdict = "success"          -> CompleteSuccess
      [] cl.verdict = "retryable"        -> RetryableFailure(cl)
      [] cl.verdict = "permanent"        -> PermanentOutcome(cl)
      [] cl.verdict = "ambiguous"        -> AmbiguousFailure(policy)
      [] cl.verdict = "still_processing" -> DeferRecovery(cl)
      [] cl.verdict = "not_found"        -> RecoveryNotFound(cl)
      [] OTHER                           -> RequireManualReview

\* Mutant: any lease will do.
HoldsAnyLease(r) == cmd[claim[r].cmd].state = "executing" /\ cmd[claim[r].cmd].active

\* The WHERE clause of finish_claim: the row is still executing under the
\* token this claim was given.
HoldsLease(r) ==
    /\ cmd[claim[r].cmd].state = "executing"
    /\ cmd[claim[r].cmd].lease = claim[r].token
    /\ cmd[claim[r].cmd].active

FinishClaim(r) ==
    LET c == claim[r].cmd
        done == CompletionOf(claim[r], Request(r).policy)
        d == Request(r).device
    IN  /\ pc[r] = "finishing"
        /\ HoldsLease(r)
        /\ done.fallback => \A x \in OnDevice(d) \ {c} : CanAbandon(cmd[x])
        /\ cmd' = [x \in Command |->
                     IF x = c THEN [Unleased(cmd[c], done.target) EXCEPT !.due = done.due]
                     ELSE IF done.fallback /\ x \in OnDevice(d) THEN QuarantineRow(cmd[x])
                     ELSE cmd[x]]
        /\ mode' = IF done.fallback THEN [mode EXCEPT ![d] = "manual_fallback"] ELSE mode
        /\ Released(r)
        /\ UNCHANGED <<health, adapter, controllerVars>>

\* finish_claim answers LeaseMismatch: the transaction rolls back and run_once
\* ends with the error.
LeaseMismatch(r) ==
    /\ pc[r] = "finishing"
    /\ ~HoldsLease(r)
    /\ Released(r)
    /\ UNCHANGED <<deviceVars, adapter, cmd, controllerVars>>

-----------------------------------------------------------------------------
Init ==
    /\ mode = [d \in Device |-> "unregistered"]
    /\ health = [d \in Device |-> "down"]
    /\ adapter \in [Device -> Adapters]
    /\ cmd = [c \in Command |-> AbsentRow]
    /\ pc = [r \in Runner |-> "idle"]
    /\ claim = [r \in Runner |-> NoClaim]
    /\ effect = [c \in Command |-> 0]
    /\ reviews = [c \in Command |-> 0]

Operator ==
    \/ \E d \in Device : RegisterDevice(d)
    \/ \E d \in Device, target \in ControlMode : ChangeControlMode(d, target)
    \/ \E c \in Command : ResolveManually(c) \/ CancelCommand(c) \/ RetryAfterReview(c)

Environment ==
    \/ \E q \in Requests : Submit(q)
    \/ \E c \in Command : RetryDelayElapses(c) \/ LeaseRunsOut(c)
    \/ \E d \in Device, capabilities \in Adapters \cup {NoAdapter} : Boot(d, capabilities)
    \/ \E d \in Device, h \in Health : RefreshHeartbeat(d, h)
    \/ \E r \in Runner : RunFails(r)

\* One step of EdgeEngine::run_once.
Step(r) ==
    \/ RecoverExpiredLeases(r)
    \/ \E c \in Command : ClaimNext(r, c)
    \/ RejectAdapter(r)
    \/ \E h \in Health : HeartbeatAnswers(r, h)
    \/ \E class \in FailureClass : HeartbeatFails(r, class)
    \/ \E verdict \in Verdict : Execute(r, verdict) \/ Recover(r, verdict)
    \/ FinishClaim(r)
    \/ LeaseMismatch(r)

Next == Operator \/ Environment \/ \E r \in Runner : Step(r)

Spec == Init /\ [][Next]_vars

\* A run of the engine that has claimed a command goes on to its commit, unless it
\* dies, and the clock moves on: delays elapse and leases run out.  That the engine
\* is run again is not among this: sync.rs calls it only at the end of a cycle.
Fairness ==
    /\ \A r \in Runner : WF_vars(pc[r] # "idle" /\ Step(r))
    /\ \A c \in Command : WF_vars(RetryDelayElapses(c)) /\ WF_vars(LeaseRunsOut(c))

FairSpec == Spec /\ Fairness

-----------------------------------------------------------------------------
(* Properties *)

\* Types of all state, with the two budgets of EngineConfig as bounds.
TypeOK ==
    /\ mode \in [Device -> ControlMode \cup {"unregistered"}]
    /\ health \in [Device -> Health]
    /\ adapter \in [Device -> Adapters \cup {NoAdapter}]
    /\ cmd \in [Command -> RowType]
    /\ pc \in [Runner -> Phase]
    /\ claim \in [Runner -> ClaimType]
    /\ effect \in [Command -> Nat]
    /\ reviews \in [Command -> 0..MaxReviews]
    /\ \A c \in Command : cmd[c].attempts <= MaxAttempts /\ cmd[c].probes <= MaxProbes

\* A row is executing exactly while it carries a lease token and has an active
\* attempt: the CHECK constraint of edge_commands, extended to the attempts
\* table.  It is what keeps abandon_active_attempt from failing, and so keeps an
\* operator able to restrict a device whatever its commands are doing.
LeaseMatchesAttempt ==
    \A c \in Command : /\ cmd[c].state = "executing" <=> cmd[c].lease # NoToken
                       /\ cmd[c].state = "executing" <=> cmd[c].active

\* claim_next never starts a second command on a device that has one in flight
\* (the unique index edge_commands_one_executing_per_device never fires).
OneExecutingPerDevice ==
    \A a, b \in Submitted :
        /\ cmd[a].state = "executing" /\ cmd[b].state = "executing"
        /\ cmd[a].req.device = cmd[b].req.device
        => a = b

\* A device that is disabled or in manual fallback has no command automation
\* could still pick up, however the device got there and whatever was submitted,
\* recovered or completed in the meantime (quarantine_device_commands).
NoWorkOnRestrictedDevice ==
    \A c \in Submitted : mode[cmd[c].req.device] # "automatic" => cmd[c].state \notin Live

\* Rows that exist carry a request, and a runner only works on rows that exist.
WellFormed ==
    /\ \A c \in Command : cmd[c].state # "absent" => cmd[c].req \in Requests
    /\ \A r \in Runner : pc[r] # "idle" => cmd[claim[r].cmd].state # "absent"

\* The store is consistent after every transaction, whatever stale runners, expired
\* leases, operators and restarts do to it: budgets are kept, leases and attempts
\* match, a device executes one command, and a restricted one none.  Together the
\* parts are inductive: each transaction needs several of them to keep one.
StoreInv == TypeOK /\ WellFormed /\ LeaseMatchesAttempt /\ OneExecutingPerDevice
              /\ NoWorkOnRestrictedDevice

\* With one runner, the controller acts at most once for a submission and once
\* more for each time an operator retried the command after reviewing it, through
\* crashes, expired leases, ambiguous answers and quarantine (handle_failure,
\* recover_expired_leases, recovery_not_found).
AtMostOncePhysical == \A c \in Command : effect[c] <= 1 + reviews[c]

\* A command reported as succeeded did have its physical effect.
SucceededHadEffect == \A c \in Command : cmd[c].state = "succeeded" => effect[c] > 0

\* With one runner, a failed command had no physical effect since it was last put
\* to automation: only permanent_failure writes failed, and a permanent failure is
\* a rejection without physical effect.  Deduplicated commands are excepted:
\* process_claim also closes one as failed when the heartbeat before a resend fails
\* permanently, although an earlier ambiguous send may have been carried out.
FailedHadNoEffect ==
    \A c \in Command :
      cmd[c].state = "failed" /\ cmd[c].req.policy # "device_deduplicated_replay"
        => effect[c] <= reviews[c]

Stranded(c) == cmd[c].state \in {"queued", "retry_wait"} /\ cmd[c].attempts >= MaxAttempts

\* A command that waits to be executed without an attempt left is never picked up
\* by claim_next.  Two paths only lead there, those that keep attempt_count and do
\* not look at it: an operator's retry_after_review, and the resend of a
\* deduplicated command after an ambiguous failure or an expired lease.
StrandedByResendOnly ==
    \A c \in Command : Stranded(c) =>
      \/ cmd[c].state = "queued" /\ reviews[c] > 0
      \/ cmd[c].state = "retry_wait" /\ cmd[c].req.policy = "device_deduplicated_replay"

\* A runner whose lease has not run out loses it only by its own commit or
\* because its device was restricted: no other runner's late completion or lease
\* recovery takes it away.
LeaseIsFenced ==
    [][\A r \in Runner :
         /\ pc[r] # "idle" /\ HoldsLease(r) /\ ~cmd[claim[r].cmd].expired
         /\ ~HoldsLease(r)'
         => pc'[r] = "idle" \/ mode'[Request(r).device] # "automatic"]_vars

\* A probe whose outcome is unknown: the runner dies in it, or it fails ambiguously.
ProbeLost == \E r \in Runner : /\ claim[r].kind = "recovery_probe"
                               /\ RunFails(r) \/ claim'[r].verdict = "ambiguous"

\* A runner with something to recover or to claim is eventually run, as it is where
\* the cycles of sync.rs, which flush, read the registry, publish heartbeats and pull
\* before they run the engine, do not all end in an error before they get there.
EngineRunsOn == \A r \in Runner : WF_vars(pc[r] = "idle" /\ Step(r))

\* As long as cycles keep reaching the engine and recovery probes are not lost
\* forever, work handed to automation ends, reaches an operator, or comes to rest
\* where claim_next strands it: whatever else fails, crashes or restarts is paid for
\* by a budget of the command (retryable_failure, defer_recovery,
\* recovery_not_found, lease recovery).
SettlesUnlessProbesLost ==
    EngineRunsOn /\ <>[][~ProbeLost]_vars =>
      \A c \in Command : (cmd[c].state \in Live) ~> (cmd[c].state \notin Live \/ Stranded(c))

-----------------------------------------------------------------------------
(* The contract the agent implements *)

StatusOf(state) ==
    IF state \in Live THEN "open"
    ELSE IF state = "manual_review" THEN "review"
    ELSE state

Contract == INSTANCE EdgeContract WITH
    status <- [c \in Command |-> StatusOf(cmd[c].state)],
    grants <- [c \in Command |-> 1 + reviews[c]]

\* With one runner per store, every behaviour of the agent is one the contract
\* allows: each physical effect uses up a grant, success follows an effect, and
\* only an operator reopens a command.
ImplementsContract == Contract!ContractSpec
=============================================================================
