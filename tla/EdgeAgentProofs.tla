--------------------------- MODULE EdgeAgentProofs ---------------------------
(***************************************************************************)
(* Machine-checked proofs about EdgeAgent, for any number of commands,     *)
(* devices, runners and tokens and any budgets: the store invariant,       *)
(* leases and fencing.                                                     *)
(***************************************************************************)
EXTENDS EdgeAgent, TLAPS

-----------------------------------------------------------------------------
(* Rows *)

\* The helpers of the store map rows to rows.
LEMMA UnleasedRow ==
    ASSUME NEW row \in RowType, NEW to \in CommandState
    PROVE  /\ Unleased(row, to) \in RowType
           /\ Unleased(row, to).state = to
           /\ Unleased(row, to).req = row.req
           /\ Unleased(row, to).attempts = row.attempts
           /\ Unleased(row, to).probes = row.probes
           /\ Unleased(row, to).lease = NoToken
           /\ ~Unleased(row, to).active
BY Zenon DEF Unleased, RowType

\* What quarantine does to a row, whatever its state was.
LEMMA QuarantinedRow ==
    ASSUME NEW row \in RowType
    PROVE  /\ QuarantineRow(row) \in RowType
           /\ QuarantineRow(row).req = row.req
           /\ QuarantineRow(row).attempts = row.attempts
           /\ QuarantineRow(row).probes = row.probes
           /\ row.state \in Live => QuarantineRow(row).state = "manual_review"
           /\ row.state \notin Live => QuarantineRow(row) = row
           /\ row.state = "executing" => /\ QuarantineRow(row).lease = NoToken
                                         /\ ~QuarantineRow(row).active
           /\ row.state # "executing" => /\ QuarantineRow(row).lease = row.lease
                                         /\ QuarantineRow(row).active = row.active
<1>1. CASE row.state = "executing"
  BY <1>1, UnleasedRow DEF QuarantineRow, Live, CommandState
<1>2. CASE row.state \in Waiting
  BY <1>2 DEF QuarantineRow, Waiting, Live, RowType, CommandState
<1>3. CASE row.state \notin Live
  BY <1>3 DEF QuarantineRow, Waiting, Live
<1> QED BY <1>1, <1>2, <1>3 DEF Waiting, Live

\* The row finish_claim writes.
LEMMA FinishedRow ==
    ASSUME NEW row \in RowType, NEW to \in CommandState, NEW due \in BOOLEAN
    PROVE  LET new == [Unleased(row, to) EXCEPT !.due = due]
           IN  /\ new \in RowType /\ new.state = to /\ new.req = row.req
               /\ new.attempts = row.attempts /\ new.probes = row.probes
               /\ new.lease = NoToken /\ ~new.active
BY Zenon DEF Unleased, RowType

-----------------------------------------------------------------------------
(* The store invariant is inductive *)

\* Steps that keep requests and start no claim keep rows and claims well formed.
LEMMA SameRowsWellFormed ==
    ASSUME TypeOK, WellFormed,
           \A c \in Command : /\ cmd'[c].req = cmd[c].req
                              /\ cmd'[c].state = "absent" <=> cmd[c].state = "absent",
           \A r \in Runner : pc'[r] # "idle" => pc[r] # "idle" /\ claim'[r].cmd = claim[r].cmd
    PROVE  WellFormed'
<1>1. \A c \in Command : cmd'[c].state # "absent" => cmd'[c].req \in Requests
  BY DEF WellFormed
<1>2. ASSUME NEW r \in Runner, pc'[r] # "idle" PROVE cmd'[claim'[r].cmd].state # "absent"
  <2>1. claim[r].cmd \in Command
    BY DEF TypeOK, ClaimType
  <2>2. cmd[claim[r].cmd].state # "absent" /\ claim'[r].cmd = claim[r].cmd
    BY <1>2 DEF WellFormed
  <2> QED BY <2>1, <2>2
<1> QED BY <1>1, <1>2 DEF WellFormed

\* The empty store of Init satisfies the invariant.
LEMMA StoreInit == Init => StoreInv
<1> SUFFICES ASSUME Init PROVE StoreInv
  OBVIOUS
<1>1. AbsentRow \in RowType
  BY DEF AbsentRow, RowType
<1>2. NoClaim \in ClaimType
  BY CommandAssumption DEF NoClaim, ClaimType, ClaimKind, Verdict
<1>3. TypeOK
  BY <1>1, <1>2, LimitsAssumption DEF Init, TypeOK, Health, Phase, AbsentRow
<1> QED
  BY <1>3 DEF Init, StoreInv, WellFormed, LeaseMatchesAttempt, OneExecutingPerDevice,
              NoWorkOnRestrictedDevice, Submitted, AbsentRow

\* register_device keeps the invariant: a new device is not automatic.
LEMMA RegisterDeviceKeeps ==
    ASSUME StoreInv, NEW d \in Device, RegisterDevice(d) PROVE StoreInv'
BY DEF RegisterDevice, StoreInv, TypeOK, WellFormed, LeaseMatchesAttempt,
   OneExecutingPerDevice, NoWorkOnRestrictedDevice, Submitted, ControlMode,
   runnerVars, controllerVars

\* change_control_mode keeps it, with the quarantine of the live commands.
LEMMA ChangeControlModeKeeps ==
    ASSUME StoreInv, NEW d \in Device, NEW target \in ControlMode,
           ChangeControlMode(d, target)
    PROVE  StoreInv'
<1> USE DEF ChangeControlMode, runnerVars, controllerVars
<1>1. CASE target = "automatic"
  BY <1>1 DEF StoreInv, TypeOK, WellFormed, LeaseMatchesAttempt,
     OneExecutingPerDevice, NoWorkOnRestrictedDevice, Submitted, ControlMode
<1>2. CASE target # "automatic"
  <2>1. \A c \in Command : /\ cmd[c] \in RowType
                           /\ c \notin OnDevice(d) => cmd'[c] = cmd[c]
                           /\ c \in OnDevice(d) => cmd'[c] = QuarantineRow(cmd[c])
    BY <1>2 DEF StoreInv, TypeOK
  <2>2. TypeOK'
    BY <1>2, <2>1, QuarantinedRow DEF StoreInv, TypeOK
  <2>3. \A c \in Command : /\ cmd'[c].req = cmd[c].req
                           /\ cmd'[c].state \in {cmd[c].state, "manual_review"}
                           /\ cmd'[c].state = "absent" <=> cmd[c].state = "absent"
                           /\ c \in OnDevice(d) => cmd'[c].state \notin Live
    BY <2>1, QuarantinedRow DEF Live
  <2>4. LeaseMatchesAttempt'
    BY <2>1, QuarantinedRow DEF StoreInv, LeaseMatchesAttempt, Live
  <2>5. WellFormed'
    BY <2>3, SameRowsWellFormed DEF StoreInv
  <2>6. OneExecutingPerDevice'
    BY <2>3 DEF StoreInv, OneExecutingPerDevice, Submitted
  <2>7. NoWorkOnRestrictedDevice'
    <3> SUFFICES ASSUME NEW c \in Command, cmd'[c].state # "absent", cmd'[c].state \in Live
                 PROVE  mode'[cmd'[c].req.device] = "automatic"
      BY DEF NoWorkOnRestrictedDevice, Submitted
    <3>1. /\ cmd[c].state \in Live /\ cmd'[c].req = cmd[c].req /\ c \in Submitted
          /\ c \notin OnDevice(d)
      BY <2>3 DEF Live, Submitted
    <3>2. mode[cmd[c].req.device] = "automatic" /\ cmd[c].req.device # d
      BY <3>1 DEF StoreInv, NoWorkOnRestrictedDevice, OnDevice
    <3> QED BY <3>1, <3>2 DEF StoreInv, TypeOK
  <2> QED BY <2>2, <2>4, <2>5, <2>6, <2>7 DEF StoreInv
<1> QED BY <1>1, <1>2

\* Steps that leave the tables alone only have to keep the types of the rest.
LEMMA TablesUnchanged ==
    ASSUME StoreInv, UNCHANGED <<mode, cmd>>, TypeOK', WellFormed'
    PROVE  StoreInv'
BY DEF StoreInv, LeaseMatchesAttempt, OneExecutingPerDevice, NoWorkOnRestrictedDevice,
   Submitted

\* Steps of one runner that leave the tables alone and go on with its claim, with
\* at most a new verdict.
LEMMA RunnerKeeps ==
    ASSUME StoreInv, NEW r \in Runner, pc[r] # "idle", UNCHANGED <<mode, adapter, cmd, reviews>>,
           health' \in [Device -> Health], effect' \in [Command -> Nat],
           NEW next \in Phase, pc' = [pc EXCEPT ![r] = next],
           \/ UNCHANGED claim
           \/ \E v \in Verdict : claim' = [claim EXCEPT ![r].verdict = v]
    PROVE  StoreInv'
<1>0. claim \in [Runner -> ClaimType]
  BY DEF StoreInv, TypeOK
<1>1. /\ claim' \in [Runner -> ClaimType]
      /\ \A x \in Runner : claim'[x].cmd = claim[x].cmd
  <2>1. CASE UNCHANGED claim
    BY <1>0, <2>1
  <2>2. ASSUME NEW v \in Verdict, claim' = [claim EXCEPT ![r].verdict = v]
        PROVE  /\ claim' \in [Runner -> ClaimType]
               /\ \A x \in Runner : claim'[x].cmd = claim[x].cmd
    BY <1>0, <2>2 DEF ClaimType
  <2> QED BY <2>1, <2>2
<1>2. TypeOK'
  BY <1>1, Zenon DEF StoreInv, TypeOK
<1>3. WellFormed'
  BY <1>1 DEF StoreInv, WellFormed, TypeOK
<1> QED BY <1>2, <1>3, TablesUnchanged

\* A runner that gives up its claim.
LEMMA ReleasedKeeps ==
    ASSUME StoreInv, NEW r \in Runner, Released(r), UNCHANGED <<mode, health, adapter, cmd, effect, reviews>>
    PROVE  StoreInv'
<1>1. NoClaim \in ClaimType
  BY CommandAssumption DEF NoClaim, ClaimType, ClaimKind, Verdict
<1>2. TypeOK' /\ WellFormed'
  BY <1>1 DEF StoreInv, TypeOK, WellFormed, Released, Phase
<1> QED BY <1>2, TablesUnchanged

\* The actions of process_claim before its last transaction.
LEMMA ProcessClaimKeeps ==
    ASSUME StoreInv, NEW r \in Runner,
           \/ RejectAdapter(r)
           \/ \E h \in Health : HeartbeatAnswers(r, h)
           \/ \E class \in FailureClass : HeartbeatFails(r, class)
           \/ \E verdict \in Verdict : Execute(r, verdict) \/ Recover(r, verdict)
    PROVE  StoreInv'
<1> USE DEF deviceVars, controllerVars, Decide, Phase, Verdict, FailureClass
<1>0. /\ health \in [Device -> Health] /\ effect \in [Command -> Nat]
      /\ claim \in [Runner -> ClaimType]
  BY DEF StoreInv, TypeOK
<1>1. CASE RejectAdapter(r)
  BY <1>0, <1>1, RunnerKeeps, Zenon DEF RejectAdapter
<1>2. ASSUME NEW h \in Health, HeartbeatAnswers(r, h) PROVE StoreInv'
  <2>1. health' \in [Device -> Health] /\ UNCHANGED <<mode, adapter, cmd, effect, reviews>>
    BY <1>0, <1>2, Zenon DEF HeartbeatAnswers
  <2>2. CASE h = "working"
    BY <1>0, <1>2, <2>1, <2>2, RunnerKeeps DEF HeartbeatAnswers
  <2>3. CASE h # "working"
    BY <1>0, <1>2, <2>1, <2>3, RunnerKeeps DEF HeartbeatAnswers
  <2> QED BY <2>2, <2>3
<1>3. ASSUME NEW class \in FailureClass, HeartbeatFails(r, class) PROVE StoreInv'
  <2>1. health' \in [Device -> Health] /\ UNCHANGED <<mode, adapter, cmd, effect, reviews>>
    BY <1>0, <1>3, Zenon DEF HeartbeatFails, Health
  <2> QED BY <1>0, <1>3, <2>1, RunnerKeeps, Zenon DEF HeartbeatFails
<1>4. ASSUME NEW verdict \in Verdict, Execute(r, verdict) PROVE StoreInv'
  <2>1. effect' \in [Command -> Nat]
    BY <1>0, <1>4 DEF Execute, Accept
  <2> QED BY <1>0, <1>4, <2>1, RunnerKeeps, Zenon DEF Execute
<1>5. ASSUME NEW verdict \in Verdict, Recover(r, verdict) PROVE StoreInv'
  BY <1>0, <1>5, RunnerKeeps, Zenon DEF Recover
<1> QED BY <1>1, <1>2, <1>3, <1>4, <1>5

SameButStateAndTime(new, old) ==
    /\ new.req = old.req /\ new.lease = old.lease /\ new.active = old.active
    /\ new.attempts = old.attempts /\ new.probes = old.probes

\* A step that changes one existing row without touching its request, lease,
\* attempts or active attempt, and does not bring it to life on a restricted device.
LEMMA OneRowKeeps ==
    ASSUME StoreInv, NEW c \in Command, NEW row \in RowType,
           cmd[c].state # "absent",
           cmd' = [cmd EXCEPT ![c] = row],
           SameButStateAndTime(row, cmd[c]),
           row.state # "absent",
           row.state = "executing" <=> cmd[c].state = "executing",
           row.state \in Live => mode[cmd[c].req.device] = "automatic",
           reviews' \in [Command -> 0..MaxReviews],
           UNCHANGED <<mode, health, adapter, pc, claim, effect>>
    PROVE  StoreInv'
<1> USE DEF SameButStateAndTime
<1>1. TypeOK'
  BY Zenon DEF StoreInv, TypeOK
<1>2. /\ cmd'[c] = row
      /\ \A x \in Command : x # c => cmd'[x] = cmd[x]
  BY DEF StoreInv, TypeOK
<1>3. LeaseMatchesAttempt'
  BY <1>2 DEF StoreInv, LeaseMatchesAttempt
<1>4. WellFormed' /\ OneExecutingPerDevice' /\ NoWorkOnRestrictedDevice'
  BY <1>2 DEF StoreInv, TypeOK, WellFormed, OneExecutingPerDevice,
     NoWorkOnRestrictedDevice, Submitted, ClaimType
<1> QED BY <1>1, <1>3, <1>4 DEF StoreInv

\* The operator's decisions and the passage of time.
LEMMA RowStepsKeep ==
    ASSUME StoreInv, NEW c \in Command,
           \/ ResolveManually(c) \/ CancelCommand(c) \/ RetryAfterReview(c)
           \/ RetryDelayElapses(c) \/ LeaseRunsOut(c)
    PROVE  StoreInv'
<1> USE DEF deviceVars, runnerVars, controllerVars
<1>0. /\ cmd \in [Command -> RowType] /\ cmd[c] \in RowType
      /\ reviews \in [Command -> 0..MaxReviews] /\ MaxReviews \in Nat
      /\ cmd[c].state \in Live => mode[cmd[c].req.device] = "automatic"
  BY LimitsAssumption DEF StoreInv, TypeOK, NoWorkOnRestrictedDevice, Submitted, Live
<1>1. CASE ResolveManually(c)
  <2> DEFINE row == [cmd[c] EXCEPT !.state = "resolved_manually"]
  <2>1. /\ row \in RowType /\ cmd' = [cmd EXCEPT ![c] = row]
        /\ SameButStateAndTime(row, cmd[c]) /\ row.state = "resolved_manually"
    BY <1>0, <1>1 DEF ResolveManually, RowType, SameButStateAndTime, CommandState
  <2> HIDE DEF row
  <2> QED BY <1>0, <1>1, <2>1, OneRowKeeps, Zenon DEF ResolveManually, SameButStateAndTime, Live
<1>2. CASE CancelCommand(c)
  <2> DEFINE row == [cmd[c] EXCEPT !.state = "cancelled"]
  <2>1. /\ row \in RowType /\ cmd' = [cmd EXCEPT ![c] = row]
        /\ SameButStateAndTime(row, cmd[c]) /\ row.state = "cancelled"
    BY <1>0, <1>2 DEF CancelCommand, RowType, SameButStateAndTime, CommandState
  <2> HIDE DEF row
  <2> QED BY <1>0, <1>2, <2>1, OneRowKeeps, Zenon DEF CancelCommand, SameButStateAndTime, Live, Waiting
<1>3. CASE RetryAfterReview(c)
  <2> DEFINE row == [cmd[c] EXCEPT !.state = "queued", !.due = TRUE]
  <2>1. /\ row \in RowType /\ cmd' = [cmd EXCEPT ![c] = row]
        /\ SameButStateAndTime(row, cmd[c]) /\ row.state = "queued"
    BY <1>0, <1>3, Zenon DEF RetryAfterReview, RowType, SameButStateAndTime, CommandState
  <2>2. reviews' \in [Command -> 0..MaxReviews]
    BY <1>0, <1>3 DEF RetryAfterReview
  <2> HIDE DEF row
  <2> QED BY <1>0, <1>3, <2>1, <2>2, OneRowKeeps, Zenon DEF RetryAfterReview, SameButStateAndTime, Live
<1>4. CASE RetryDelayElapses(c)
  <2> DEFINE row == [cmd[c] EXCEPT !.due = TRUE]
  <2>1. /\ row \in RowType /\ cmd' = [cmd EXCEPT ![c] = row]
        /\ SameButStateAndTime(row, cmd[c]) /\ row.state = cmd[c].state
    BY <1>0, <1>4, Zenon DEF RetryDelayElapses, RowType, SameButStateAndTime
  <2> HIDE DEF row
  <2>2. /\ row.state # "executing" /\ row.state # "absent" /\ cmd[c].state \in Live
        /\ mode[cmd[c].req.device] = "automatic"
        /\ UNCHANGED <<mode, health, adapter, pc, claim, effect, reviews>>
    BY <1>0, <1>4, <2>1 DEF RetryDelayElapses, Live, Waiting
  <2> QED BY <1>0, <2>1, <2>2, OneRowKeeps, Zenon
<1>5. CASE LeaseRunsOut(c)
  <2> DEFINE row == [cmd[c] EXCEPT !.expired = TRUE]
  <2>1. /\ row \in RowType /\ cmd' = [cmd EXCEPT ![c] = row]
        /\ SameButStateAndTime(row, cmd[c]) /\ row.state = cmd[c].state
    BY <1>0, <1>5, Zenon DEF LeaseRunsOut, RowType, SameButStateAndTime
  <2> HIDE DEF row
  <2>2. /\ row.state = "executing" /\ cmd[c].state = "executing"
        /\ mode[cmd[c].req.device] = "automatic"
        /\ UNCHANGED <<mode, health, adapter, pc, claim, effect, reviews>>
    BY <1>0, <1>5, <2>1 DEF LeaseRunsOut, Live
  <2> QED BY <1>0, <2>1, <2>2, OneRowKeeps, Zenon
<1> QED BY <1>1, <1>2, <1>3, <1>4, <1>5

\* submit keeps it: the row is new, and live only on an automatic device.
LEMMA SubmitKeeps ==
    ASSUME StoreInv, NEW q \in Requests, Submit(q) PROVE StoreInv'
<1> USE DEF Submit, deviceVars, runnerVars, controllerVars
<1> DEFINE row == [AbsentRow EXCEPT !.req = q, !.due = TRUE,
                     !.state = IF mode[q.device] = "automatic" THEN "queued"
                                                               ELSE "manual_review"]
<1>1. /\ q.id \in Command /\ q.device \in Device
      /\ cmd[q.id].state = "absent"
      /\ cmd' = [cmd EXCEPT ![q.id] = row]
  BY RequestsAssumption DEF RequestType, IdentityCandidates, Submitted
<1>2. /\ row \in RowType /\ row.req = q /\ row.attempts = 0 /\ row.probes = 0
      /\ row.lease = NoToken /\ ~row.active
      /\ row.state = IF mode[q.device] = "automatic" THEN "queued" ELSE "manual_review"
  BY Zenon DEF AbsentRow, RowType, CommandState
<1> HIDE DEF row
<1>3. /\ cmd'[q.id] = row
      /\ \A x \in Command : x # q.id => cmd'[x] = cmd[x]
  BY <1>1 DEF StoreInv, TypeOK
<1>4. TypeOK'
  <2>1. cmd' \in [Command -> RowType]
    BY <1>1, <1>2 DEF StoreInv, TypeOK
  <2>2. \A x \in Command : cmd'[x].attempts <= MaxAttempts /\ cmd'[x].probes <= MaxProbes
    <3>1. 0 <= MaxAttempts /\ 0 <= MaxProbes
      BY LimitsAssumption
    <3>2. \A x \in Command : cmd[x].attempts <= MaxAttempts /\ cmd[x].probes <= MaxProbes
      BY DEF StoreInv, TypeOK
    <3> HIDE DEF Submit
    <3> QED BY <1>2, <1>3, <3>1, <3>2
  <2> QED BY <2>1, <2>2 DEF StoreInv, TypeOK
<1> HIDE DEF Submit
<1>5. LeaseMatchesAttempt'
  <2>1. row.state # "executing" /\ row.lease = NoToken /\ ~row.active
    BY <1>2
  <2> QED BY <1>1, <1>3, <2>1 DEF StoreInv, LeaseMatchesAttempt
<1>6. WellFormed'
  <2>1. row.state # "absent" /\ row.req \in Requests
    BY <1>2
  <2>2. \A x \in Command : cmd'[x].state # "absent" => cmd'[x].req \in Requests
    BY <1>3, <2>1 DEF StoreInv, WellFormed
  <2>3. ASSUME NEW x \in Runner, pc'[x] # "idle" PROVE cmd'[claim'[x].cmd].state # "absent"
    <3>1. UNCHANGED <<pc, claim>>
      BY DEF Submit, runnerVars
    <3>2. claim[x].cmd \in Command /\ cmd[claim[x].cmd].state # "absent"
      BY <2>3, <3>1 DEF StoreInv, TypeOK, WellFormed, ClaimType
    <3> QED BY <1>3, <2>1, <3>1, <3>2
  <2> QED BY <2>2, <2>3 DEF WellFormed
<1>7. OneExecutingPerDevice'
  <2>1. row.state # "executing"
    BY <1>2
  <2> QED BY <1>1, <1>3, <2>1 DEF StoreInv, OneExecutingPerDevice, Submitted
<1>8. NoWorkOnRestrictedDevice'
  <2>1. row.state \in Live => mode[row.req.device] = "automatic"
    BY <1>2 DEF Live
  <2>2. UNCHANGED mode
    BY DEF Submit, deviceVars
  <2>3. ASSUME NEW x \in Command, cmd'[x].state # "absent", cmd'[x].state \in Live
        PROVE  mode[cmd'[x].req.device] = "automatic"
    <3>1. CASE x = q.id
      BY <1>3, <2>1, <2>3, <3>1
    <3>2. CASE x # q.id
      BY <1>3, <2>3, <3>2 DEF StoreInv, NoWorkOnRestrictedDevice, Submitted
    <3> QED BY <3>1, <3>2
  <2> QED BY <2>2, <2>3 DEF NoWorkOnRestrictedDevice, Submitted
<1> QED BY <1>4, <1>5, <1>6, <1>7, <1>8 DEF StoreInv

\* recover_expired_leases keeps it, with the fallback of the devices it
\* escalates.
LEMMA RecoverExpiredLeasesKeeps ==
    ASSUME StoreInv, NEW r \in Runner, RecoverExpiredLeases(r) PROVE StoreInv'
<1> USE DEF RecoverExpiredLeases, runnerVars, controllerVars
<1>1. \A c \in Command : cmd[c] \in RowType /\ cmd'[c] = RecoverRow(c)
  BY Zenon DEF StoreInv, TypeOK
<1>2. FallenBack \subseteq Device
  BY RequestsAssumption, Zenon DEF FallenBack, Expired, StoreInv, WellFormed, RequestType
<1>3. ASSUME NEW c \in Command
      PROVE  /\ cmd'[c] \in RowType
             /\ cmd'[c].req = cmd[c].req
             /\ cmd'[c].attempts = cmd[c].attempts /\ cmd'[c].probes = cmd[c].probes
             /\ cmd'[c].state = "absent" <=> cmd[c].state = "absent"
             /\ cmd'[c].state = "executing" => cmd[c].state = "executing"
             /\ cmd'[c].state \in Live => cmd[c].state \in Live
             /\ cmd[c].state # "absent" /\ cmd[c].req.device \in FallenBack
                  => cmd'[c].state \notin Live
             /\ cmd'[c].state = "executing" <=> cmd'[c].lease # NoToken
             /\ cmd'[c].state = "executing" <=> cmd'[c].active
  <2> DEFINE row == IF c \in Expired THEN Unleased(cmd[c], ExpiryTarget(cmd[c].req.policy))
                                     ELSE cmd[c]
  <2>1. /\ row \in RowType /\ row.req = cmd[c].req
        /\ row.attempts = cmd[c].attempts /\ row.probes = cmd[c].probes
        /\ row.state = "absent" <=> cmd[c].state = "absent"
        /\ row.state = "executing" => cmd[c].state = "executing"
        /\ row.state \in Live => cmd[c].state \in Live
        /\ row.state = "executing" <=> row.lease # NoToken
        /\ row.state = "executing" <=> row.active
    <3>1. CASE c \in Expired
      <4>1. cmd[c].state = "executing" /\ cmd[c].req.policy \in RecoveryPolicy
        BY <3>1, RequestsAssumption DEF Expired, StoreInv, WellFormed, RequestType
      <4>2. ExpiryTarget(cmd[c].req.policy) \in {"retry_wait", "recovery_wait", "manual_review"}
        BY <4>1 DEF ExpiryTarget, RecoveryPolicy
      <4>3. PICK to \in {"retry_wait", "recovery_wait", "manual_review"} :
              row = Unleased(cmd[c], to)
        BY <3>1, <4>2, Zenon
      <4>4. /\ row \in RowType /\ row.req = cmd[c].req /\ row.attempts = cmd[c].attempts
            /\ row.probes = cmd[c].probes /\ row.lease = NoToken /\ ~row.active /\ row.state = to
        <5>1. to \in CommandState /\ cmd[c] \in RowType
          BY <1>1, Zenon DEF CommandState
        <5> QED BY <4>3, <5>1, UnleasedRow
      <4> QED BY <4>1, <4>4, SMTT(60) DEF Live
    <3>2. CASE c \notin Expired
      BY <1>1, <3>2, Zenon DEF StoreInv, LeaseMatchesAttempt
    <3> QED BY <3>1, <3>2, ZenonT(60)
  <2>2. cmd'[c] = IF cmd[c].state # "absent" /\ cmd[c].req.device \in FallenBack
                  THEN QuarantineRow(row) ELSE row
    BY <1>1 DEF RecoverRow
  <2> HIDE DEF row
  <2> QED BY <2>1, <2>2, QuarantinedRow DEF Live
<1>4. TypeOK'
  <2>1. mode' \in [Device -> ControlMode \cup {"unregistered"}]
    BY DEF StoreInv, TypeOK, ControlMode
  <2>2. cmd' \in [Command -> RowType]
    BY <1>3, Zenon
  <2>3. \A c \in Command : cmd'[c].attempts <= MaxAttempts /\ cmd'[c].probes <= MaxProbes
    BY <1>3, Zenon DEF StoreInv, TypeOK
  <2> QED BY <2>1, <2>2, <2>3 DEF StoreInv, TypeOK
<1>5. LeaseMatchesAttempt'
  BY <1>3, Zenon DEF LeaseMatchesAttempt
<1>6. WellFormed'
  BY <1>3, SameRowsWellFormed, Zenon DEF StoreInv
<1>7. OneExecutingPerDevice'
  BY <1>3 DEF StoreInv, OneExecutingPerDevice, Submitted
<1>8. NoWorkOnRestrictedDevice'
  <2> SUFFICES ASSUME NEW c \in Command, cmd'[c].state # "absent", cmd'[c].state \in Live
               PROVE  mode'[cmd'[c].req.device] = "automatic"
    BY Zenon DEF NoWorkOnRestrictedDevice, Submitted
  <2>1. mode[cmd[c].req.device] = "automatic" /\ cmd[c].req.device \notin FallenBack
    BY <1>3, Zenon DEF StoreInv, NoWorkOnRestrictedDevice, Submitted
  <2>2. cmd[c].req.device \in Device
    BY <1>3, RequestsAssumption DEF StoreInv, WellFormed, RequestType
  <2> QED BY <1>3, <2>1, <2>2
<1> QED BY <1>4, <1>5, <1>6, <1>7, <1>8 DEF StoreInv

\* claim_next keeps it: the device executes nothing else.
LEMMA ClaimNextKeeps ==
    ASSUME StoreInv, NEW r \in Runner, NEW c \in Command, ClaimNext(r, c) PROVE StoreInv'
<1> DEFINE kind == IF cmd[c].state = "recovery_wait" THEN "recovery_probe" ELSE "execute"
           attempt == CountAttempt(cmd[c].attempts, kind)
           probes == IF kind = "recovery_probe" THEN CountProbe(cmd[c].probes)
                                                ELSE cmd[c].probes
           row(t) == [cmd[c] EXCEPT !.state = "executing", !.attempts = attempt,
                        !.probes = probes, !.lease = t, !.expired = FALSE, !.active = TRUE]
<1>1. PICK t \in Token :
        /\ cmd' = [cmd EXCEPT ![c] = row(t)]
        /\ claim' = [claim EXCEPT ![r] = [cmd |-> c, token |-> t, kind |-> kind,
                        attempt |-> attempt, probes |-> probes, verdict |-> "none"]]
  BY Zenon DEF ClaimNext
<1>2. /\ pc' = [pc EXCEPT ![r] = "claimed"] /\ Claimable(c)
      /\ UNCHANGED <<mode, health, adapter, effect, reviews>>
  BY DEF ClaimNext, deviceVars, controllerVars
<1>3. cmd[c] \in RowType /\ cmd[c].attempts <= MaxAttempts /\ cmd[c].probes <= MaxProbes
  BY Zenon DEF StoreInv, TypeOK
<1>4. /\ kind \in ClaimKind
      /\ attempt \in Nat /\ attempt <= MaxAttempts
      /\ probes \in Nat /\ probes <= MaxProbes
  BY <1>2, <1>3, LimitsAssumption
  DEF RowType, Claimable, CountAttempt, CountProbe, ClaimKind
<1> HIDE DEF kind, attempt, probes
<1>5. /\ row(t) \in RowType /\ row(t).state = "executing" /\ row(t).req = cmd[c].req
      /\ row(t).lease = t /\ t # NoToken /\ row(t).active
      /\ row(t).attempts = attempt /\ row(t).probes = probes
  BY <1>3, <1>4, TokenAssumption, Zenon DEF RowType, CommandState
<1> HIDE DEF row
<1>6. /\ cmd'[c] = row(t)
      /\ \A x \in Command : x # c => cmd'[x] = cmd[x]
  BY <1>1, SMTT(60) DEF StoreInv, TypeOK
<1>7. TypeOK'
  <2>1. cmd' \in [Command -> RowType]
    BY <1>1, <1>5 DEF StoreInv, TypeOK
  <2>2. claim' \in [Runner -> ClaimType]
    BY <1>1, <1>4 DEF StoreInv, TypeOK, ClaimType, Verdict
  <2>3. \A x \in Command : cmd'[x].attempts <= MaxAttempts /\ cmd'[x].probes <= MaxProbes
    BY <1>4, <1>5, <1>6 DEF StoreInv, TypeOK
  <2>4. pc' \in [Runner -> Phase]
    BY <1>2, Zenon DEF StoreInv, TypeOK, Phase
  <2> QED BY <1>2, <2>1, <2>2, <2>3, <2>4 DEF StoreInv, TypeOK
<1>8. cmd[c].state \in Waiting /\ c \in Submitted /\ mode[cmd[c].req.device] = "automatic"
  BY <1>2 DEF Claimable, Submitted, Waiting, Live
<1>9. WellFormed'
  <2>1. \A x \in Runner : x # r => pc'[x] = pc[x] /\ claim'[x] = claim[x]
    BY <1>1, <1>2, Zenon DEF StoreInv, TypeOK
  <2>2. claim'[r].cmd = c
    BY <1>1, Zenon DEF StoreInv, TypeOK
  <2>3. \A x \in Command : /\ cmd'[x].req = cmd[x].req
                           /\ cmd'[x].state = "absent" <=> cmd[x].state = "absent"
    BY <1>5, <1>6, <1>8 DEF Submitted
  <2>4. \A x \in Runner : claim[x].cmd \in Command
    BY DEF StoreInv, TypeOK, ClaimType
  <2>5. ASSUME NEW x \in Runner, pc'[x] # "idle" PROVE cmd'[claim'[x].cmd].state # "absent"
    <3>1. CASE x = r
      BY <1>5, <1>6, <2>2, <3>1, Zenon
    <3>2. CASE x # r
      BY <2>1, <2>3, <2>4, <2>5, <3>2, Zenon DEF StoreInv, WellFormed
    <3> QED BY <3>1, <3>2, Zenon
  <2>6. \A x \in Command : cmd'[x].state # "absent" => cmd'[x].req \in Requests
    BY <2>3, Zenon DEF StoreInv, WellFormed
  <2> QED BY <2>5, <2>6, Zenon DEF WellFormed
<1>10. LeaseMatchesAttempt'
  BY <1>5, <1>6, Zenon DEF StoreInv, LeaseMatchesAttempt
<1>11. OneExecutingPerDevice'
  <2>1. \A x \in Submitted : cmd[x].req.device = cmd[c].req.device => cmd[x].state # "executing"
    BY <1>2, Zenon DEF Claimable, OnDevice, Submitted
  <2>2. \A x \in Command : /\ cmd'[x].req = cmd[x].req
                           /\ cmd'[x].state = "executing" <=> x = c \/ cmd[x].state = "executing"
                           /\ cmd'[x].state # "absent" <=> cmd[x].state # "absent"
    BY <1>5, <1>6, <1>8, Zenon DEF Submitted
  <2>3. c \in Submitted
    BY <1>8, Zenon
  <2> QED BY <2>1, <2>2, <2>3 DEF StoreInv, OneExecutingPerDevice, Submitted
<1>12. NoWorkOnRestrictedDevice'
  BY <1>2, <1>5, <1>6, <1>8 DEF StoreInv, NoWorkOnRestrictedDevice, Submitted, Live
<1> QED BY <1>7, <1>9, <1>10, <1>11, <1>12, Zenon DEF StoreInv

\* Where the outcome of a claim may take its command: never back to executing,
\* and with manual fallback exactly to review.
LEMMA CompletionTargets ==
    ASSUME NEW cl \in ClaimType, NEW policy \in RecoveryPolicy
    PROVE  LET done == CompletionOf(cl, policy)
           IN  /\ done.target \in CommandState \ {"executing"}
               /\ done.due \in BOOLEAN /\ done.fallback \in BOOLEAN
               /\ done.fallback => done.target = "manual_review"
<1>1. /\ ExpiryTarget(policy) \in {"retry_wait", "recovery_wait", "manual_review"}
      /\ policy # "manual_review" => ExpiryTarget(policy) # "manual_review"
  BY Zenon DEF ExpiryTarget, RecoveryPolicy
<1> QED BY <1>1 DEF CompletionOf, CompleteSuccess, RetryableFailure, PermanentOutcome,
  PermanentFailure, AmbiguousFailure, DeferRecovery, RecoveryNotFound, RequireManualReview,
  Fallback, Completion, CommandState

\* finish_claim keeps it, whatever the completion.
LEMMA FinishClaimKeeps ==
    ASSUME StoreInv, NEW r \in Runner, FinishClaim(r) PROVE StoreInv'
<1> DEFINE c == claim[r].cmd
           d == Request(r).device
           done == CompletionOf(claim[r], Request(r).policy)
           finished == [Unleased(cmd[c], done.target) EXCEPT !.due = done.due]
<1>1. /\ c \in Command /\ cmd[c] \in RowType /\ cmd[c].state = "executing"
      /\ claim[r] \in ClaimType /\ cmd[c].req \in Requests
      /\ d = cmd[c].req.device /\ d \in Device /\ Request(r).policy \in RecoveryPolicy
  <2>1. claim[r] \in ClaimType /\ c \in Command
    BY DEF StoreInv, TypeOK, ClaimType
  <2>2. cmd[c] \in RowType /\ cmd[c].state = "executing" /\ cmd[c].req \in Requests
    BY <2>1, Zenon DEF FinishClaim, HoldsLease, StoreInv, TypeOK, WellFormed
  <2> QED BY <2>1, <2>2, RequestsAssumption DEF Request, RequestType
<1>2. /\ done.target \in CommandState \ {"executing"}
      /\ done.due \in BOOLEAN /\ done.fallback \in BOOLEAN
      /\ done.fallback => done.target = "manual_review"
  BY <1>1, CompletionTargets
<1>3. /\ cmd' = [x \in Command |->
                   IF x = c THEN finished
                   ELSE IF done.fallback /\ x \in OnDevice(d) THEN QuarantineRow(cmd[x])
                   ELSE cmd[x]]
      /\ mode' = IF done.fallback THEN [mode EXCEPT ![d] = "manual_fallback"] ELSE mode
      /\ Released(r) /\ UNCHANGED <<health, adapter, effect, reviews>>
  BY Zenon DEF FinishClaim, controllerVars
<1> HIDE DEF done
<1>4. /\ finished \in RowType /\ finished.state = done.target /\ finished.req = cmd[c].req
      /\ finished.attempts = cmd[c].attempts /\ finished.probes = cmd[c].probes
      /\ finished.lease = NoToken /\ ~finished.active
  BY <1>1, <1>2, FinishedRow
<1> HIDE DEF finished, c, d
<1>5. ASSUME NEW x \in Command
      PROVE  /\ cmd'[x] \in RowType
             /\ cmd'[x].req = cmd[x].req
             /\ cmd'[x].attempts = cmd[x].attempts /\ cmd'[x].probes = cmd[x].probes
             /\ cmd'[x].state = "absent" <=> cmd[x].state = "absent"
             /\ cmd'[x].state = "executing" => cmd[x].state = "executing"
             /\ cmd'[x].state \in Live => cmd[x].state \in Live
             /\ done.fallback /\ x \in OnDevice(d) => cmd'[x].state \notin Live
             /\ cmd'[x].state = "executing" <=> cmd'[x].lease # NoToken
             /\ cmd'[x].state = "executing" <=> cmd'[x].active
  <2>1. CASE x = c
    BY <1>1, <1>2, <1>3, <1>4, <2>1, Zenon DEF CommandState, Live
  <2>2. CASE x # c /\ done.fallback /\ x \in OnDevice(d)
    <3>1. cmd'[x] = QuarantineRow(cmd[x]) /\ cmd[x] \in RowType
      BY <1>3, <2>2 DEF StoreInv, TypeOK
    <3>2. /\ cmd[x].state = "executing" <=> cmd[x].lease # NoToken
          /\ cmd[x].state = "executing" <=> cmd[x].active
      BY Zenon DEF StoreInv, LeaseMatchesAttempt
    <3> QED BY <3>1, <3>2, QuarantinedRow DEF Live
  <2>3. CASE x # c /\ ~(done.fallback /\ x \in OnDevice(d))
    BY <1>3, <2>3, Zenon DEF StoreInv, TypeOK, LeaseMatchesAttempt
  <2> QED BY <2>1, <2>2, <2>3, Zenon
<1>6. TypeOK'
  <2>1. mode' \in [Device -> ControlMode \cup {"unregistered"}]
    BY <1>3, Zenon DEF StoreInv, TypeOK, ControlMode
  <2>2. cmd' \in [Command -> RowType]
    BY <1>3, <1>5
  <2>3. \A x \in Command : cmd'[x].attempts <= MaxAttempts /\ cmd'[x].probes <= MaxProbes
    BY <1>5 DEF StoreInv, TypeOK
  <2>4. pc' \in [Runner -> Phase] /\ claim' \in [Runner -> ClaimType]
    <3>1. NoClaim \in ClaimType
      BY CommandAssumption, Zenon DEF NoClaim, ClaimType, ClaimKind, Verdict
    <3> QED BY <1>3, <3>1 DEF StoreInv, TypeOK, Released, Phase
  <2> QED BY <1>3, <2>1, <2>2, <2>3, <2>4, Zenon DEF StoreInv, TypeOK
<1>7. LeaseMatchesAttempt'
  BY <1>5, Zenon DEF LeaseMatchesAttempt
<1>8. WellFormed'
  <2>1. \A x \in Runner : pc'[x] # "idle" => pc[x] # "idle" /\ claim'[x] = claim[x]
    BY <1>3 DEF StoreInv, TypeOK, Released
  <2> QED BY <1>5, <2>1, SameRowsWellFormed, Zenon DEF StoreInv
<1>9. OneExecutingPerDevice'
  BY <1>5 DEF StoreInv, OneExecutingPerDevice, Submitted
<1>10. NoWorkOnRestrictedDevice'
  <2> SUFFICES ASSUME NEW x \in Command, cmd'[x].state # "absent", cmd'[x].state \in Live
               PROVE  mode'[cmd'[x].req.device] = "automatic"
    BY DEF NoWorkOnRestrictedDevice, Submitted
  <2>1. /\ x \in Submitted /\ mode[cmd[x].req.device] = "automatic"
        /\ cmd'[x].req = cmd[x].req
    BY <1>5 DEF StoreInv, NoWorkOnRestrictedDevice, Submitted
  <2>2. done.fallback => cmd[x].req.device # d
    BY <1>5, <2>1 DEF OnDevice
  <2> QED BY <1>3, <2>1, <2>2 DEF StoreInv, TypeOK
<1> QED BY <1>6, <1>7, <1>8, <1>9, <1>10 DEF StoreInv

\* Every step of the store, the runners and the environment keeps the
\* invariant.
LEMMA StoreStep == StoreInv /\ [Next]_vars => StoreInv'
<1> SUFFICES ASSUME StoreInv, [Next]_vars PROVE StoreInv'
  OBVIOUS
<1>1. CASE Operator
  BY <1>1, RegisterDeviceKeeps, ChangeControlModeKeeps, RowStepsKeep, Zenon DEF Operator
<1>2. CASE Environment
  <2>1. ASSUME NEW d \in Device, NEW capabilities \in Adapters \cup {NoAdapter},
               Boot(d, capabilities)
        PROVE  StoreInv'
    <3>1. TypeOK' /\ WellFormed' /\ UNCHANGED <<mode, cmd>>
      BY <2>1 DEF Boot, StoreInv, TypeOK, WellFormed, deviceVars, runnerVars, controllerVars
    <3> QED BY <3>1, TablesUnchanged, Zenon
  <2>2. ASSUME NEW d \in Device, NEW h \in Health, RefreshHeartbeat(d, h) PROVE StoreInv'
    <3>1. TypeOK' /\ WellFormed' /\ UNCHANGED <<mode, cmd>>
      BY <2>2 DEF RefreshHeartbeat, StoreInv, TypeOK, WellFormed, runnerVars, controllerVars
    <3> QED BY <3>1, TablesUnchanged, Zenon
  <2>3. ASSUME NEW r \in Runner, RunFails(r) PROVE StoreInv'
    BY <2>3, ReleasedKeeps, Zenon DEF RunFails, deviceVars, controllerVars
  <2> QED BY <1>2, <2>1, <2>2, <2>3, SubmitKeeps, RowStepsKeep DEF Environment
<1>3. ASSUME NEW r \in Runner, Step(r) PROVE StoreInv'
  <2>1. CASE LeaseMismatch(r)
    BY <2>1, ReleasedKeeps, Zenon DEF LeaseMismatch, deviceVars, controllerVars
  <2> QED BY <1>3, <2>1, RecoverExpiredLeasesKeeps, ClaimNextKeeps, ProcessClaimKeeps,
          FinishClaimKeeps, Zenon DEF Step
<1>4. CASE UNCHANGED vars
  BY <1>4 DEF vars, StoreInv, TypeOK, WellFormed, LeaseMatchesAttempt,
     OneExecutingPerDevice, NoWorkOnRestrictedDevice, Submitted
<1> QED BY <1>1, <1>2, <1>3, <1>4 DEF Next

\* In every reachable state of the store, for any number of runners: rows are
\* well typed and within budget, a command executes exactly while it is leased
\* and has an active attempt, at most one per device, and a device that is not in
\* automatic mode has no live command.
THEOREM StoreCorrect == Spec => []StoreInv
BY StoreInit, StoreStep, PTL DEF Spec

\* The quarantine promise of change_control_mode and force_manual_fallback.
THEOREM RestrictedDeviceIsQuiet == Spec => []NoWorkOnRestrictedDevice
<1>1. StoreInv => NoWorkOnRestrictedDevice
  BY DEF StoreInv
<1> QED BY <1>1, StoreCorrect, PTL

\* The consistency of edge_commands and edge_command_attempts that lets every
\* lease be recovered and every device be restricted.
THEOREM LeasesMatchAttempts == Spec => []LeaseMatchesAttempt
<1>1. StoreInv => LeaseMatchesAttempt
  BY DEF StoreInv
<1> QED BY <1>1, StoreCorrect, PTL

\* claim_next, recovery and operators never leave two commands of one device
\* executing, so the unique index on executing commands never fires.
THEOREM DevicesRunOne == Spec => []OneExecutingPerDevice
<1>1. StoreInv => OneExecutingPerDevice
  BY DEF StoreInv
<1> QED BY <1>1, StoreCorrect, PTL

\* Every row keeps its type, and no command exceeds the attempts or the probes
\* EngineConfig allows it (claim_next, defer_recovery, recovery_not_found).
THEOREM BudgetsHold == Spec => []TypeOK
<1>1. StoreInv => TypeOK
  BY Zenon DEF StoreInv
<1> QED BY <1>1, StoreCorrect, PTL

-----------------------------------------------------------------------------
(* Leases and budgets, for any number of runners *)

\* No two runners hold the same token.
TokensDistinct ==
    \A r, s \in Runner : r # s /\ claim[r].token = claim[s].token => claim[r].token = NoToken

\* A runner that still holds its lease counts the attempts as the row does.
ClaimMatchesRow ==
    \A r \in Runner : pc[r] # "idle" /\ HoldsLease(r) =>
                        cmd[claim[r].cmd].attempts = claim[r].attempt

LeaseInv == TokensDistinct /\ ClaimMatchesRow /\ StrandedByResendOnly

\* What every transaction but claim_next does to a row: it neither leases it nor
\* counts an attempt, and puts it in line without an attempt left only for an
\* operator or a device that deduplicates.
NotLeased(c) ==
    /\ cmd'[c].state = "executing" => /\ cmd[c].state = "executing"
                                      /\ cmd'[c].lease = cmd[c].lease
                                      /\ cmd'[c].attempts = cmd[c].attempts
    /\ reviews'[c] >= reviews[c]
    /\ \/ ~Stranded(c)'
       \/ /\ Stranded(c) /\ cmd'[c].state = cmd[c].state /\ cmd'[c].req = cmd[c].req
       \/ cmd'[c].state = "queued" /\ reviews'[c] > 0
       \/ cmd'[c].state = "retry_wait" /\ cmd'[c].req.policy = "device_deduplicated_replay"

\* A runner goes on with its claim or drops it.
GoesOn(r) ==
    /\ claim'[r].token \in {claim[r].token, NoToken}
    /\ pc'[r] # "idle" => /\ pc[r] # "idle" /\ claim'[r].cmd = claim[r].cmd
                          /\ claim'[r].token = claim[r].token
                          /\ claim'[r].attempt = claim[r].attempt

\* Steps that lease nothing keep leases and budgets in order.
LEMMA NotLeasedKeeps ==
    ASSUME StoreInv, LeaseInv, StoreInv',
           \A c \in Command : NotLeased(c), \A r \in Runner : GoesOn(r)
    PROVE  LeaseInv'
<1>1. TokensDistinct'
  BY DEF LeaseInv, TokensDistinct, GoesOn
<1>2. ASSUME NEW r \in Runner, pc'[r] # "idle", HoldsLease(r)'
      PROVE  cmd'[claim'[r].cmd].attempts = claim'[r].attempt
  <2>1. /\ pc[r] # "idle" /\ claim'[r].cmd = claim[r].cmd /\ claim'[r].token = claim[r].token
        /\ claim'[r].attempt = claim[r].attempt /\ claim[r].cmd \in Command
    BY <1>2, Zenon DEF GoesOn, StoreInv, TypeOK, ClaimType
  <2>2. /\ cmd'[claim[r].cmd].state = "executing"
        /\ cmd'[claim[r].cmd].lease = claim[r].token
    BY <1>2, <2>1, Zenon DEF HoldsLease
  <2>3. /\ cmd[claim[r].cmd].state = "executing"
        /\ cmd[claim[r].cmd].lease = claim[r].token
        /\ cmd'[claim[r].cmd].attempts = cmd[claim[r].cmd].attempts
    BY <2>1, <2>2, Zenon DEF NotLeased
  <2>4. cmd[claim[r].cmd].active
    BY <2>1, <2>3, Zenon DEF StoreInv, LeaseMatchesAttempt
  <2> QED BY <2>1, <2>3, <2>4, Zenon DEF LeaseInv, ClaimMatchesRow, HoldsLease
<1>3. ASSUME NEW c \in Command, Stranded(c)'
      PROVE  \/ cmd'[c].state = "queued" /\ reviews'[c] > 0
             \/ cmd'[c].state = "retry_wait" /\ cmd'[c].req.policy = "device_deduplicated_replay"
  <2>1. reviews[c] \in Nat /\ reviews'[c] \in Nat /\ reviews'[c] >= reviews[c]
    BY LimitsAssumption DEF StoreInv, TypeOK, NotLeased
  <2>2. CASE Stranded(c) /\ cmd'[c].state = cmd[c].state /\ cmd'[c].req = cmd[c].req
    BY <2>1, <2>2 DEF LeaseInv, StrandedByResendOnly
  <2> QED BY <1>3, <2>2, Zenon DEF NotLeased
<1> QED BY <1>1, <1>2, <1>3, Zenon DEF LeaseInv, ClaimMatchesRow, StrandedByResendOnly

\* A row that keeps its state, lease, request and attempts.
LEMMA SameRow ==
    ASSUME StoreInv, NEW c \in Command, SameButStateAndTime(cmd'[c], cmd[c]),
           cmd'[c].state = cmd[c].state, reviews'[c] = reviews[c]
    PROVE  NotLeased(c)
<1>1. reviews'[c] >= reviews[c]
  BY LimitsAssumption DEF StoreInv, TypeOK
<1> QED BY <1>1, Zenon DEF NotLeased, SameButStateAndTime, Stranded

\* A row that leaves automation.
LEMMA OutOfLine ==
    ASSUME StoreInv, NEW c \in Command,
           cmd'[c].state \notin {"executing", "queued", "retry_wait"}, reviews'[c] = reviews[c]
    PROVE  NotLeased(c)
<1>1. reviews'[c] >= reviews[c]
  BY LimitsAssumption DEF StoreInv, TypeOK
<1> QED BY <1>1, Zenon DEF NotLeased, Stranded

\* The quarantine of quarantine_device_commands.
LEMMA QuarantineNotLeased ==
    ASSUME StoreInv, NEW c \in Command, cmd'[c] \in {cmd[c], QuarantineRow(cmd[c])},
           reviews'[c] = reviews[c]
    PROVE  NotLeased(c)
<1>0. cmd[c] \in RowType
  BY Zenon DEF StoreInv, TypeOK
<1>1. CASE cmd'[c] = cmd[c]
  BY <1>1, SameRow, Zenon DEF SameButStateAndTime
<1>2. CASE cmd'[c] = QuarantineRow(cmd[c]) /\ cmd[c].state \in Live
  BY <1>0, <1>2, QuarantinedRow, OutOfLine, Zenon
<1>3. CASE cmd'[c] = QuarantineRow(cmd[c]) /\ cmd[c].state \notin Live
  BY <1>0, <1>3, QuarantinedRow, SameRow, Zenon DEF SameButStateAndTime
<1> QED BY <1>1, <1>2, <1>3, Zenon

\* No claim is held initially.
LEMMA LeaseInit == Init => LeaseInv
<1> SUFFICES ASSUME Init PROVE LeaseInv
  OBVIOUS
<1>1. \A r \in Runner : claim[r].token = NoToken /\ pc[r] = "idle"
  BY Zenon DEF Init, NoClaim
<1>2. \A c \in Command : ~Stranded(c)
  BY DEF Init, Stranded, AbsentRow
<1> QED BY <1>1, <1>2, Zenon DEF LeaseInv, TokensDistinct, ClaimMatchesRow, StrandedByResendOnly

\* The operator's commands lease nothing and strand only by a retry.
LEMMA OperatorKeepsLease ==
    ASSUME StoreInv, LeaseInv, StoreInv', Operator PROVE LeaseInv'
<1> USE DEF deviceVars, runnerVars, controllerVars
<1>0. /\ \A c \in Command : cmd[c] \in RowType /\ reviews[c] \in Nat
      /\ cmd \in [Command -> RowType] /\ reviews \in [Command -> Nat]
  BY LimitsAssumption DEF StoreInv, TypeOK
<1>1. \A r \in Runner : GoesOn(r)
  BY Zenon DEF Operator, RegisterDevice, ChangeControlMode, ResolveManually, CancelCommand,
     RetryAfterReview, GoesOn
<1>2. ASSUME NEW d \in Device, RegisterDevice(d) PROVE LeaseInv'
  <2>1. \A c \in Command : NotLeased(c)
    BY <1>2, SameRow DEF RegisterDevice, SameButStateAndTime
  <2> QED BY <1>1, <2>1, NotLeasedKeeps
<1>3. ASSUME NEW d \in Device, NEW target \in ControlMode, ChangeControlMode(d, target)
      PROVE  LeaseInv'
  <2>1. \A c \in Command : cmd'[c] \in {cmd[c], QuarantineRow(cmd[c])} /\ reviews'[c] = reviews[c]
    BY <1>3 DEF ChangeControlMode
  <2>2. \A c \in Command : NotLeased(c)
    BY <2>1, QuarantineNotLeased
  <2> QED BY <1>1, <2>2, NotLeasedKeeps
<1>4. ASSUME NEW c \in Command, ResolveManually(c) \/ CancelCommand(c) PROVE LeaseInv'
  <2>1. /\ cmd'[c].state \in {"resolved_manually", "cancelled"} /\ reviews' = reviews
        /\ \A x \in Command : x # c => cmd'[x] = cmd[x]
    BY <1>0, <1>4 DEF ResolveManually, CancelCommand, RowType
  <2>2. ASSUME NEW x \in Command PROVE NotLeased(x)
    <3>1. CASE x = c
      BY <2>1, <3>1, OutOfLine, Zenon
    <3>2. CASE x # c
      BY <2>1, <3>2, SameRow DEF SameButStateAndTime
    <3> QED BY <3>1, <3>2
  <2> QED BY <1>1, <2>2, NotLeasedKeeps
<1>5. ASSUME NEW c \in Command, RetryAfterReview(c) PROVE LeaseInv'
  <2>1. /\ cmd'[c].state = "queued" /\ reviews'[c] = reviews[c] + 1
        /\ \A x \in Command : x # c => cmd'[x] = cmd[x] /\ reviews'[x] = reviews[x]
    BY <1>0, <1>5, Zenon DEF RetryAfterReview, RowType
  <2>2. ASSUME NEW x \in Command PROVE NotLeased(x)
    <3>1. CASE x = c
      BY <1>0, <2>1, <3>1 DEF NotLeased
    <3>2. CASE x # c
      BY <2>1, <3>2, SameRow, Zenon DEF SameButStateAndTime
    <3> QED BY <3>1, <3>2
  <2> QED BY <1>1, <2>2, NotLeasedKeeps
<1> QED BY <1>2, <1>3, <1>4, <1>5, Zenon DEF Operator

\* Submissions, clocks and restarts lease nothing.
LEMMA EnvironmentKeepsLease ==
    ASSUME StoreInv, LeaseInv, StoreInv', Environment PROVE LeaseInv'
<1> USE DEF deviceVars, runnerVars, controllerVars
<1>0. /\ \A c \in Command : cmd[c] \in RowType /\ reviews[c] \in Nat
      /\ cmd \in [Command -> RowType] /\ reviews \in [Command -> Nat]
      /\ pc \in [Runner -> Phase] /\ claim \in [Runner -> ClaimType]
  BY LimitsAssumption DEF StoreInv, TypeOK
<1>1. \A r \in Runner : GoesOn(r)
  <2>1. ASSUME NEW s \in Runner, RunFails(s) PROVE \A r \in Runner : GoesOn(r)
    <3>1. /\ pc'[s] = "idle" /\ claim'[s].token = NoToken
          /\ \A r \in Runner : r # s => pc'[r] = pc[r] /\ claim'[r] = claim[r]
      BY <1>0, <2>1, Zenon DEF RunFails, Released, NoClaim
    <3> QED BY <3>1, Zenon DEF GoesOn
  <2> QED BY <2>1, Zenon DEF Environment, Submit, RetryDelayElapses, LeaseRunsOut, Boot,
             RefreshHeartbeat, GoesOn
<1>2. ASSUME NEW q \in Requests, Submit(q) PROVE LeaseInv'
  <2>1. /\ q.id \in Command /\ reviews' = reviews
        /\ cmd'[q.id].state \in {"queued", "manual_review"} /\ cmd'[q.id].attempts = 0
        /\ \A x \in Command : x # q.id => cmd'[x] = cmd[x]
    BY <1>0, <1>2, RequestsAssumption DEF Submit, RequestType, AbsentRow
  <2>2. ASSUME NEW x \in Command PROVE NotLeased(x)
    <3>1. CASE x = q.id
      <4>1. ~Stranded(x)'
        BY <2>1, <3>1, LimitsAssumption DEF Stranded
      <4> QED BY <1>0, <2>1, <3>1, <4>1 DEF NotLeased
    <3>2. CASE x # q.id
      BY <2>1, <3>2, SameRow, Zenon DEF SameButStateAndTime
    <3> QED BY <3>1, <3>2, Zenon
  <2> QED BY <1>1, <2>2, NotLeasedKeeps
<1>3. ASSUME NEW c \in Command, RetryDelayElapses(c) \/ LeaseRunsOut(c) PROVE LeaseInv'
  <2>1. ASSUME NEW x \in Command
        PROVE  /\ SameButStateAndTime(cmd'[x], cmd[x]) /\ cmd'[x].state = cmd[x].state
               /\ reviews'[x] = reviews[x]
    BY <1>0, <1>3 DEF RetryDelayElapses, LeaseRunsOut, RowType, SameButStateAndTime
  <2> QED BY <1>1, <2>1, SameRow, NotLeasedKeeps
<1>4. ASSUME UNCHANGED <<cmd, reviews>> PROVE LeaseInv'
  <2>1. \A c \in Command : NotLeased(c)
    BY <1>4, SameRow, Zenon DEF SameButStateAndTime
  <2> QED BY <1>1, <2>1, NotLeasedKeeps, Zenon
<1>5. ASSUME NEW d \in Device, NEW capabilities \in Adapters \cup {NoAdapter},
             Boot(d, capabilities)
      PROVE  LeaseInv'
  BY <1>4, <1>5, Zenon DEF Boot
<1>6. ASSUME NEW d \in Device, NEW h \in Health, RefreshHeartbeat(d, h) PROVE LeaseInv'
  BY <1>4, <1>6 DEF RefreshHeartbeat
<1>7. ASSUME NEW r \in Runner, RunFails(r) PROVE LeaseInv'
  BY <1>4, <1>7 DEF RunFails
<1> QED BY <1>2, <1>3, <1>5, <1>6, <1>7, Zenon DEF Environment

\* recover_expired_leases only takes leases away.
LEMMA RecoveryKeepsLease ==
    ASSUME StoreInv, LeaseInv, StoreInv', NEW r \in Runner, RecoverExpiredLeases(r)
    PROVE  LeaseInv'
<1>1. \A s \in Runner : GoesOn(s)
  BY DEF RecoverExpiredLeases, runnerVars, GoesOn
<1>2. ASSUME NEW c \in Command PROVE NotLeased(c)
  <2>0. cmd[c] \in RowType /\ cmd'[c] = RecoverRow(c) /\ reviews'[c] = reviews[c]
    BY Zenon DEF RecoverExpiredLeases, StoreInv, TypeOK, controllerVars
  <2>1. CASE c \in Expired
    <3> DEFINE to == ExpiryTarget(cmd[c].req.policy)
               row == Unleased(cmd[c], to)
    <3>1. cmd[c].state = "executing" /\ cmd[c].req.policy \in RecoveryPolicy
      BY <2>1, RequestsAssumption DEF Expired, StoreInv, WellFormed, RequestType
    <3>2. /\ to \in {"retry_wait", "recovery_wait", "manual_review"}
          /\ to = "retry_wait" => cmd[c].req.policy = "device_deduplicated_replay"
      BY <3>1, Zenon DEF ExpiryTarget, RecoveryPolicy
    <3>3. row \in RowType /\ row.state = to /\ row.req = cmd[c].req
      BY <2>0, <3>2, UnleasedRow DEF CommandState
    <3>4. cmd'[c] = row \/ cmd'[c] = QuarantineRow(row)
      BY <2>0, <2>1, Zenon DEF RecoverRow
    <3> HIDE DEF to, row
    <3>5. CASE cmd'[c].state = "retry_wait" /\ cmd'[c].req = cmd[c].req /\ to = "retry_wait"
      <4>1. reviews'[c] >= reviews[c]
        BY <2>0, LimitsAssumption DEF StoreInv, TypeOK
      <4> QED BY <3>2, <3>5, <4>1, Zenon DEF NotLeased
    <3>6. CASE cmd'[c].state \notin {"executing", "queued", "retry_wait"}
      BY <2>0, <3>6, OutOfLine, Zenon
    <3> QED BY <3>2, <3>3, <3>4, <3>5, <3>6, QuarantinedRow DEF Live
  <2>2. CASE c \notin Expired
    <3>1. cmd'[c] \in {cmd[c], QuarantineRow(cmd[c])}
      BY <2>0, <2>2 DEF RecoverRow
    <3> QED BY <2>0, <3>1, QuarantineNotLeased, Zenon
  <2> QED BY <2>1, <2>2, Zenon
<1> QED BY <1>1, <1>2, NotLeasedKeeps, Zenon

\* The calls of a runner to its adapter leave rows alone.
LEMMA ProcessKeepsLease ==
    ASSUME StoreInv, LeaseInv, StoreInv', NEW r \in Runner,
           \/ RejectAdapter(r)
           \/ \E h \in Health : HeartbeatAnswers(r, h)
           \/ \E class \in FailureClass : HeartbeatFails(r, class)
           \/ \E verdict \in Verdict : Execute(r, verdict) \/ Recover(r, verdict)
           \/ LeaseMismatch(r)
    PROVE  LeaseInv'
<1> USE DEF deviceVars, controllerVars
<1>0. pc \in [Runner -> Phase] /\ claim \in [Runner -> ClaimType]
  BY Zenon DEF StoreInv, TypeOK
<1>1. UNCHANGED <<cmd, reviews>>
  BY ZenonT(60) DEF RejectAdapter, HeartbeatAnswers, HeartbeatFails, Execute, Recover, LeaseMismatch
<1>2. pc[r] # "idle" /\ (Released(r) \/ \E next \in Phase : pc' = [pc EXCEPT ![r] = next]
                                           /\ (UNCHANGED claim \/ \E v \in Verdict : claim' = [claim EXCEPT ![r].verdict = v]))
  BY Zenon DEF RejectAdapter, HeartbeatAnswers, HeartbeatFails, Execute, Recover, LeaseMismatch,
     Decide, Phase, Verdict, FailureClass
<1>3. ASSUME NEW s \in Runner PROVE GoesOn(s)
  <2>1. CASE Released(r)
    BY <1>0, <2>1, Zenon DEF Released, NoClaim, GoesOn
  <2>2. ASSUME NEW next \in Phase, pc' = [pc EXCEPT ![r] = next],
               UNCHANGED claim \/ \E v \in Verdict : claim' = [claim EXCEPT ![r].verdict = v]
        PROVE  GoesOn(s)
    <3>1. /\ claim'[s].cmd = claim[s].cmd /\ claim'[s].token = claim[s].token
          /\ claim'[s].attempt = claim[s].attempt
      BY <1>0, <2>2 DEF ClaimType
    <3>2. pc'[s] # "idle" => pc[s] # "idle"
      BY <1>0, <1>2, <2>2, Zenon
    <3> QED BY <3>1, <3>2, Zenon DEF GoesOn
  <2> QED BY <1>2, <2>1, <2>2, Zenon
<1>4. \A c \in Command : NotLeased(c)
  BY <1>1, SameRow, Zenon DEF SameButStateAndTime
<1> QED BY <1>3, <1>4, NotLeasedKeeps, Zenon

\* claim_next leases with a token no runner holds.
LEMMA ClaimKeepsLease ==
    ASSUME StoreInv, LeaseInv, StoreInv', NEW r \in Runner, NEW c \in Command, ClaimNext(r, c)
    PROVE  LeaseInv'
<1>0. /\ cmd \in [Command -> RowType] /\ claim \in [Runner -> ClaimType]
      /\ pc \in [Runner -> Phase] /\ cmd[c] \in RowType
      /\ \A s \in Runner : claim[s].cmd \in Command
  BY DEF StoreInv, TypeOK, ClaimType
<1>1. PICK t \in Token \ TokensInUse :
        /\ claim'[r].cmd = c /\ claim'[r].token = t
        /\ claim'[r].attempt = cmd'[c].attempts
        /\ cmd'[c].state = "executing" /\ cmd'[c].lease = t
        /\ \A x \in Command : x # c => cmd'[x] = cmd[x]
        /\ \A s \in Runner : s # r => claim'[s] = claim[s] /\ pc'[s] = pc[s]
        /\ reviews' = reviews
  BY <1>0 DEF ClaimNext, controllerVars, RowType
<1>2. \A s \in Runner : claim[s].token # t
  BY <1>1, ZenonT(60) DEF TokensInUse
<1>3. TokensDistinct'
  BY <1>1, <1>2 DEF LeaseInv, TokensDistinct
<1>4. ASSUME NEW s \in Runner, pc'[s] # "idle", HoldsLease(s)'
      PROVE  cmd'[claim'[s].cmd].attempts = claim'[s].attempt
  <2>1. CASE s = r
    BY <1>1, <2>1, Zenon
  <2>2. CASE s # r
    <3>1. claim'[s] = claim[s] /\ pc[s] # "idle" /\ claim[s].token # t /\ claim[s].cmd \in Command
      BY <1>0, <1>1, <1>2, <1>4, <2>2, Zenon
    <3>2. claim[s].cmd # c
      BY <1>1, <1>4, <3>1 DEF HoldsLease
    <3>3. cmd'[claim[s].cmd] = cmd[claim[s].cmd]
      BY <1>1, <3>1, <3>2, Zenon
    <3>4. HoldsLease(s)
      BY <1>4, <3>1, <3>3, Zenon DEF HoldsLease
    <3> QED BY <3>1, <3>3, <3>4, Zenon DEF LeaseInv, ClaimMatchesRow
  <2> QED BY <2>1, <2>2, Zenon
<1>5. StrandedByResendOnly'
  BY <1>1 DEF LeaseInv, StrandedByResendOnly, Stranded
<1> QED BY <1>3, <1>4, <1>5, Zenon DEF LeaseInv, ClaimMatchesRow

\* A claim sends its command back to the line only with an attempt left, unless
\* the device deduplicates (retryable_failure, recovery_not_found, ambiguous_failure).
LEMMA CompletionBudget ==
    ASSUME NEW cl \in ClaimType, NEW policy \in RecoveryPolicy
    PROVE  LET done == CompletionOf(cl, policy)
           IN  done.target \in {"queued", "retry_wait"} =>
                  \/ ~(cl.attempt >= MaxAttempts)
                  \/ done.target = "retry_wait" /\ policy = "device_deduplicated_replay"
<1>1. /\ ExpiryTarget(policy) \in {"retry_wait", "recovery_wait", "manual_review"}
      /\ ExpiryTarget(policy) = "retry_wait" => policy = "device_deduplicated_replay"
  BY DEF ExpiryTarget, RecoveryPolicy
<1> QED BY <1>1 DEF CompletionOf, CompleteSuccess, RetryableFailure, PermanentOutcome,
  PermanentFailure, AmbiguousFailure, DeferRecovery, RecoveryNotFound, RequireManualReview,
  Fallback, Completion, ClaimType, ClaimKind

\* finish_claim gives the lease back and strands by a resend only.
LEMMA FinishKeepsLease ==
    ASSUME StoreInv, LeaseInv, StoreInv', NEW r \in Runner, FinishClaim(r) PROVE LeaseInv'
<1>0. PICK c \in Command : c = claim[r].cmd
  BY Zenon DEF StoreInv, TypeOK, ClaimType
<1>1. /\ cmd[c] \in RowType /\ cmd[c].state = "executing" /\ claim[r] \in ClaimType
      /\ cmd[c].req \in Requests /\ Request(r) = cmd[c].req /\ pc[r] = "finishing"
  BY <1>0, Zenon DEF FinishClaim, HoldsLease, StoreInv, TypeOK, WellFormed, Request
<1>2. cmd[c].req.policy \in RecoveryPolicy
  BY <1>1, RequestsAssumption, Zenon DEF RequestType
<1>3. PICK done : /\ done = CompletionOf(claim[r], cmd[c].req.policy)
                  /\ cmd'[c] = [Unleased(cmd[c], done.target) EXCEPT !.due = done.due]
                  /\ \A x \in Command : x # c => cmd'[x] \in {cmd[x], QuarantineRow(cmd[x])}
  BY <1>0, <1>1, Zenon DEF FinishClaim
<1>4. Released(r) /\ UNCHANGED reviews
  BY Zenon DEF FinishClaim, controllerVars
<1>5. /\ cmd'[c].state = done.target /\ cmd'[c].req = cmd[c].req
      /\ cmd'[c].attempts = cmd[c].attempts /\ done.target \in CommandState \ {"executing"}
  <2>1. done.target \in CommandState \ {"executing"} /\ done.due \in BOOLEAN
    BY <1>1, <1>2, <1>3, CompletionTargets, Zenon
  <2> QED BY <1>1, <1>3, <2>1, FinishedRow
<1>6. cmd[c].attempts = claim[r].attempt
  BY <1>0, <1>1, Zenon DEF FinishClaim, LeaseInv, ClaimMatchesRow
<1>7. ASSUME NEW s \in Runner PROVE GoesOn(s)
  BY <1>1, <1>4, Zenon DEF Released, NoClaim, GoesOn, StoreInv, TypeOK
<1>8. NotLeased(c)
  <2>1. reviews'[c] >= reviews[c]
    BY <1>4, LimitsAssumption DEF StoreInv, TypeOK
  <2>2. CASE done.target \notin {"queued", "retry_wait"}
    BY <1>4, <1>5, <2>2, OutOfLine, Zenon
  <2>3. CASE done.target \in {"queued", "retry_wait"} /\ ~(claim[r].attempt >= MaxAttempts)
    BY <1>5, <1>6, <2>1, <2>3, Zenon DEF NotLeased, Stranded
  <2>4. CASE done.target = "retry_wait" /\ cmd[c].req.policy = "device_deduplicated_replay"
    BY <1>5, <2>1, <2>4, Zenon DEF NotLeased
  <2> QED BY <1>1, <1>2, <1>3, <2>2, <2>3, <2>4, CompletionBudget, Zenon
<1>9. \A x \in Command : NotLeased(x)
  BY <1>3, <1>4, <1>8, QuarantineNotLeased, Zenon
<1> QED BY <1>7, <1>9, NotLeasedKeeps, Zenon

\* Every step keeps tokens distinct and claims in agreement with their rows.
LEMMA LeaseStep == StoreInv /\ StoreInv' /\ LeaseInv /\ [Next]_vars => LeaseInv'
<1> SUFFICES ASSUME StoreInv, StoreInv', LeaseInv, [Next]_vars PROVE LeaseInv'
  BY Zenon
<1>1. ASSUME NEW r \in Runner, Step(r) PROVE LeaseInv'
  BY <1>1, RecoveryKeepsLease, ClaimKeepsLease, ProcessKeepsLease, FinishKeepsLease, Zenon DEF Step
<1>2. CASE UNCHANGED vars
  BY <1>2, Zenon DEF vars, LeaseInv, TokensDistinct, ClaimMatchesRow, HoldsLease, StrandedByResendOnly,
     Stranded
<1> QED BY <1>1, <1>2, OperatorKeepsLease, EnvironmentKeepsLease, Zenon DEF Next

\* For any number of runners, tokens stay distinct, a live claim counts attempts as
\* its row does, and both keep commands from being stranded.
THEOREM LeasesInOrder == Spec => [](StoreInv /\ LeaseInv)
<1>1. Init => StoreInv /\ LeaseInv
  BY StoreInit, LeaseInit
<1>2. (StoreInv /\ LeaseInv) /\ [Next]_vars => (StoreInv /\ LeaseInv)'
  BY StoreStep, LeaseStep
<1> QED BY <1>1, <1>2, PTL DEF Spec

\* A command waits without an attempt left, where claim_next never looks, only after
\* an operator's retry or for a device that deduplicates.
THEOREM StrandedOnlyByResend == Spec => []StrandedByResendOnly
<1>1. StoreInv /\ LeaseInv => StrandedByResendOnly
  BY Zenon DEF LeaseInv
<1> QED BY <1>1, LeasesInOrder, PTL

-----------------------------------------------------------------------------
(* A lease is only lost to its holder, to time or to an operator *)

Fenced(r) == \/ pc'[r] = "idle" \/ HoldsLease(r)'
             \/ mode'[Request(r).device] # "automatic"

\* A runner that goes on with a row whose lease is left alone still holds it.
LEMMA KeepsHolding ==
    ASSUME NEW r \in Runner, HoldsLease(r),
           claim'[r].cmd = claim[r].cmd, claim'[r].token = claim[r].token,
           SameButStateAndTime(cmd'[claim[r].cmd], cmd[claim[r].cmd]),
           cmd'[claim[r].cmd].state = cmd[claim[r].cmd].state
    PROVE  Fenced(r)
BY Zenon DEF HoldsLease, SameButStateAndTime, Fenced

\* Steps of operators and environment end a lease by restricting the device
\* only.
LEMMA TableStepsFence ==
    ASSUME StoreInv, NEW r \in Runner, pc[r] # "idle", HoldsLease(r),
           Operator \/ Environment
    PROVE  Fenced(r)
<1> USE DEF deviceVars, runnerVars, controllerVars
<1>0. PICK c \in Command : c = claim[r].cmd
  BY Zenon DEF StoreInv, TypeOK, ClaimType
<1>1. /\ cmd[c] \in RowType /\ cmd[c].state = "executing" /\ Request(r) = cmd[c].req
      /\ cmd \in [Command -> RowType] /\ c \in Submitted
  BY <1>0, Zenon DEF HoldsLease, StoreInv, TypeOK, Request, Submitted
<1>2. SameButStateAndTime(cmd[c], cmd[c])
  BY Zenon DEF SameButStateAndTime
<1>3. ASSUME UNCHANGED <<cmd, claim>> PROVE Fenced(r)
  BY <1>0, <1>2, <1>3, KeepsHolding, Zenon
<1>4. ASSUME NEW d \in Device, NEW target \in ControlMode, ChangeControlMode(d, target)
      PROVE  Fenced(r)
  <2>1. CASE target = "automatic" \/ c \notin OnDevice(d)
    <3>1. cmd'[c] = cmd[c] /\ UNCHANGED claim
      BY <1>1, <1>4, <2>1, Zenon DEF ChangeControlMode
    <3> QED BY <1>0, <1>2, <3>1, KeepsHolding, Zenon
  <2>2. CASE target # "automatic" /\ c \in OnDevice(d)
    <3>1. mode'[d] = target /\ Request(r).device = d
      BY <1>1, <1>4, <2>2, Zenon DEF ChangeControlMode, OnDevice, StoreInv, TypeOK
    <3> QED BY <2>2, <3>1, Zenon DEF Fenced
  <2> QED BY <2>1, <2>2, Zenon
<1>5. ASSUME NEW x \in Command,
             \/ ResolveManually(x) \/ CancelCommand(x) \/ RetryAfterReview(x)
             \/ RetryDelayElapses(x)
      PROVE  Fenced(r)
  <2>1. x # c
    BY <1>1, <1>5 DEF ResolveManually, CancelCommand, RetryAfterReview, RetryDelayElapses, Waiting
  <2>2. cmd'[c] = cmd[c] /\ UNCHANGED claim
    BY <1>1, <1>5, <2>1, Zenon DEF ResolveManually, CancelCommand, RetryAfterReview, RetryDelayElapses
  <2> QED BY <1>0, <1>2, <2>2, KeepsHolding, Zenon
<1>6. ASSUME NEW x \in Command, LeaseRunsOut(x) PROVE Fenced(r)
  <2>1. cmd'[c] \in {cmd[c], [cmd[c] EXCEPT !.expired = TRUE]} /\ UNCHANGED claim
    BY <1>1, <1>6, Zenon DEF LeaseRunsOut
  <2>2. SameButStateAndTime(cmd'[c], cmd[c]) /\ cmd'[c].state = cmd[c].state
    BY <1>1, <2>1, SMTT(60) DEF RowType, SameButStateAndTime
  <2> QED BY <1>0, <2>1, <2>2, KeepsHolding
<1>7. ASSUME NEW q \in Requests, Submit(q) PROVE Fenced(r)
  <2>1. q.id # c
    BY <1>1, <1>7 DEF Submit, IdentityCandidates
  <2>2. cmd'[c] = cmd[c] /\ UNCHANGED claim
    BY <1>1, <1>7, <2>1 DEF Submit
  <2> QED BY <1>0, <1>2, <2>2, KeepsHolding
<1>8. ASSUME NEW s \in Runner, RunFails(s) PROVE Fenced(r)
  <2>1. CASE s = r
    BY <1>8, <2>1, Zenon DEF RunFails, Released, Fenced, StoreInv, TypeOK
  <2>2. CASE s # r
    <3>1. claim'[r] = claim[r] /\ UNCHANGED cmd
      BY <1>8, <2>2, Zenon DEF RunFails, Released, StoreInv, TypeOK
    <3> QED BY <1>0, <1>2, <3>1, KeepsHolding, Zenon
  <2> QED BY <2>1, <2>2, Zenon
<1>9. \/ UNCHANGED <<cmd, claim>>
      \/ \E d \in Device, target \in ControlMode : ChangeControlMode(d, target)
      \/ \E x \in Command : \/ ResolveManually(x) \/ CancelCommand(x) \/ RetryAfterReview(x)
                            \/ RetryDelayElapses(x) \/ LeaseRunsOut(x)
      \/ \E q \in Requests : Submit(q)
      \/ \E s \in Runner : RunFails(s)
  BY Zenon DEF Operator, Environment, RegisterDevice, Boot, RefreshHeartbeat
<1> QED BY <1>3, <1>4, <1>5, <1>6, <1>7, <1>8, <1>9, Zenon

\* Runners leave a lease that has not run out to its holder, or restrict the device.
LEMMA RunnerStepsFence ==
    ASSUME StoreInv, LeaseInv, NEW r \in Runner, pc[r] # "idle", HoldsLease(r),
           ~cmd[claim[r].cmd].expired, NEW s \in Runner, Step(s)
    PROVE  Fenced(r)
<1> USE DEF deviceVars, runnerVars, controllerVars
<1>0. PICK c \in Command : c = claim[r].cmd
  BY Zenon DEF StoreInv, TypeOK, ClaimType
<1>1. /\ cmd[c] \in RowType /\ cmd[c].state = "executing" /\ Request(r) = cmd[c].req
      /\ cmd \in [Command -> RowType] /\ c \in Submitted
      /\ pc \in [Runner -> Phase] /\ claim \in [Runner -> ClaimType]
      /\ cmd[c].req.device \in Device
  BY <1>0, RequestsAssumption, Zenon
  DEF HoldsLease, StoreInv, TypeOK, Request, Submitted, WellFormed, RequestType
<1>2. SameButStateAndTime(cmd[c], cmd[c])
  BY Zenon DEF SameButStateAndTime
<1>3. CASE RecoverExpiredLeases(s)
  <2>1. c \notin Expired
    BY <1>0, Zenon DEF Expired
  <2>2. CASE cmd[c].req.device \in FallenBack
    BY <1>1, <1>3, <2>2, Zenon DEF RecoverExpiredLeases, Fenced
  <2>3. CASE cmd[c].req.device \notin FallenBack
    <3>1. cmd'[c] = cmd[c] /\ UNCHANGED claim
      BY <1>3, <2>1, <2>3, Zenon DEF RecoverExpiredLeases, RecoverRow
    <3> QED BY <1>0, <1>2, <3>1, KeepsHolding, Zenon
  <2> QED BY <2>2, <2>3, Zenon
<1>4. ASSUME NEW x \in Command, ClaimNext(s, x) PROVE Fenced(r)
  <2>1. s # r /\ x # c
    BY <1>1, <1>4 DEF ClaimNext, Claimable, Waiting
  <2>2. cmd'[c] = cmd[c] /\ claim'[r] = claim[r]
    BY <1>1, <1>4, <2>1 DEF ClaimNext
  <2> QED BY <1>0, <1>2, <2>2, KeepsHolding, Zenon
<1>5. CASE \/ RejectAdapter(s)
           \/ \E h \in Health : HeartbeatAnswers(s, h)
           \/ \E class \in FailureClass : HeartbeatFails(s, class)
           \/ \E verdict \in Verdict : Execute(s, verdict) \/ Recover(s, verdict)
  <2>1. UNCHANGED cmd /\ (UNCHANGED claim \/ \E v \in Verdict : claim' = [claim EXCEPT ![s].verdict = v])
    BY <1>5 DEF RejectAdapter, HeartbeatAnswers, HeartbeatFails, Execute, Recover, Decide,
       Verdict, FailureClass
  <2>2. claim'[r].cmd = claim[r].cmd /\ claim'[r].token = claim[r].token
    BY <1>1, <2>1 DEF ClaimType
  <2> QED BY <1>0, <1>2, <2>1, <2>2, KeepsHolding, SMTT(60)
<1>6. CASE LeaseMismatch(s)
  <2>1. s # r
    BY <1>6, Zenon DEF LeaseMismatch
  <2>2. claim'[r] = claim[r] /\ UNCHANGED cmd
    BY <1>1, <1>6, <2>1, Zenon DEF LeaseMismatch, Released
  <2> QED BY <1>0, <1>2, <2>2, KeepsHolding, Zenon
<1>7. CASE FinishClaim(s)
  <2>1. CASE s = r
    BY <1>1, <1>7, <2>1, Zenon DEF FinishClaim, Released, Fenced
  <2>2. CASE s # r
    <3> DEFINE done == CompletionOf(claim[s], Request(s).policy)
               d == Request(s).device
    <3>1. claim[s].cmd # c
      <4>1. HoldsLease(s)
        BY <1>7, Zenon DEF FinishClaim
      <4>2. cmd[c].lease # NoToken
        BY <1>1, Zenon DEF StoreInv, LeaseMatchesAttempt
      <4> QED BY <1>0, <2>2, <4>1, <4>2, Zenon DEF HoldsLease, LeaseInv, TokensDistinct
    <3>2. /\ claim'[r] = claim[r]
          /\ cmd'[c] = IF done.fallback /\ c \in OnDevice(d) THEN QuarantineRow(cmd[c]) ELSE cmd[c]
          /\ done.fallback => mode' = [mode EXCEPT ![d] = "manual_fallback"]
      BY <1>1, <1>7, <2>2, <3>1, Zenon DEF FinishClaim, Released
    <3> HIDE DEF done, d
    <3>3. CASE done.fallback /\ c \in OnDevice(d)
      <4>1. cmd[c].req.device = d
        BY <3>3, Zenon DEF OnDevice
      <4>2. mode'[d] = "manual_fallback"
        BY <1>1, <3>2, <3>3, <4>1, Zenon DEF StoreInv, TypeOK
      <4> QED BY <1>1, <4>1, <4>2, Zenon DEF Fenced
    <3>4. CASE ~(done.fallback /\ c \in OnDevice(d))
      BY <1>0, <1>2, <3>2, <3>4, KeepsHolding, Zenon
    <3> QED BY <3>3, <3>4, Zenon
  <2> QED BY <2>1, <2>2, Zenon
<1> QED BY <1>3, <1>4, <1>5, <1>6, <1>7, Zenon DEF Step

\* For any number of runners: a runner whose lease has not run out loses it only by
\* its own commit or failure, or because its device was restricted (the token in
\* the WHERE clause of finish_claim, recover_expired_leases).
THEOREM LeasesAreFenced == Spec => LeaseIsFenced
<1>1. StoreInv /\ LeaseInv /\ [Next]_vars =>
        [\A r \in Runner :
           /\ pc[r] # "idle" /\ HoldsLease(r) /\ ~cmd[claim[r].cmd].expired
           /\ ~HoldsLease(r)'
           => pc'[r] = "idle" \/ mode'[Request(r).device] # "automatic"]_vars
  <2> SUFFICES ASSUME StoreInv, LeaseInv, Next, NEW r \in Runner,
                      pc[r] # "idle", HoldsLease(r), ~cmd[claim[r].cmd].expired
               PROVE  Fenced(r)
    BY DEF Fenced
  <2> QED BY TableStepsFence, RunnerStepsFence, Zenon DEF Next
<1> QED BY <1>1, LeasesInOrder, PTL DEF Spec, LeaseIsFenced

==============================================================================
