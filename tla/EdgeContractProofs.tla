-------------------------- MODULE EdgeContractProofs --------------------------
(***************************************************************************)
(* Physical effects of the edge agent and the refinement of EdgeContract,  *)
(* for one runner per store.                                               *)
(***************************************************************************)
EXTENDS EdgeAgentProofs

-----------------------------------------------------------------------------
(* Physical effects, for one runner *)

\* Use one local command runner per store.
OneRunner == \A r, s \in Runner : r = s

\* A runner holds an execution of c that has not reached the controller: it has
\* still to be sent, or it is known not to have been accepted.
UnspentBy(r, c) ==
    /\ claim[r].cmd = c /\ claim[r].kind = "execute"
    /\ \/ pc[r] \in {"claimed", "ready"}
       \/ pc[r] = "finishing" /\ claim[r].verdict \in {"retryable", "permanent"}

Unspent(c) == \E r \in Runner : UnspentBy(r, c)

Replayed(c) == cmd[c].req.policy = "device_deduplicated_replay"

\* Effects and the execution in hand never exceed the operator's retries by more
\* than one, and not at all while the command may be sent again unseen or after
\* the device refused it for good.
WithinGrants(c) ==
    LET spent == IF Unspent(c) THEN effect[c] + 1 ELSE effect[c]
        owed == IF cmd[c].state \in {"queued", "retry_wait", "failed"} THEN reviews[c]
                ELSE reviews[c] + 1
    IN  spent <= owed

\* What a runner has learned from the device is true.
VerdictsAreTrue ==
    \A r \in Runner :
        /\ pc[r] = "ready" => Usable(r)
        /\ pc[r] = "finishing" /\ claim[r].verdict = "not_found" =>
              effect[claim[r].cmd] = 0 /\ claim[r].kind = "recovery_probe"
        /\ pc[r] = "finishing" /\ claim[r].verdict = "success" => effect[claim[r].cmd] > 0

EffectInv ==
    /\ VerdictsAreTrue
    /\ \A c \in Command : cmd[c].state = "absent" => effect[c] = 0 /\ reviews[c] = 0
    /\ \A c \in Submitted : IF Replayed(c) THEN effect[c] <= 1 ELSE WithinGrants(c)
    /\ SucceededHadEffect

-----------------------------------------------------------------------------
(* The effect invariant is inductive *)

\* Initially nothing was submitted and nothing had an effect.
LEMMA EffectInit == Init => EffectInv
BY DEF Init, EffectInv, VerdictsAreTrue, SucceededHadEffect, Submitted, AbsentRow

\* What a step may do to a row, and to the count of its reviews, without touching
\* runners or the controller: submit it, retry it after review, or move it without
\* making it succeed or fail and without putting it back in line to be sent,
\* unless the device deduplicates it.
Submits(c) == /\ cmd[c].state = "absent" /\ cmd'[c].state \in {"queued", "manual_review"}
              /\ reviews'[c] = reviews[c]
Retries(c) == /\ cmd[c].state = "manual_review" /\ cmd'[c].state = "queued"
              /\ cmd'[c].req = cmd[c].req /\ reviews'[c] = reviews[c] + 1
Moves(c) ==
    /\ cmd'[c].req = cmd[c].req /\ reviews'[c] = reviews[c]
    /\ cmd'[c].state = "absent" <=> cmd[c].state = "absent"
    /\ cmd'[c].state \in {"queued", "retry_wait", "failed"} =>
          cmd[c].state = cmd'[c].state \/ Replayed(c)
    /\ cmd'[c].state = "succeeded" => cmd[c].state = "succeeded"

\* A step that leaves the claims and the controller alone, and puts no command
\* back to automation without a grant, keeps the bound.
LEMMA TableStepKeepsEffect ==
    ASSUME StoreInv, EffectInv, UNCHANGED <<pc, claim, effect, adapter>>,
           \A c \in Command : Submits(c) \/ Retries(c) \/ Moves(c)
    PROVE  EffectInv'
<1>1. /\ \A c \in Command : effect[c] \in Nat /\ reviews[c] \in Nat
      /\ \A r \in Runner : claim[r].cmd \in Command
  BY LimitsAssumption DEF StoreInv, TypeOK, ClaimType
<1>2. \A c \in Command : Unspent(c)' <=> Unspent(c)
  BY DEF Unspent, UnspentBy
<1>3. \A c \in Command : cmd[c].state = "absent" => ~Unspent(c)
  BY DEF Unspent, UnspentBy, StoreInv, WellFormed
<1>4. \A c \in Command : cmd[c].state # "absent" => cmd'[c].state # "absent" /\ cmd'[c].req = cmd[c].req
  BY DEF Submits, Retries, Moves
<1>5. VerdictsAreTrue'
  <2>1. \A r \in Runner : pc[r] # "idle" => Request(r)' = Request(r)
    BY <1>1, <1>4 DEF Request, StoreInv, WellFormed
  <2> QED BY <1>1, <2>1 DEF EffectInv, VerdictsAreTrue, Usable
<1>6. ASSUME NEW c \in Command
      PROVE  /\ cmd'[c].state = "absent" => effect'[c] = 0 /\ reviews'[c] = 0
             /\ cmd'[c].state = "succeeded" => effect'[c] > 0
  BY DEF Submits, Retries, Moves, EffectInv, SucceededHadEffect
<1>7. ASSUME NEW c \in Command, cmd'[c].state # "absent"
      PROVE  IF Replayed(c)' THEN effect'[c] <= 1 ELSE WithinGrants(c)'
  <2>1. CASE Submits(c)
    BY <1>1, <1>2, <1>3, <2>1 DEF Submits, EffectInv, WithinGrants
  <2>2. CASE Retries(c)
    BY <1>1, <1>2, <2>2 DEF Retries, EffectInv, WithinGrants, Submitted, Replayed
  <2>3. CASE Moves(c)
    BY <1>1, <1>2, <1>7, <2>3 DEF Moves, EffectInv, WithinGrants, Submitted, Replayed
  <2> QED BY <2>1, <2>2, <2>3
<1> QED BY <1>5, <1>6, <1>7 DEF EffectInv, Submitted, SucceededHadEffect

\* An operator's retry raises the grants with the state that needs it.
LEMMA OperatorKeepsEffect == ASSUME StoreInv, EffectInv, Operator PROVE EffectInv'
<1> USE DEF deviceVars, runnerVars, controllerVars
<1>0. \A c \in Command : cmd[c] \in RowType
  BY DEF StoreInv, TypeOK
<1>1. ASSUME NEW d \in Device, RegisterDevice(d) PROVE EffectInv'
  <2>1. \A c \in Command : Moves(c)
    BY <1>1 DEF RegisterDevice, Moves
  <2> QED BY <1>1, <2>1, TableStepKeepsEffect DEF RegisterDevice
<1>2. ASSUME NEW d \in Device, NEW target \in ControlMode, ChangeControlMode(d, target)
      PROVE  EffectInv'
  <2>1. ASSUME NEW c \in Command PROVE Moves(c)
    <3>1. cmd'[c] = cmd[c] \/ cmd'[c] = QuarantineRow(cmd[c])
      BY <1>2 DEF ChangeControlMode
    <3>2. reviews' = reviews
      BY <1>2 DEF ChangeControlMode
    <3> QED BY <1>0, <3>1, <3>2, QuarantinedRow DEF Moves, Live
  <2> QED BY <1>2, <2>1, TableStepKeepsEffect DEF ChangeControlMode
<1>3. ASSUME NEW c \in Command, ResolveManually(c) \/ CancelCommand(c) PROVE EffectInv'
  <2>1. PICK st \in {"resolved_manually", "cancelled"} :
          /\ cmd' = [cmd EXCEPT ![c].state = st]
          /\ cmd[c].state # "absent" /\ UNCHANGED <<pc, claim, effect, adapter, reviews>>
    BY <1>3 DEF ResolveManually, CancelCommand, Waiting, Live
  <2>2. ASSUME NEW x \in Command PROVE Moves(x)
    <3>1. CASE x # c
      BY <2>1, <3>1 DEF StoreInv, TypeOK, Moves
    <3>2. CASE x = c
      <4>1. cmd'[x] = [cmd[c] EXCEPT !.state = st]
        BY <2>1, <3>2 DEF StoreInv, TypeOK
      <4>2. cmd'[x].state = st /\ cmd'[x].req = cmd[c].req
        BY <1>0, <4>1 DEF RowType
      <4> QED BY <2>1, <3>2, <4>2 DEF Moves
    <3> QED BY <3>1, <3>2
  <2> QED BY <2>1, <2>2, TableStepKeepsEffect
<1>4. ASSUME NEW c \in Command, RetryAfterReview(c) PROVE EffectInv'
  <2>1. ASSUME NEW x \in Command PROVE Moves(x) \/ Retries(x)
    <3>1. CASE x # c
      BY <1>4, <3>1 DEF RetryAfterReview, StoreInv, TypeOK, Moves
    <3>2. CASE x = c
      <4>1. cmd'[x] = [cmd[c] EXCEPT !.state = "queued", !.due = TRUE]
        BY <1>4, <3>2 DEF RetryAfterReview, StoreInv, TypeOK
      <4>2. cmd'[x].state = "queued" /\ cmd'[x].req = cmd[c].req
        BY <1>0, <4>1 DEF RowType
      <4>3. reviews'[x] = reviews[x] + 1 /\ cmd[x].state = "manual_review"
        BY <1>4, <3>2 DEF RetryAfterReview, StoreInv, TypeOK
      <4> QED BY <3>2, <4>2, <4>3 DEF Retries
    <3> QED BY <3>1, <3>2
  <2> QED BY <1>4, <2>1, TableStepKeepsEffect DEF RetryAfterReview
<1> QED BY <1>1, <1>2, <1>3, <1>4 DEF Operator

\* The one runner drops its claim.
LEMMA DropKeepsEffect ==
    ASSUME StoreInv, EffectInv, OneRunner, NEW r \in Runner, Released(r),
           UNCHANGED <<cmd, effect, reviews>>
    PROVE  EffectInv'
<1>1. pc'[r] = "idle"
  BY DEF Released, StoreInv, TypeOK
<1>2. VerdictsAreTrue'
  BY <1>1 DEF OneRunner, VerdictsAreTrue
<1>3. \A c \in Command : ~Unspent(c)'
  BY <1>1 DEF Unspent, UnspentBy, OneRunner
<1>4. \A c \in Command : effect[c] \in Nat /\ reviews[c] \in Nat
  BY LimitsAssumption DEF StoreInv, TypeOK
<1> QED BY <1>2, <1>3, <1>4
        DEF EffectInv, Submitted, WithinGrants, Replayed, SucceededHadEffect

\* Submissions, clocks and restarts have no effect; a lost claim is no longer
\* unspent.
LEMMA EnvironmentKeepsEffect ==
    ASSUME StoreInv, EffectInv, Environment, OneRunner PROVE EffectInv'
<1> USE DEF deviceVars, runnerVars, controllerVars
<1>0. \A c \in Command : cmd[c] \in RowType
  BY DEF StoreInv, TypeOK
<1>1. ASSUME NEW q \in Requests, Submit(q) PROVE EffectInv'
  <2>1. cmd[q.id].state = "absent" /\ q.id \in Command
    BY <1>1, RequestsAssumption DEF Submit, IdentityCandidates, Submitted, RequestType
  <2>2. ASSUME NEW x \in Command PROVE Moves(x) \/ Submits(x)
    <3>1. CASE x # q.id
      BY <1>1, <3>1 DEF Submit, StoreInv, TypeOK, Moves
    <3>2. CASE x = q.id
      <4>1. cmd'[x].state \in {"queued", "manual_review"} /\ reviews' = reviews
        BY <1>1, <2>1, <3>2 DEF Submit, StoreInv, TypeOK, AbsentRow
      <4> QED BY <2>1, <3>2, <4>1 DEF Submits
    <3> QED BY <3>1, <3>2
  <2> QED BY <1>1, <2>2, TableStepKeepsEffect DEF Submit
<1>2. ASSUME NEW c \in Command, RetryDelayElapses(c) \/ LeaseRunsOut(c) PROVE EffectInv'
  <2>1. ASSUME NEW x \in Command PROVE Moves(x)
    <3>1. cmd'[x] = cmd[x] \/ cmd'[x] = [cmd[x] EXCEPT !.due = TRUE]
            \/ cmd'[x] = [cmd[x] EXCEPT !.expired = TRUE]
      BY <1>2, Zenon DEF RetryDelayElapses, LeaseRunsOut, StoreInv, TypeOK
    <3>2. cmd'[x].state = cmd[x].state /\ cmd'[x].req = cmd[x].req
      BY <1>0, <3>1 DEF RowType
    <3> QED BY <1>2, <3>2 DEF RetryDelayElapses, LeaseRunsOut, Moves
  <2> QED BY <1>2, <2>1, TableStepKeepsEffect DEF RetryDelayElapses, LeaseRunsOut
<1>3. ASSUME NEW d \in Device, NEW capabilities \in Adapters \cup {NoAdapter},
             Boot(d, capabilities)
      PROVE  EffectInv'
  BY <1>3 DEF Boot, EffectInv, VerdictsAreTrue, Submitted, WithinGrants, Unspent, UnspentBy,
     Replayed, SucceededHadEffect
<1>4. ASSUME NEW d \in Device, NEW h \in Health, RefreshHeartbeat(d, h) PROVE EffectInv'
  <2>1. \A c \in Command : Moves(c)
    BY <1>4 DEF RefreshHeartbeat, Moves
  <2> QED BY <1>4, <2>1, TableStepKeepsEffect DEF RefreshHeartbeat
<1>5. ASSUME NEW r \in Runner, RunFails(r) PROVE EffectInv'
  BY <1>5, DropKeepsEffect DEF RunFails
<1> QED BY <1>1, <1>2, <1>3, <1>4, <1>5 DEF Environment

\* recover_expired_leases resends only what the device deduplicates.
LEMMA RecoveryKeepsEffect ==
    ASSUME StoreInv, EffectInv, NEW r \in Runner, RecoverExpiredLeases(r) PROVE EffectInv'
<1>1. ASSUME NEW c \in Command PROVE Moves(c)
  <2>0. cmd[c] \in RowType /\ cmd'[c] = RecoverRow(c) /\ reviews' = reviews
    BY SMTT(60) DEF RecoverExpiredLeases, StoreInv, TypeOK, controllerVars
  <2> DEFINE row == IF c \in Expired THEN Unleased(cmd[c], ExpiryTarget(cmd[c].req.policy))
                                     ELSE cmd[c]
  <2>1. /\ row \in RowType /\ row.req = cmd[c].req
        /\ row.state = "absent" <=> cmd[c].state = "absent"
        /\ row.state \in {"queued", "retry_wait", "failed"} => row.state = cmd[c].state \/ Replayed(c)
        /\ row.state = "succeeded" => cmd[c].state = "succeeded"
    <3>1. CASE c \in Expired
      <4>1. cmd[c].state = "executing" /\ cmd[c].req.policy \in RecoveryPolicy
        BY <3>1, RequestsAssumption DEF Expired, StoreInv, WellFormed, RequestType
      <4>2. /\ ExpiryTarget(cmd[c].req.policy) \in {"retry_wait", "recovery_wait", "manual_review"}
            /\ ExpiryTarget(cmd[c].req.policy) = "retry_wait" => Replayed(c)
        BY <4>1 DEF ExpiryTarget, RecoveryPolicy, Replayed
      <4> QED BY <2>0, <3>1, <4>1, <4>2, UnleasedRow DEF CommandState
    <3>2. CASE c \notin Expired
      BY <2>0, <3>2, Zenon
    <3> QED BY <3>1, <3>2
  <2>2. cmd'[c] = row \/ cmd'[c] = QuarantineRow(row)
    BY <2>0, Zenon DEF RecoverRow
  <2> HIDE DEF row
  <2> QED BY <2>0, <2>1, <2>2, QuarantinedRow DEF Moves, Live
<1> QED BY <1>1, TableStepKeepsEffect DEF RecoverExpiredLeases, runnerVars, controllerVars

\* claim_next takes up the unused grant of the command.
LEMMA ClaimKeepsEffect ==
    ASSUME StoreInv, EffectInv, OneRunner, NEW r \in Runner, NEW c \in Command, ClaimNext(r, c)
    PROVE  EffectInv'
<1>1. /\ pc'[r] = "claimed" /\ claim'[r].cmd = c
      /\ claim'[r].kind = IF cmd[c].state = "recovery_wait" THEN "recovery_probe" ELSE "execute"
      /\ UNCHANGED <<adapter, effect, reviews>>
      /\ cmd[c].state \in Waiting /\ pc[r] = "idle"
  BY DEF ClaimNext, Claimable, StoreInv, TypeOK, controllerVars
<1>2. /\ \A x \in Command : x # c => cmd'[x] = cmd[x]
      /\ cmd'[c].state = "executing" /\ cmd'[c].req = cmd[c].req
  BY DEF ClaimNext, StoreInv, TypeOK, RowType
<1>3. VerdictsAreTrue'
  BY <1>1 DEF OneRunner, VerdictsAreTrue
<1>4. \A x \in Command : x # c => ~Unspent(x)' /\ ~Unspent(x)
  BY <1>1 DEF Unspent, UnspentBy, OneRunner
<1>5. \A x \in Command : effect[x] \in Nat /\ reviews[x] \in Nat
  BY LimitsAssumption DEF StoreInv, TypeOK
<1>6. ~Unspent(c) /\ (Unspent(c)' => cmd[c].state # "recovery_wait")
  BY <1>1 DEF Unspent, UnspentBy, OneRunner
<1>7. cmd[c].state # "absent" /\ cmd[c].state # "recovery_wait" => cmd[c].state \in {"queued", "retry_wait"}
  BY <1>1, Zenon DEF Waiting, Live
<1>8. IF Replayed(c)' THEN effect'[c] <= 1 ELSE WithinGrants(c)'
  <2>1. IF Replayed(c) THEN effect[c] <= 1 ELSE WithinGrants(c)
    BY <1>1 DEF EffectInv, Submitted, Waiting, Live
  <2>2. Replayed(c)' <=> Replayed(c)
    BY <1>2, Zenon DEF Replayed
  <2> QED BY <1>1, <1>2, <1>5, <1>6, <1>7, <2>1, <2>2 DEF WithinGrants, Waiting, Live
<1>9. \A x \in Command : x # c /\ cmd[x].state # "absent" =>
        IF Replayed(x)' THEN effect'[x] <= 1 ELSE WithinGrants(x)'
  BY <1>1, <1>2, <1>4, Zenon DEF EffectInv, Submitted, WithinGrants, Replayed
<1> QED BY <1>1, <1>2, <1>3, <1>8, <1>9, Zenon DEF EffectInv, Submitted, SucceededHadEffect, Waiting, Live

Spent(c) == IF Unspent(c) THEN effect[c] + 1 ELSE effect[c]

\* The one runner goes on with its claim: what counts is that the execution in
\* hand and the effects together do not grow.
LEMMA ProgressKeepsEffect ==
    ASSUME StoreInv, EffectInv, OneRunner, NEW r \in Runner, NEW c \in Command,
           pc[r] # "idle", claim[r].cmd = c, claim'[r].cmd = c,
           UNCHANGED <<cmd, adapter, reviews>>,
           effect' \in [Command -> Nat], \A x \in Command : x # c => effect'[x] = effect[x],
           effect'[c] >= effect[c],
           Replayed(c) => effect'[c] <= 1,
           Spent(c)' <= Spent(c),
           VerdictsAreTrue'
    PROVE  EffectInv'
<1>1. \A x \in Command : effect[x] \in Nat /\ reviews[x] \in Nat
  BY LimitsAssumption DEF StoreInv, TypeOK
<1>2. cmd[c].state # "absent"
  BY Zenon DEF StoreInv, WellFormed
<1>3. \A x \in Command : x # c => ~Unspent(x)' /\ ~Unspent(x)
  BY Zenon DEF Unspent, UnspentBy, OneRunner
<1>4. \A x \in Command : x # c /\ cmd[x].state # "absent" =>
        IF Replayed(x)' THEN effect'[x] <= 1 ELSE WithinGrants(x)'
  BY <1>3 DEF EffectInv, Submitted, WithinGrants, Replayed
<1>5. IF Replayed(c)' THEN effect'[c] <= 1 ELSE WithinGrants(c)'
  <2>1. IF Replayed(c) THEN effect[c] <= 1 ELSE WithinGrants(c)
    BY <1>2 DEF EffectInv, Submitted
  <2>2. Replayed(c)' <=> Replayed(c)
    BY DEF Replayed
  <2> QED BY <1>1, <2>1, <2>2 DEF WithinGrants, Spent
<1>6. SucceededHadEffect'
  BY <1>1 DEF EffectInv, SucceededHadEffect
<1> QED BY <1>2, <1>4, <1>5, <1>6, Zenon DEF EffectInv, Submitted

\* An adapter call turns the execution in hand into an effect, or into none.
LEMMA ProcessKeepsEffect ==
    ASSUME StoreInv, EffectInv, OneRunner, NEW r \in Runner,
           \/ RejectAdapter(r)
           \/ \E h \in Health : HeartbeatAnswers(r, h)
           \/ \E class \in FailureClass : HeartbeatFails(r, class)
           \/ \E verdict \in Verdict : Execute(r, verdict) \/ Recover(r, verdict)
    PROVE  EffectInv'
<1>0. PICK c \in Command : c = claim[r].cmd
  BY DEF StoreInv, TypeOK, ClaimType
<1>1. /\ c \in Command /\ claim[r] \in ClaimType /\ pc \in [Runner -> Phase]
      /\ claim \in [Runner -> ClaimType] /\ effect \in [Command -> Nat]
  BY DEF StoreInv, TypeOK, ClaimType
<1> USE DEF deviceVars, controllerVars
<1>2. ASSUME NEW v \in Verdict, Decide(r, v)
      PROVE  /\ pc'[r] = "finishing" /\ claim'[r].verdict = v
             /\ claim'[r].cmd = c /\ claim'[r].kind = claim[r].kind
  BY <1>0, <1>1, <1>2, Zenon DEF Decide, ClaimType
<1>3. ASSUME UNCHANGED <<cmd, adapter, reviews, effect>>, pc[r] = "claimed", claim'[r].cmd = c,
             claim'[r].kind = claim[r].kind,
             \/ pc'[r] = "ready" /\ Usable(r)'
             \/ pc'[r] = "finishing" /\ claim'[r].verdict \in FailureClass \cup {"review"}
      PROVE  EffectInv'
  <2>1. VerdictsAreTrue'
    BY <1>3, Zenon DEF VerdictsAreTrue, OneRunner, FailureClass
  <2>2. Unspent(c)' => Unspent(c)
    BY <1>0, <1>3, Zenon DEF Unspent, UnspentBy, OneRunner
  <2>3. Spent(c)' <= Spent(c)
    BY <1>1, <1>3, <2>2 DEF Spent
  <2>4. Replayed(c) => effect[c] <= 1
    BY <1>0, <1>1, <1>3, Zenon DEF EffectInv, Submitted, StoreInv, WellFormed
  <2> QED BY <1>0, <1>1, <1>3, <2>1, <2>3, <2>4, ProgressKeepsEffect
<1>4. CASE RejectAdapter(r)
  BY <1>2, <1>3, <1>4 DEF RejectAdapter, Verdict
<1>5. ASSUME NEW h \in Health, HeartbeatAnswers(r, h) PROVE EffectInv'
  <2>0. /\ UNCHANGED <<cmd, adapter, reviews, effect>> /\ pc[r] = "claimed" /\ Usable(r)
    BY <1>5 DEF HeartbeatAnswers
  <2>1. CASE h = "working"
    <3>1. pc'[r] = "ready" /\ claim' = claim /\ Usable(r)'
      BY <1>1, <1>5, <2>0, <2>1, Zenon DEF HeartbeatAnswers, Usable, Request
    <3> QED BY <1>0, <1>3, <2>0, <3>1, Zenon
  <2>2. CASE h # "working"
    <3>1. \E v \in {"review", "retryable"} : Decide(r, v)
      BY <1>5, <2>2, Zenon DEF HeartbeatAnswers
    <3> QED BY <1>2, <1>3, <2>0, <3>1 DEF Verdict, FailureClass
  <2> QED BY <2>1, <2>2
<1>6. ASSUME NEW class \in FailureClass, HeartbeatFails(r, class) PROVE EffectInv'
  BY <1>2, <1>3, <1>6, Zenon DEF HeartbeatFails, Verdict
<1>7. ASSUME NEW v \in Verdict, Execute(r, v) PROVE EffectInv'
  <2>0. /\ pc[r] = "ready" /\ Usable(r) /\ claim[r].kind = "execute"
        /\ UNCHANGED <<cmd, adapter, reviews>> /\ Decide(r, v) /\ cmd[c].state # "absent"
    BY <1>0, <1>7, Zenon DEF Execute, EffectInv, VerdictsAreTrue, StoreInv, WellFormed
  <2>1. Unspent(c)
    BY <1>0, <2>0, Zenon DEF Unspent, UnspentBy
  <2>2. Replayed(c) => effect[c] <= 1 /\ Deduplicates(r)
    BY <1>0, <1>1, <2>0, Zenon DEF EffectInv, Submitted, Replayed, Usable, Supports, Deduplicates, Request
  <2>3. CASE Accept(r) /\ v \in {"success", "ambiguous"}
    <3>1. /\ effect' \in [Command -> Nat] /\ \A x \in Command : x # c => effect'[x] = effect[x]
          /\ effect'[c] = IF Deduplicates(r) /\ effect[c] > 0 THEN effect[c] ELSE effect[c] + 1
      BY <1>0, <1>1, <2>3 DEF Accept
    <3>2. ~Unspent(c)'
      BY <1>2, <2>0, <2>3, Zenon DEF Unspent, UnspentBy, OneRunner
    <3>3. effect'[c] > 0 /\ effect'[c] >= effect[c] /\ effect'[c] <= effect[c] + 1
      BY <1>1, <3>1
    <3>4. Spent(c)' <= Spent(c)
      BY <2>1, <3>2, <3>3, Zenon DEF Spent
    <3>5. Replayed(c) => effect'[c] <= 1
      BY <1>1, <2>2, <3>1
    <3>6. VerdictsAreTrue'
      BY <1>2, <2>0, <2>3, <3>3, Zenon DEF VerdictsAreTrue, OneRunner
    <3> QED BY <1>0, <1>1, <1>2, <2>0, <3>1, <3>3, <3>4, <3>5, <3>6, ProgressKeepsEffect, Zenon
  <2>4. CASE UNCHANGED effect /\ v \in FailureClass
    <3>1. VerdictsAreTrue'
      BY <1>2, <2>0, <2>4 DEF VerdictsAreTrue, OneRunner, FailureClass
    <3>2. Spent(c)' <= Spent(c)
      BY <1>1, <2>1, <2>4 DEF Spent
    <3>3. claim'[r].cmd = c /\ effect'[c] = effect[c] /\ effect[c] \in Nat
      BY <1>1, <1>2, <2>0, <2>4, Zenon
    <3>4. effect'[c] >= effect[c] /\ (Replayed(c) => effect'[c] <= 1)
      BY <2>2, <3>3
    <3> QED BY <1>0, <1>1, <2>0, <2>4, <3>1, <3>2, <3>3, <3>4, ProgressKeepsEffect, Zenon
  <2> QED BY <1>7, <2>3, <2>4, Zenon DEF Execute, FailureClass
<1>8. ASSUME NEW v \in Verdict, Recover(r, v) PROVE EffectInv'
  <2>0. /\ pc[r] = "ready" /\ claim[r].kind = "recovery_probe" /\ cmd[c].state # "absent"
        /\ UNCHANGED <<cmd, adapter, effect, reviews>> /\ Decide(r, v)
        /\ v = "not_found" => effect[c] = 0
        /\ v = "success" => effect[c] > 0
    BY <1>0, <1>8, Zenon DEF Recover, StoreInv, WellFormed, FailureClass
  <2>1. VerdictsAreTrue'
    BY <1>2, <2>0, Zenon DEF VerdictsAreTrue, OneRunner
  <2>2. Replayed(c) => effect[c] <= 1
    BY <1>1, <2>0, Zenon DEF EffectInv, Submitted
  <2>3. ~Unspent(c)'
    BY <1>2, <2>0, Zenon DEF Unspent, UnspentBy, OneRunner
  <2>4. Spent(c)' <= Spent(c)
    BY <1>1, <2>0, <2>3 DEF Spent
  <2>5. claim'[r].cmd = c /\ effect'[c] = effect[c] /\ effect[c] \in Nat
    BY <1>1, <1>2, <2>0, Zenon
  <2>6. effect'[c] >= effect[c] /\ (Replayed(c) => effect'[c] <= 1)
    BY <2>2, <2>5
  <2> QED BY <1>0, <1>1, <2>0, <2>1, <2>4, <2>5, <2>6, ProgressKeepsEffect, Zenon
<1> QED BY <1>4, <1>5, <1>6, <1>7, <1>8, Zenon

\* Which verdict is behind the states that matter: success, failure, and the two
\* states from which a command is sent again.
LEMMA CompletionMeaning ==
    ASSUME NEW cl \in ClaimType, NEW policy \in RecoveryPolicy
    PROVE  LET done == CompletionOf(cl, policy)
           IN  /\ done.target = "succeeded" => cl.verdict = "success"
               /\ done.target = "queued" => cl.verdict = "not_found"
               /\ done.target = "failed" => cl.verdict = "permanent" /\ cl.kind = "execute"
               /\ done.target = "retry_wait" =>
                     \/ cl.verdict = "retryable" /\ cl.kind = "execute"
                     \/ policy = "device_deduplicated_replay"
<1>1. /\ ExpiryTarget(policy) \in {"retry_wait", "recovery_wait", "manual_review"}
      /\ ExpiryTarget(policy) = "retry_wait" => policy = "device_deduplicated_replay"
  BY Zenon DEF ExpiryTarget, RecoveryPolicy
<1> QED BY <1>1 DEF CompletionOf, CompleteSuccess, RetryableFailure, PermanentOutcome,
  PermanentFailure, AmbiguousFailure, DeferRecovery, RecoveryNotFound, RequireManualReview,
  Fallback, Completion, ClaimType, ClaimKind

\* finish_claim puts to automation again only what was not accepted.
LEMMA FinishKeepsEffect ==
    ASSUME StoreInv, EffectInv, OneRunner, NEW r \in Runner, FinishClaim(r) PROVE EffectInv'
<1>0. PICK c \in Command : c = claim[r].cmd
  BY Zenon DEF StoreInv, TypeOK, ClaimType
<1>1. /\ cmd[c] \in RowType /\ cmd[c].state = "executing" /\ claim[r] \in ClaimType
      /\ cmd[c].req \in Requests /\ Request(r) = cmd[c].req /\ pc[r] = "finishing"
  BY <1>0, Zenon DEF FinishClaim, HoldsLease, StoreInv, TypeOK, WellFormed, Request
<1>2. cmd[c].req.policy \in RecoveryPolicy
  BY <1>1, RequestsAssumption, Zenon DEF RequestType
<1>3. PICK done : /\ done = CompletionOf(claim[r], cmd[c].req.policy)
                  /\ cmd'[c] = [Unleased(cmd[c], done.target) EXCEPT !.due = done.due]
                  /\ \A x \in Command : x # c => cmd'[x] \in {cmd[x], QuarantineRow(cmd[x])}
  BY <1>0, <1>1, Zenon DEF FinishClaim
<1>4. /\ Released(r) /\ UNCHANGED <<adapter, effect, reviews>>
  BY Zenon DEF FinishClaim, controllerVars
<1>5. cmd'[c].state = done.target /\ cmd'[c].req = cmd[c].req /\ done.target \in CommandState
  <2>1. done.target \in CommandState /\ done.due \in BOOLEAN
    BY <1>1, <1>2, <1>3, CompletionTargets, Zenon
  <2> QED BY <1>1, <1>3, <2>1, FinishedRow
<1>6. pc'[r] = "idle"
  BY <1>4, Zenon DEF Released, StoreInv, TypeOK
<1>7. VerdictsAreTrue' /\ \A x \in Command : ~Unspent(x)'
  BY <1>6, Zenon DEF OneRunner, VerdictsAreTrue, Unspent, UnspentBy
<1>8. \A x \in Command : effect[x] \in Nat /\ reviews[x] \in Nat
  BY LimitsAssumption DEF StoreInv, TypeOK
<1>9. ASSUME NEW x \in Command, x # c
      PROVE  /\ cmd'[x].req = cmd[x].req
             /\ cmd'[x].state \in {cmd[x].state, "manual_review"}
             /\ cmd'[x].state = "absent" <=> cmd[x].state = "absent"
  <2>1. cmd[x] \in RowType
    BY Zenon DEF StoreInv, TypeOK
  <2> QED BY <1>3, <1>9, <2>1, QuarantinedRow DEF Live
<1>10. ASSUME NEW x \in Command, x # c, cmd'[x].state # "absent"
       PROVE  IF Replayed(x)' THEN effect'[x] <= 1 ELSE WithinGrants(x)'
  <2>1. IF Replayed(x) THEN effect[x] <= 1 ELSE WithinGrants(x)
    BY <1>9, <1>10 DEF EffectInv, Submitted
  <2> QED BY <1>4, <1>7, <1>8, <1>9, <1>10, <2>1 DEF WithinGrants, Replayed
<1>11. IF Replayed(c)' THEN effect'[c] <= 1 ELSE WithinGrants(c)'
  <2>1. IF Replayed(c) THEN effect[c] <= 1 ELSE WithinGrants(c)
    BY <1>1 DEF EffectInv, Submitted
  <2>2. Replayed(c)' <=> Replayed(c)
    BY <1>5 DEF Replayed
  <2>3. ASSUME ~Replayed(c) PROVE WithinGrants(c)'
    <3>1. CASE done.target = "queued"
      <4>1. effect[c] = 0
        <5>1. claim[r].verdict = "not_found"
          BY <1>1, <1>2, <1>3, <3>1, CompletionMeaning, Zenon
        <5>2. pc[r] # "idle"
          BY <1>1
        <5> QED BY <1>0, <1>1, <5>1, <5>2 DEF EffectInv, VerdictsAreTrue
      <4>2. effect'[c] = 0 /\ reviews'[c] = reviews[c] /\ reviews[c] \in Nat
        BY <1>4, <1>8, <4>1, Zenon
      <4> QED BY <1>7, <1>8, <4>2 DEF WithinGrants
    <3>2. CASE done.target \in {"retry_wait", "failed"}
      <4>1. claim[r].verdict \in {"retryable", "permanent"} /\ claim[r].kind = "execute"
        BY <1>1, <1>2, <1>3, <2>3, <3>2, CompletionMeaning DEF Replayed
      <4>2. Unspent(c)
        BY <1>0, <1>1, <4>1, Zenon DEF Unspent, UnspentBy
      <4>3. effect[c] + 1 <= reviews[c] + 1
        BY <1>1, <2>1, <2>3, <4>2, Zenon DEF WithinGrants
      <4> QED BY <1>4, <1>7, <1>8, <4>3 DEF WithinGrants
    <3>3. CASE done.target \notin {"queued", "retry_wait", "failed"}
      BY <1>1, <1>4, <1>5, <1>7, <1>8, <2>1, <2>3, <3>3 DEF WithinGrants
    <3> QED BY <3>1, <3>2, <3>3
  <2> QED BY <1>4, <2>1, <2>2, <2>3, Zenon
<1>12. SucceededHadEffect'
  <2>1. cmd'[c].state = "succeeded" => effect'[c] > 0
    <3>1. done.target = "succeeded" => claim[r].verdict = "success"
      BY <1>1, <1>2, <1>3, CompletionMeaning, Zenon
    <3>2. claim[r].verdict = "success" => effect[c] > 0
      BY <1>0, <1>1, Zenon DEF EffectInv, VerdictsAreTrue
    <3> QED BY <1>4, <1>5, <3>1, <3>2, Zenon
  <2>2. \A x \in Command : x # c /\ cmd'[x].state = "succeeded" => effect'[x] > 0
    BY <1>4, <1>9, Zenon DEF EffectInv, SucceededHadEffect
  <2> QED BY <2>1, <2>2, Zenon DEF SucceededHadEffect
<1>13. \A x \in Command : cmd'[x].state = "absent" => effect'[x] = 0 /\ reviews'[x] = 0
  BY <1>4, <1>5, <1>9, Zenon DEF EffectInv, CommandState
<1> QED BY <1>7, <1>10, <1>11, <1>12, <1>13, Zenon DEF EffectInv, Submitted

\* Every step of a store with one runner keeps effects within the grants.
LEMMA EffectStep ==
    ASSUME OneRunner PROVE StoreInv /\ EffectInv /\ [Next]_vars => EffectInv'
<1> SUFFICES ASSUME StoreInv, EffectInv, [Next]_vars PROVE EffectInv'
  OBVIOUS
<1>1. CASE Operator
  BY <1>1, OperatorKeepsEffect
<1>2. CASE Environment
  BY <1>2, EnvironmentKeepsEffect, Zenon
<1>3. ASSUME NEW r \in Runner, Step(r) PROVE EffectInv'
  <2>1. CASE LeaseMismatch(r)
    BY <2>1, DropKeepsEffect, ZenonT(60) DEF LeaseMismatch, controllerVars
  <2> QED BY <1>3, <2>1, RecoveryKeepsEffect, ClaimKeepsEffect, ProcessKeepsEffect,
             FinishKeepsEffect DEF Step
<1>4. CASE UNCHANGED vars
  BY <1>4 DEF vars, EffectInv, VerdictsAreTrue, Usable, Request, SucceededHadEffect,
     Submitted, Replayed, WithinGrants, Unspent, UnspentBy
<1> QED BY <1>1, <1>2, <1>3, <1>4 DEF Next

\* One runner per store: the invariant that ties physical effects to grants.
THEOREM EffectsWithinGrants == ASSUME OneRunner PROVE Spec => [](StoreInv /\ EffectInv)
<1>1. Init => StoreInv /\ EffectInv
  BY StoreInit, EffectInit
<1>2. (StoreInv /\ EffectInv) /\ [Next]_vars => (StoreInv /\ EffectInv)'
  BY StoreStep, EffectStep
<1> QED BY <1>1, <1>2, PTL DEF Spec

\* One runner per store: the device acts at most once per submission and once more
\* per operator retry, whatever fails, expires, crashes or is quarantined.
THEOREM AtMostOnce == ASSUME OneRunner PROVE Spec => []AtMostOncePhysical
<1>1. StoreInv /\ EffectInv => AtMostOncePhysical
  <2> SUFFICES ASSUME StoreInv, EffectInv, NEW c \in Command PROVE effect[c] <= 1 + reviews[c]
    BY DEF AtMostOncePhysical
  <2>1. effect[c] \in Nat /\ reviews[c] \in Nat
    BY LimitsAssumption DEF StoreInv, TypeOK
  <2>2. CASE cmd[c].state = "absent"
    BY <2>1, <2>2 DEF EffectInv
  <2>3. CASE cmd[c].state # "absent"
    BY <2>1, <2>3 DEF EffectInv, Submitted, WithinGrants
  <2> QED BY <2>2, <2>3
<1> QED BY <1>1, EffectsWithinGrants, PTL

\* One runner per store: a command is marked succeeded only after the controller
\* carried it out (complete_success).
THEOREM SuccessIsReal == ASSUME OneRunner PROVE Spec => []SucceededHadEffect
<1>1. StoreInv /\ EffectInv => SucceededHadEffect
  BY Zenon DEF EffectInv
<1> QED BY <1>1, EffectsWithinGrants, PTL

\* One runner per store: a failed command that the device does not deduplicate had
\* no physical effect since it was last put to automation (permanent_failure).
THEOREM FailureIsHarmless == ASSUME OneRunner PROVE Spec => []FailedHadNoEffect
<1>1. StoreInv /\ EffectInv => FailedHadNoEffect
  <2> SUFFICES ASSUME StoreInv, EffectInv, NEW c \in Command, cmd[c].state = "failed",
                      cmd[c].req.policy # "device_deduplicated_replay"
               PROVE  effect[c] <= reviews[c]
    BY Zenon DEF FailedHadNoEffect
  <2>1. effect[c] \in Nat /\ reviews[c] \in Nat
    BY LimitsAssumption DEF StoreInv, TypeOK
  <2>2. WithinGrants(c)
    BY Zenon DEF EffectInv, Submitted, Replayed
  <2> QED BY <2>1, <2>2 DEF WithinGrants
<1> QED BY <1>1, EffectsWithinGrants, PTL

-----------------------------------------------------------------------------
(* Step simulation *)

\* The step takes commands from automation to review and does nothing else that the
\* contract shows (quarantine, lease recovery).
Escalates ==
    /\ UNCHANGED <<effect, reviews>>
    /\ \A c \in Command : \/ StatusOf(cmd'[c].state) = StatusOf(cmd[c].state)
                          \/ cmd[c].state \in Live /\ cmd'[c].state = "manual_review"

\* Such a step is the contract's Escalate.
LEMMA EscalateStep == Escalates => Contract!ContractNext
<1> SUFFICES ASSUME Escalates PROVE Contract!ContractNext
  BY Zenon
<1> USE DEF Escalates
<1> DEFINE S == {c \in Command : cmd[c].state \in Live /\ cmd'[c].state = "manual_review"}
<1>1. \A c \in S : StatusOf(cmd[c].state) = "open"
  BY Zenon DEF StatusOf
<1>2. \A c \in Command : StatusOf(cmd'[c].state) = IF c \in S THEN "review" ELSE StatusOf(cmd[c].state)
  BY Zenon DEF StatusOf, Live
<1>3. Contract!Escalate(S)
  BY <1>1, <1>2 DEF Contract!Escalate
<1>4. S \in SUBSET Command
  OBVIOUS
<1> QED BY <1>3, <1>4 DEF Contract!ContractNext

\* A quarantined row is the one it was or an escalated one.
LEMMA QuarantineEscalates ==
    ASSUME NEW row \in RowType, NEW new, new \in {row, QuarantineRow(row)}
    PROVE  \/ StatusOf(new.state) = StatusOf(row.state)
           \/ row.state \in Live /\ new.state = "manual_review"
BY QuarantinedRow

\* The operator's commands are the contract's escalation, closing and grant.
LEMMA OperatorImplements ==
    ASSUME StoreInv, Operator PROVE Contract!ContractNext \/ UNCHANGED Contract!contractVars
<1> USE DEF deviceVars, runnerVars, controllerVars
<1>0. /\ cmd \in [Command -> RowType] /\ reviews \in [Command -> Nat]
      /\ \A c \in Command : cmd[c] \in RowType
  BY LimitsAssumption DEF StoreInv, TypeOK
<1>1. ASSUME NEW d \in Device, RegisterDevice(d) PROVE UNCHANGED Contract!contractVars
  BY <1>1, Zenon DEF RegisterDevice, Contract!contractVars
<1>2. ASSUME NEW d \in Device, NEW target \in ControlMode, ChangeControlMode(d, target)
      PROVE  Contract!ContractNext
  <2>1. \A c \in Command : cmd'[c] \in {cmd[c], QuarantineRow(cmd[c])}
    BY <1>2, Zenon DEF ChangeControlMode
  <2>2. UNCHANGED <<effect, reviews>>
    BY <1>2 DEF ChangeControlMode
  <2> QED BY <1>0, <2>1, <2>2, QuarantineEscalates, EscalateStep, Zenon DEF Escalates
<1>3. ASSUME NEW c \in Command, ResolveManually(c) \/ CancelCommand(c)
      PROVE  Contract!ContractNext
  <2>1. PICK st \in {"resolved_manually", "cancelled"} :
          /\ cmd' = [cmd EXCEPT ![c].state = st] /\ UNCHANGED <<effect, reviews>>
          /\ cmd[c].state \in Live \cup {"manual_review"}
          /\ st = "resolved_manually" => cmd[c].state = "manual_review"
    BY <1>3 DEF ResolveManually, CancelCommand, Waiting
  <2>2. cmd'[c].state = st /\ \A x \in Command : x # c => cmd'[x] = cmd[x]
    BY <1>0, <2>1 DEF RowType
  <2>3. /\ StatusOf(cmd'[c].state) = st
        /\ StatusOf(cmd[c].state) \in {"open", "review"}
        /\ st = "resolved_manually" => StatusOf(cmd[c].state) = "review"
    BY <2>1, <2>2, Zenon DEF StatusOf, Live
  <2>4. [x \in Command |-> StatusOf(cmd'[x].state)] =
          [[x \in Command |-> StatusOf(cmd[x].state)] EXCEPT ![c] = st]
    BY <2>2, <2>3, Zenon
  <2>5. Contract!Close(c)
    <3>1. CASE st = "cancelled"
      BY <2>1, <2>3, <2>4, <3>1 DEF Contract!Close
    <3>2. CASE st = "resolved_manually"
      BY <2>1, <2>3, <2>4, <3>2 DEF Contract!Close
    <3> QED BY <3>1, <3>2
  <2> QED BY <2>5 DEF Contract!ContractNext
<1>4. ASSUME NEW c \in Command, RetryAfterReview(c) PROVE Contract!ContractNext
  <2>1. /\ cmd[c].state = "manual_review" /\ cmd'[c].state = "queued" /\ UNCHANGED effect
        /\ reviews'[c] = reviews[c] + 1
        /\ \A x \in Command : x # c => cmd'[x] = cmd[x] /\ reviews'[x] = reviews[x]
    BY <1>0, <1>4 DEF RetryAfterReview, RowType
  <2>2. StatusOf(cmd[c].state) = "review" /\ StatusOf(cmd'[c].state) = "open"
    BY <2>1 DEF StatusOf, Live
  <2>3. 1 + reviews'[c] = (1 + reviews[c]) + 1
    BY <1>0, <2>1
  <2>4. Contract!Grant(c)
    BY <2>1, <2>2, <2>3, Zenon DEF Contract!Grant
  <2> QED BY <2>4 DEF Contract!ContractNext
<1> QED BY <1>1, <1>2, <1>3, <1>4, Zenon DEF Operator

\* A submission is the contract's arrival; clocks and restarts do not show.
LEMMA EnvironmentImplements ==
    ASSUME StoreInv, Environment PROVE Contract!ContractNext \/ UNCHANGED Contract!contractVars
<1> USE DEF deviceVars, runnerVars, controllerVars
<1>0. cmd \in [Command -> RowType] /\ \A c \in Command : cmd[c] \in RowType
  BY DEF StoreInv, TypeOK
<1>1. ASSUME NEW q \in Requests, Submit(q) PROVE Contract!ContractNext
  <2>1. /\ q.id \in Command /\ cmd[q.id].state = "absent" /\ UNCHANGED <<effect, reviews>>
        /\ cmd'[q.id].state \in {"queued", "manual_review"}
        /\ \A x \in Command : x # q.id => cmd'[x] = cmd[x]
    BY <1>0, <1>1, RequestsAssumption
    DEF Submit, IdentityCandidates, Submitted, RequestType, AbsentRow
  <2>2. StatusOf(cmd[q.id].state) = "absent" /\ StatusOf(cmd'[q.id].state) \in {"open", "review"}
    BY <2>1 DEF StatusOf, Live
  <2>3. Contract!Arrive(q.id)
    BY <2>1, <2>2, Zenon DEF Contract!Arrive
  <2> QED BY <2>1, <2>3 DEF Contract!ContractNext
<1>2. ASSUME NEW c \in Command, RetryDelayElapses(c) \/ LeaseRunsOut(c)
      PROVE  UNCHANGED Contract!contractVars
  <2>1. \A x \in Command : cmd'[x].state = cmd[x].state
    BY <1>0, <1>2 DEF RetryDelayElapses, LeaseRunsOut, RowType
  <2> QED BY <1>2, <2>1 DEF RetryDelayElapses, LeaseRunsOut, Contract!contractVars
<1>3. ASSUME UNCHANGED <<cmd, effect, reviews>> PROVE UNCHANGED Contract!contractVars
  BY <1>3 DEF Contract!contractVars
<1>4. \/ UNCHANGED <<cmd, effect, reviews>>
      \/ \E q \in Requests : Submit(q)
      \/ \E c \in Command : RetryDelayElapses(c) \/ LeaseRunsOut(c)
  BY DEF Environment, Boot, RefreshHeartbeat, RunFails
<1> QED BY <1>1, <1>2, <1>3, <1>4

\* recover_expired_leases only escalates.
LEMMA RecoveryImplements ==
    ASSUME StoreInv, NEW r \in Runner, RecoverExpiredLeases(r) PROVE Contract!ContractNext
<1>1. ASSUME NEW c \in Command
      PROVE  \/ StatusOf(cmd'[c].state) = StatusOf(cmd[c].state)
             \/ cmd[c].state \in Live /\ cmd'[c].state = "manual_review"
  <2>0. cmd[c] \in RowType /\ cmd'[c] = RecoverRow(c)
    BY DEF RecoverExpiredLeases, StoreInv, TypeOK
  <2>1. CASE c \in Expired
    <3> DEFINE to == ExpiryTarget(cmd[c].req.policy)
               row == Unleased(cmd[c], to)
    <3>1. cmd[c].state = "executing" /\ cmd[c].req.policy \in RecoveryPolicy
      BY <2>1, RequestsAssumption DEF Expired, StoreInv, WellFormed, RequestType
    <3>2. to \in {"retry_wait", "recovery_wait", "manual_review"}
      BY <3>1, Zenon DEF ExpiryTarget, RecoveryPolicy
    <3>3. row \in RowType /\ row.state = to
      BY <2>0, <3>2, UnleasedRow DEF CommandState
    <3>4. cmd'[c] = row \/ cmd'[c] = QuarantineRow(row)
      BY <2>0, <2>1, Zenon DEF RecoverRow
    <3> HIDE DEF to, row
    <3>5. cmd'[c].state \in {"retry_wait", "recovery_wait", "manual_review"}
      BY <3>2, <3>3, <3>4, QuarantinedRow DEF Live
    <3> QED BY <3>1, <3>5, Zenon DEF StatusOf, Live
  <2>2. CASE c \notin Expired
    <3>1. cmd'[c] \in {cmd[c], QuarantineRow(cmd[c])}
      BY <2>0, <2>2 DEF RecoverRow
    <3> QED BY <2>0, <3>1, QuarantineEscalates, Zenon
  <2> QED BY <2>1, <2>2
<1>2. UNCHANGED <<effect, reviews>>
  BY Zenon DEF RecoverExpiredLeases, controllerVars
<1>3. Escalates
  BY <1>1, <1>2, Zenon DEF Escalates
<1> QED BY <1>3, EscalateStep

\* The physical call: the controller acts only on an unused grant.
LEMMA ExecuteImplements ==
    ASSUME StoreInv, EffectInv, NEW r \in Runner, NEW v \in Verdict, Execute(r, v)
    PROVE  Contract!ContractNext \/ UNCHANGED Contract!contractVars
<1>0. PICK c \in Command : c = claim[r].cmd
  BY Zenon DEF StoreInv, TypeOK, ClaimType
<1>1. /\ effect \in [Command -> Nat] /\ effect[c] \in Nat /\ reviews[c] \in Nat
      /\ pc[r] = "ready" /\ claim[r].kind = "execute" /\ UNCHANGED <<cmd, reviews>>
      /\ cmd[c].state # "absent" /\ Usable(r)
  BY <1>0, LimitsAssumption DEF StoreInv, TypeOK, WellFormed, Execute, EffectInv, VerdictsAreTrue
<1>2. CASE UNCHANGED effect
  BY <1>1, <1>2 DEF Contract!contractVars
<1>3. CASE Accept(r)
  <2>1. effect' = [effect EXCEPT ![c] = IF Deduplicates(r) /\ effect[c] > 0 THEN effect[c]
                                        ELSE effect[c] + 1]
    BY <1>0, <1>3, Zenon DEF Accept
  <2>2. CASE Deduplicates(r) /\ effect[c] > 0
    <3>1. effect' = effect
      BY <1>1, <2>1, <2>2
    <3> QED BY <1>1, <3>1, Zenon DEF Contract!contractVars
  <2>3. CASE ~(Deduplicates(r) /\ effect[c] > 0)
    <3>1. effect' = [effect EXCEPT ![c] = effect[c] + 1]
      BY <2>1, <2>3, Zenon
    <3>2. effect[c] < 1 + reviews[c]
      <4>1. CASE Replayed(c)
        <5>1. Deduplicates(r)
          BY <1>0, <1>1, <4>1 DEF Replayed, Usable, Supports, Deduplicates, Request
        <5> QED BY <1>1, <2>3, <5>1, SMTT(60)
      <4>2. CASE ~Replayed(c)
        <5>1. Unspent(c) /\ WithinGrants(c)
          BY <1>0, <1>1, <4>2, Zenon DEF Unspent, UnspentBy, EffectInv, Submitted
        <5> QED BY <1>1, <5>1 DEF WithinGrants
      <4> QED BY <4>1, <4>2
    <3>3. StatusOf(cmd[c].state) # "absent"
      BY <1>1, Zenon DEF StatusOf
    <3>4. Contract!Act(c)
      BY <1>1, <3>1, <3>2, <3>3 DEF Contract!Act
    <3> QED BY <3>4 DEF Contract!ContractNext
  <2> QED BY <2>2, <2>3, Zenon
<1> QED BY <1>2, <1>3, Zenon DEF Execute

\* finish_claim ends a command only as succeeded or failed.
LEMMA CompletionReach ==
    ASSUME NEW cl \in ClaimType, NEW policy \in RecoveryPolicy
    PROVE  CompletionOf(cl, policy).target \in Live \cup {"manual_review", "succeeded", "failed"}
<1>1. ExpiryTarget(policy) \in {"retry_wait", "recovery_wait", "manual_review"}
  BY DEF ExpiryTarget, RecoveryPolicy
<1> QED BY <1>1 DEF CompletionOf, CompleteSuccess, RetryableFailure, PermanentOutcome,
  PermanentFailure, AmbiguousFailure, DeferRecovery, RecoveryNotFound, RequireManualReview,
  Fallback, Completion, Live

\* finish_claim settles a command, escalates, or leaves it open.
LEMMA FinishImplements ==
    ASSUME StoreInv, EffectInv, NEW r \in Runner, FinishClaim(r)
    PROVE  Contract!ContractNext
<1>0. PICK c \in Command : c = claim[r].cmd
  BY Zenon DEF StoreInv, TypeOK, ClaimType
<1>1. /\ cmd[c] \in RowType /\ cmd[c].state = "executing" /\ claim[r] \in ClaimType
      /\ cmd[c].req \in Requests /\ Request(r) = cmd[c].req /\ pc[r] = "finishing"
      /\ \A x \in Command : cmd[x] \in RowType
  BY <1>0, Zenon DEF FinishClaim, HoldsLease, StoreInv, TypeOK, WellFormed, Request
<1>2. cmd[c].req.policy \in RecoveryPolicy
  BY <1>1, RequestsAssumption, Zenon DEF RequestType
<1>3. PICK done : /\ done = CompletionOf(claim[r], cmd[c].req.policy)
                  /\ cmd'[c] = [Unleased(cmd[c], done.target) EXCEPT !.due = done.due]
                  /\ \A x \in Command : x # c => cmd'[x] \in {cmd[x], QuarantineRow(cmd[x])}
                  /\ ~done.fallback => \A x \in Command : x # c => cmd'[x] = cmd[x]
  BY <1>0, <1>1, Zenon DEF FinishClaim
<1>4. UNCHANGED <<effect, reviews>>
  BY Zenon DEF FinishClaim, controllerVars
<1>5. /\ cmd'[c].state = done.target
      /\ done.fallback \in BOOLEAN
      /\ done.fallback => done.target = "manual_review"
  <2>1. /\ done.target \in CommandState /\ done.due \in BOOLEAN /\ done.fallback \in BOOLEAN
        /\ done.fallback => done.target = "manual_review"
    BY <1>1, <1>2, <1>3, CompletionTargets, Zenon
  <2> QED BY <1>1, <1>3, <2>1, FinishedRow
<1>6. StatusOf(cmd[c].state) = "open"
  BY <1>1, Zenon DEF StatusOf, Live
<1>7. CASE done.target \in Live \cup {"manual_review"}
  <2>1. ASSUME NEW x \in Command
        PROVE  \/ StatusOf(cmd'[x].state) = StatusOf(cmd[x].state)
               \/ cmd[x].state \in Live /\ cmd'[x].state = "manual_review"
    <3>1. CASE x = c
      BY <1>1, <1>5, <1>7, <3>1, Zenon DEF StatusOf, Live
    <3>2. CASE x # c
      BY <1>1, <1>3, <3>2, QuarantineEscalates
    <3> QED BY <3>1, <3>2, Zenon
  <2> QED BY <1>4, <2>1, EscalateStep, Zenon DEF Escalates
<1>8. CASE done.target \notin Live \cup {"manual_review"}
  <2>1. ~done.fallback
    BY <1>5, <1>8, Zenon
  <2>2. \A x \in Command : x # c => cmd'[x] = cmd[x]
    BY <1>3, <2>1, Zenon
  <2>3. done.target \in {"succeeded", "failed"}
    BY <1>1, <1>2, <1>3, <1>8, CompletionReach, Zenon
  <2>4. StatusOf(cmd'[c].state) = done.target
    BY <1>5, <2>3, Zenon DEF StatusOf, Live
  <2>5. done.target = "succeeded" => effect[c] > 0
    <3>1. done.target = "succeeded" => claim[r].verdict = "success"
      BY <1>1, <1>2, <1>3, CompletionMeaning, Zenon
    <3> QED BY <1>0, <1>1, <3>1, Zenon DEF EffectInv, VerdictsAreTrue
  <2>6. Contract!Close(c)
    BY <1>4, <1>6, <2>2, <2>3, <2>4, <2>5, Zenon DEF Contract!Close
  <2> QED BY <2>6 DEF Contract!ContractNext
<1> QED BY <1>7, <1>8, Zenon

\* One runner per store: every behaviour of the agent is one the contract allows.
\* Each transaction, call and crash is a step of the contract or changes nothing
\* the contract shows.
THEOREM AgentImplementsContract == ASSUME OneRunner PROVE Spec => ImplementsContract
<1>1. Init => Contract!ContractInit
  <2> SUFFICES ASSUME Init PROVE Contract!ContractInit
    OBVIOUS
  <2>1. \A c \in Command : StatusOf(cmd[c].state) = "absent"
    BY DEF Init, AbsentRow, StatusOf, Live
  <2>2. effect = [c \in Command |-> 0] /\ \A c \in Command : 1 + reviews[c] = 1
    BY DEF Init
  <2> QED BY <2>1, <2>2 DEF Contract!ContractInit
<1>2. StoreInv /\ EffectInv /\ [Next]_vars => [Contract!ContractNext]_(Contract!contractVars)
  <2> SUFFICES ASSUME StoreInv, EffectInv, [Next]_vars
               PROVE  Contract!ContractNext \/ UNCHANGED Contract!contractVars
    OBVIOUS
  <2>1. ASSUME UNCHANGED <<cmd, effect, reviews>> PROVE UNCHANGED Contract!contractVars
    BY <2>1, Zenon DEF Contract!contractVars
  <2>2. ASSUME NEW r \in Runner, NEW c \in Command, ClaimNext(r, c)
        PROVE  UNCHANGED Contract!contractVars
    <3>1. /\ cmd[c].state \in Live /\ cmd'[c].state = "executing" /\ UNCHANGED <<effect, reviews>>
          /\ \A x \in Command : x # c => cmd'[x] = cmd[x]
      BY <2>2 DEF ClaimNext, Claimable, Waiting, StoreInv, TypeOK, RowType, controllerVars
    <3>2. \A x \in Command : StatusOf(cmd'[x].state) = StatusOf(cmd[x].state)
      BY <3>1 DEF StatusOf, Live
    <3> QED BY <3>1, <3>2, Zenon DEF Contract!contractVars
  <2>3. ASSUME NEW r \in Runner, Step(r)
        PROVE  Contract!ContractNext \/ UNCHANGED Contract!contractVars
    <3>1. \/ UNCHANGED <<cmd, effect, reviews>>
          \/ RecoverExpiredLeases(r) \/ FinishClaim(r)
          \/ \E c \in Command : ClaimNext(r, c)
          \/ \E v \in Verdict : Execute(r, v)
      BY <2>3 DEF Step, RejectAdapter, HeartbeatAnswers, HeartbeatFails, Recover, LeaseMismatch,
         controllerVars
    <3> QED BY <2>1, <2>2, <3>1, RecoveryImplements, ExecuteImplements, FinishImplements, Zenon
  <2>4. CASE UNCHANGED vars
    BY <2>1, <2>4 DEF vars
  <2> QED BY <2>3, <2>4, OperatorImplements, EnvironmentImplements DEF Next
<1> QED BY <1>1, <1>2, EffectsWithinGrants, PTL DEF Spec, ImplementsContract, Contract!ContractSpec
=============================================================================
