----------------------- MODULE EdgeCloudDeliveryProofs -----------------------
(***************************************************************************)
(* The steps of EdgeCloud that deliver, submit, acknowledge and report,    *)
(* and the theorems that follow from the invariant of EdgeCloudProofs.     *)
(***************************************************************************)
EXTENDS EdgeCloudProofs

CloudType == [status : CloudStatus, revision : Nat, expired : BOOLEAN]
ReplyType == [ack : Nat, report : [status : ReportStatus \cup {"none"}, edits : Nat]]

\* The other agents' cycles stay where they are.
LEMMA OthersStay ==
    ASSUME CloudInv, NEW a \in Agent, NEW phase \in Phase, NEW items, Enters(a, phase, items)
    PROVE  /\ pc' \in [Agent -> Phase] /\ pc'[a] = phase
           /\ queue' = [b \in Agent |-> queue'[b]] /\ queue'[a] = items
           /\ \A b \in Agent \ {a} : pc'[b] = pc[b] /\ queue'[b] = queue[b]
<1>1. pc \in [Agent -> Phase] /\ queue = [b \in Agent |-> queue[b]]
  BY DEF CloudInv, TypeOK, ItemsTyped
<1> QED
  BY <1>1 DEF Enters

\* A row that keeps its delivery stays recorded while the cloud's revision grows and
\* its acknowledgement stays.
LEMMA RecordedStays ==
    ASSUME NEW b \in Agent, NEW c \in Command,
           RowRecorded(edge[b][c], cloud[c], reply[c]), edge[b][c].token \in Nat,
           cloud[c].revision \in Nat /\ cloud'[c].revision \in Nat,
           cloud'[c] = cloud[c] \/ cloud[c].revision < cloud'[c].revision,
           /\ edge'[b][c].token = edge[b][c].token /\ edge'[b][c].ack = edge[b][c].ack
           /\ edge'[b][c].state = edge[b][c].state,
           edge[b][c].ack # 0 => reply'[c].ack = reply[c].ack,
           edge'[b][c].reported # "no" =>
             edge[b][c].ack # 0 /\ reply'[c].report.status = edge'[b][c].reported
    PROVE  RowRecorded(edge'[b][c], cloud'[c], reply'[c])
<1> DEFINE s == edge'[b][c]
<1>2. s.state = "absent" => s.token = 0 /\ s.ack = 0 /\ s.reported = "no"
  BY Zenon DEF RowRecorded
<1>3. s.state # "absent" => 0 < s.token /\ s.token <= cloud'[c].revision
  BY DEF RowRecorded
<1>1. s.state # "absent" /\ s.token = cloud'[c].revision => cloud'[c].status = "delivered"
  BY DEF RowRecorded
<1>4. s.ack # 0 => s.ack = s.token + 1 /\ reply'[c].ack = s.token
  BY DEF RowRecorded
<1> QED
  BY <1>1, <1>2, <1>3, <1>4, Zenon DEF RowRecorded

\* What an agent whose deliveries and cycle stay has flushed stays flushed.
LEMMA FlushedStays ==
    ASSUME CloudInv, NEW b \in Agent, pc'[b] = pc[b], queue'[b] = queue[b],
           \A c \in Command :
             /\ edge'[b][c].token = edge[b][c].token
             /\ edge'[b][c].ack = edge[b][c].ack
             /\ edge'[b][c].reported = edge[b][c].reported
             /\ edge'[b][c].state = "absent" <=> edge[b][c].state = "absent"
             /\ edge'[b][c].ran => edge[b][c].ran
    PROVE  /\ AgentFlushed(b)'
           /\ \A c \in Command : edge'[b][c].ran => edge'[b][c].ack # 0 \/ LeftOut(b, c)'
<1>1. CycleMoves(b) /\ \A c \in Command : RowMoves(edge[b][c], edge'[b][c])
  BY DEF CycleMoves, RowMoves
<1>2. AgentFlushed(b)' /\ \A c \in Command : LeftOut(b, c)' = LeftOut(b, c)
  BY <1>1, FlushedKept, Zenon DEF CloudInv, Flushed
<1> SUFFICES ASSUME NEW c \in Command, edge'[b][c].ran
             PROVE  edge'[b][c].ack # 0 \/ LeftOut(b, c)'
  BY <1>2, Zenon
<1>3. edge[b][c].ack # 0 \/ LeftOut(b, c)
  BY Zenon DEF CloudInv, RanFlushed
<1> QED
  BY <1>2, <1>3, Zenon

\* A pull hands out revisions no agent holds yet.
LEMMA PullStep ==
    ASSUME CloudInv, NEW a \in Agent, NEW heard \in BOOLEAN, PullCommands(a, heard)
    PROVE  CloudInv'
<1> USE DEF CloudInv
<1> DEFINE taken == First(Eligible(a), PullLimit)
           item(c) == [cmd |-> c, revision |-> cloud'[c].revision, status |-> "delivered",
                       edits |-> 0, flaw |-> "none"]
           items == {item(c) : c \in taken}
<1>0. cloud \in [Command -> CloudType] /\ pc[a] = "pull"
  BY DEF TypeOK, CloudType, PullCommands
<1>1. UNCHANGED <<device, reply, edge, mode>>
  BY Zenon DEF PullCommands, agentVars
<1>2. /\ taken \subseteq Command /\ Eligible(a) \subseteq Command
      /\ \A c \in taken : cloud[c].status \in {"queued", "delivered"}
  BY DEF First, Eligible
<1>3. cloud' = [c \in Command |-> IF c \in taken
                                  THEN [status |-> "delivered", expired |-> FALSE,
                                        revision |-> cloud[c].revision + 1]
                                  ELSE cloud[c]]
  BY DEF PullCommands
<1>4. cloud' \in [Command -> CloudType]
  <2>1. \A c \in Command : cloud[c].revision + 1 \in Nat
    BY <1>0 DEF CloudType
  <2> QED  BY <1>0, <1>3, <2>1, Zenon DEF CloudType, CloudStatus
<1>5. \A c \in Command : /\ cloud'[c].revision \in Nat /\ cloud[c].revision \in Nat
                         /\ cloud'[c].revision >= cloud[c].revision
                         /\ c \in taken => cloud'[c].revision = cloud[c].revision + 1
  BY <1>0, <1>3 DEF CloudType
<1>6. \/ pc'[a] = "submit" /\ queue'[a] = items
      \/ pc'[a] = "idle"
  <2>1. Enters(a, "submit", items) \/ Enters(a, "idle", {})
    BY DEF PullCommands
  <2> QED  BY <2>1, OthersStay, Zenon DEF Phase
<1>7. /\ pc' \in [Agent -> Phase] /\ queue' = [b \in Agent |-> queue'[b]]
      /\ \A b \in Agent \ {a} : pc'[b] = pc[b] /\ queue'[b] = queue[b]
  <2>1. Enters(a, "submit", items) \/ Enters(a, "idle", {})
    BY DEF PullCommands
  <2> QED  BY <2>1, OthersStay, Zenon DEF Phase
<1>8. TypeOK'
  BY <1>1, <1>4, <1>7, Zenon DEF TypeOK, CloudType
<1> HIDE DEF taken
<1>9. ItemsTyped'
  <2>1. \A c \in taken : item(c) \in Item
    BY <1>2, <1>5, Zenon DEF Item, CloudStatus, Flaw
  <2>2. items \subseteq Item
    BY <2>1, Zenon
  <2> HIDE DEF items
  <2> QED  BY <1>1, <1>6, <1>7, <2>2, Zenon DEF ItemsTyped
<1>10. RowsRecorded'
  <2> SUFFICES ASSUME NEW b \in Agent, NEW c \in Command
               PROVE  RowRecorded(edge[b][c], cloud'[c], reply[c])
    BY <1>1, Zenon DEF RowsRecorded
  <2>1. edge[b][c].token \in Nat /\ RowRecorded(edge[b][c], cloud[c], reply[c])
    BY DEF TypeOK, RowsRecorded
  <2>2. cloud'[c] = cloud[c] \/ cloud[c].revision < cloud'[c].revision
    BY <1>3, <1>5
  <2>3. edge[b][c].reported # "no" =>
          edge[b][c].ack # 0 /\ reply[c].report.status = edge[b][c].reported
    BY <2>1, Zenon DEF RowRecorded
  <2> QED  BY <1>1, <1>5, <2>1, <2>2, <2>3, RecordedStays, Zenon
<1>11. CloudRecords'
  <2> SUFFICES ASSUME NEW c \in Command PROVE CloudRecord(cloud'[c], reply[c])
    BY <1>1 DEF CloudRecords
  <2>1. CloudRecord(cloud[c], reply[c])
    BY DEF CloudRecords
  <2> QED  BY <1>2, <1>3, <2>1, Zenon DEF CloudRecord, AcceptedStatus
<1>12. SubmitsKnown'
  <2> SUFFICES ASSUME NEW b \in Agent, pc'[b] = "submit", NEW i \in queue'[b]
               PROVE  /\ 0 < i.revision /\ i.revision <= cloud'[i.cmd].revision
                      /\ i.revision = cloud'[i.cmd].revision => cloud'[i.cmd].status = "delivered"
    BY DEF SubmitsKnown
  <2>1. CASE b = a
    <3>1. PICK c \in taken : i = item(c)
      BY <1>6, <2>1, Zenon
    <3>2. cloud'[c].status = "delivered"
      BY <1>2, <1>3, Zenon
    <3> QED  BY <1>2, <1>5, <3>1, <3>2
  <2>2. CASE b # a
    <3>1. i \in queue[b] /\ pc[b] = "submit"
      BY <1>7, <2>2, Zenon
    <3>2. /\ i \in Item /\ 0 < i.revision /\ i.revision <= cloud[i.cmd].revision
          /\ i.revision = cloud[i.cmd].revision => cloud[i.cmd].status = "delivered"
      BY <3>1, Zenon DEF ItemsTyped, SubmitsKnown
    <3>3. cloud'[i.cmd] = cloud[i.cmd] \/ cloud'[i.cmd].revision = cloud[i.cmd].revision + 1
      BY <1>3, <1>5, <3>2, Zenon DEF Item
    <3> QED  BY <1>5, <3>2, <3>3 DEF Item
  <2> QED  BY <2>1, <2>2, Zenon
<1>13. \A b \in Agent, c \in Command, r \in Nat :
         r # 0 /\ Holds(b, c, r) => r <= cloud[c].revision
  <2> SUFFICES ASSUME NEW b \in Agent, NEW c \in Command, NEW r \in Nat, r # 0, Holds(b, c, r)
               PROVE  r <= cloud[c].revision
    BY Zenon
  <2>1. CASE edge[b][c].token = r
    <3>1. RowRecorded(edge[b][c], cloud[c], reply[c])
      BY DEF RowsRecorded
    <3> QED  BY <2>1, <3>1, Zenon DEF RowRecorded
  <2>2. CASE pc[b] = "submit" /\ \E i \in queue[b] : i.cmd = c /\ i.revision = r
    BY <2>2, Zenon DEF SubmitsKnown
  <2> QED  BY <2>1, <2>2, Zenon DEF Holds
<1>14. TokensUnique'
  <2>1. \A b \in Agent \ {a}, c \in Command, r \in Nat : Holds(b, c, r)' <=> Holds(b, c, r)
    BY <1>1, <1>7, Zenon DEF Holds
  <2>2. \A c \in Command, r \in Nat :
          Holds(a, c, r)' => Holds(a, c, r) \/ (c \in taken /\ r = cloud[c].revision + 1)
    <3> SUFFICES ASSUME NEW c \in Command, NEW r \in Nat, Holds(a, c, r)'
                 PROVE  Holds(a, c, r) \/ (c \in taken /\ r = cloud[c].revision + 1)
      OBVIOUS
    <3>1. CASE edge'[a][c].token = r
      BY <1>1, <3>1, Zenon DEF Holds
    <3>2. ASSUME pc'[a] = "submit", NEW i \in queue'[a], i.cmd = c, i.revision = r
          PROVE  c \in taken /\ r = cloud[c].revision + 1
      <4>1. PICK x \in taken : i = item(x)
        BY <1>6, <3>2, Zenon
      <4> QED  BY <1>2, <1>5, <3>2, <4>1, Zenon
    <3> QED  BY <3>1, <3>2, Zenon DEF Holds
  <2> SUFFICES ASSUME NEW b1 \in Agent, NEW b2 \in Agent, NEW c \in Command, NEW r \in Nat,
                      r # 0, Holds(b1, c, r)', Holds(b2, c, r)'
               PROVE  b1 = b2
    BY Zenon DEF TokensUnique
  <2>3. \A b \in Agent : Holds(b, c, r) => r # cloud[c].revision + 1
    BY <1>5, <1>13
  <2> QED  BY <2>1, <2>2, <2>3, Zenon DEF TokensUnique
<1>15. Flushed' /\ RanFlushed'
  <2>1. \A b \in Agent \ {a} : AgentFlushed(b)'
    BY <1>1, <1>7, FlushedStays, Zenon
  <2>2. Due(a)' = Due(a) /\ Acked(a)' = Acked(a)
    BY <1>1 DEF Due, Acked
  <2>3. \A b \in Agent, c \in Command : LeftOut(b, c)' = LeftOut(b, c)
    BY <1>1 DEF LeftOut, FullBatchBefore, Acked
  <2>4. Covered => Due(a) = {}
    <3>1. AllFlushed(a)
      BY <1>0, Zenon DEF Flushed, AgentFlushed
    <3>2. ASSUME Covered, NEW c \in Due(a) PROVE FALSE
      <4>1. BatchSize < PullLimit
        BY <3>1, Zenon DEF AllFlushed, LeftOut, FullBatchBefore
      <4> QED  BY <3>2, <4>1, LimitsAssumption DEF Covered
    <3> QED  BY <3>2, Zenon
  <2>5. pc'[a] = "submit" => Pulled(Commands(queue'[a]))
    <3>1. \A i \in items : i.cmd \in taken
      OBVIOUS
    <3>2. Pulled(taken)
      BY <1>2 DEF taken, Pulled
    <3> HIDE DEF items
    <3> QED  BY <1>6, <3>1, <3>2 DEF Pulled, Commands
  <2>6. Covered => /\ Pulled(Due(a)')
                   /\ pc'[a] = "submit" => Pulled(Due(a)' \cup Commands(queue'[a]))
    <3>1. Pulled({})
      BY Zenon DEF Pulled
    <3> QED  BY <2>2, <2>4, <2>5, <3>1, Zenon
  <2>7. AgentFlushed(a)'
    BY <1>6, <2>6 DEF AgentFlushed, Pulled, Covered, Commands
  <2>8. RanFlushed'
    BY <1>1, <2>3, Zenon DEF RanFlushed
  <2> QED  BY <2>1, <2>7, <2>8, Zenon DEF Flushed
<1> QED
  BY <1>8, <1>9, <1>10, <1>11, <1>12, <1>14, <1>15, ZenonT(60)

\* A submission takes over a delivery the agent already had in hand, and only while
\* the row is not acknowledged.
LEMMA SubmitStep ==
    ASSUME CloudInv, NEW a \in Agent, NEW fit \in Fits, SubmitDelivery(a, fit)
    PROVE  CloudInv'
<1> USE DEF CloudInv
<1> DEFINE i == Next1(queue[a])
           c == i.cmd
           state == IF mode[a][DeviceOf[c]] = "automatic" THEN "open" ELSE "manual_review"
           new == Moved([NoRow EXCEPT !.token = i.revision], state, TRUE, fit)
           row == IF edge[a][c].state = "absent" THEN new
                  ELSE IF edge[a][c].ack = 0 THEN [edge[a][c] EXCEPT !.token = i.revision]
                  ELSE edge[a][c]
<1>0. /\ pc[a] = "submit" /\ queue[a] # {} /\ queue[a] \subseteq Item
      /\ edge \in [Agent -> [Command -> RowType]] /\ UNCHANGED <<cloud, device, reply, mode>>
  BY DEF SubmitDelivery, ItemsTyped, TypeOK, RowType, cloudVars
<1>1. i \in queue[a] /\ i \in Item
  BY <1>0, NextItem
<1> HIDE DEF i
<1>2. /\ c \in Command /\ i.revision \in Nat /\ 0 < i.revision
      /\ i.revision <= cloud[c].revision
      /\ i.revision = cloud[c].revision => cloud[c].status = "delivered"
  BY <1>0, <1>1 DEF Item, SubmitsKnown
<1>3. \/ CycleOver(a) /\ UNCHANGED edge
      \/ /\ ~DeliveryConflict(a, i)
         /\ edge' = [edge EXCEPT ![a][c] = row]
         /\ Enters(a, "submit", queue[a] \ {i})
  BY Zenon DEF SubmitDelivery, i
<1>4. CASE CycleOver(a) /\ UNCHANGED edge
  <2>1. OnlyThisMoves
    <3>1. Enters(a, "idle", {})
      BY <1>4 DEF CycleOver
    <3> QED  BY <3>1, OneCycleMoves DEF Phase, ItemsTyped
  <2>2. TypeOK'
    BY <1>0, <1>4, <2>1 DEF TypeOK, OnlyThisMoves
  <2>3. \A b \in Agent, x \in Command : /\ RowMoves(edge[b][x], edge'[b][x])
                                        /\ edge'[b][x].ran => edge[b][x].ran
    BY <1>4, Zenon DEF RowMoves
  <2> QED  BY <1>0, <2>1, <2>2, <2>3, QuietStep, SMTT(60) DEF OnlyThisMoves
<1>5. CASE /\ ~DeliveryConflict(a, i)
           /\ edge' = [edge EXCEPT ![a][c] = row]
           /\ Enters(a, "submit", queue[a] \ {i})
  <2>1. /\ pc' \in [Agent -> Phase] /\ pc'[a] = "submit"
        /\ queue' = [b \in Agent |-> queue'[b]] /\ queue'[a] = queue[a] \ {i}
        /\ \A b \in Agent \ {a} : pc'[b] = pc[b] /\ queue'[b] = queue[b]
    BY <1>5, OthersStay, Zenon DEF Phase
  <2>2. new \in RowType /\ new.token = i.revision /\ new.ack = 0 /\ new.reported = "no"
        /\ new.ran = FALSE /\ new.state # "absent"
    <3> DEFINE base == [NoRow EXCEPT !.token = i.revision]
    <3>0. NoRow \in RowType
      BY DEF NoRow, RowType, EdgeState, Flaw
    <3>1. base \in RowType /\ base.token = i.revision /\ base.ack = 0 /\ base.reported = "no"
          /\ base.ran = FALSE
      BY <1>2, <3>0, Zenon DEF RowType, NoRow
    <3>2. FlawOf(state, TRUE, fit) \in Flaw /\ state \in EdgeState /\ state # "absent"
      BY DEF EdgeState, FlawOf, Flaw
    <3>3. base.edits + 1 \in Nat
      BY <3>1 DEF RowType
    <3> HIDE DEF state, base
    <3> QED  BY <3>1, <3>2, <3>3, Zenon DEF RowType, Moved, base
  <2> HIDE DEF new
  <2>3. edge[a][c] \in RowType /\ RowRecorded(edge[a][c], cloud[c], reply[c])
    BY <1>0, <1>2, Zenon DEF RowsRecorded
  <2>4. /\ row \in RowType /\ row.state # "absent" /\ row.token = i.revision
        /\ row.ack = edge[a][c].ack /\ row.reported = edge[a][c].reported
        /\ row.ran = TRUE => edge[a][c].ran = TRUE
    BY <1>2, <1>5, <2>2, <2>3, Zenon DEF RowType, RowRecorded, DeliveryConflict
  <2> HIDE DEF row
  <2>5. /\ edge' \in [Agent -> [Command -> RowType]] /\ edge'[a][c] = row
        /\ \A b \in Agent, x \in Command : b # a \/ x # c => edge'[b][x] = edge[b][x]
    BY <1>0, <1>2, <1>5, <2>4, Zenon
  <2>6. TypeOK'
    BY <1>0, <2>1, <2>5, Zenon DEF TypeOK, RowType
  <2>7. ItemsTyped'
    BY <1>0, <2>1, <2>5 DEF ItemsTyped
  <2>8. RowsRecorded'
    <3>1. RowRecorded(row, cloud[c], reply[c])
      <4>1. row.ack # 0 => edge[a][c].token = i.revision
        BY <1>5, <2>4, Zenon DEF DeliveryConflict
      <4> QED  BY <1>2, <2>3, <2>4, <4>1, Zenon DEF RowRecorded, RowType
    <3> QED  BY <1>0, <2>5, <3>1, Zenon DEF RowsRecorded
  <2>9. CloudRecords'
    BY <1>0, Zenon DEF CloudRecords
  <2>10. SubmitsKnown'
    BY <1>0, <2>1, Zenon DEF SubmitsKnown
  <2>11. TokensUnique'
    <3>1. \A b \in Agent, x \in Command, r \in Nat : Holds(b, x, r)' => Holds(b, x, r)
      BY <1>0, <1>1, <2>1, <2>4, <2>5 DEF Holds
    <3> QED  BY <3>1, Zenon DEF TokensUnique
  <2>12. Flushed' /\ RanFlushed'
    <3>1. \A b \in Agent \ {a} :
            /\ AgentFlushed(b)'
            /\ \A x \in Command : edge'[b][x].ran => edge'[b][x].ack # 0 \/ LeftOut(b, x)'
      BY <2>1, <2>5, FlushedStays, Zenon
    <3>2. Due(a)' \subseteq Due(a) \cup {c} /\ Acked(a)' = Acked(a)
      BY <2>4, <2>5 DEF Due, Acked
    <3>3. Due(a)' \cup Commands(queue'[a]) \subseteq Due(a) \cup Commands(queue[a])
      BY <1>1, <2>1, <3>2, Zenon DEF Commands
    <3>4. Covered => Pulled(Due(a) \cup Commands(queue[a]))
      BY <1>0, Zenon DEF Flushed, AgentFlushed
    <3>5. Covered => Pulled(Due(a)') /\ Pulled(Due(a)' \cup Commands(queue'[a]))
      BY <3>3, <3>4 DEF Pulled
    <3>6. AgentFlushed(a)'
      BY <2>1, <3>5 DEF AgentFlushed, Pulled, Covered, Commands
    <3>7. ASSUME NEW x \in Command, edge'[a][x].ran
          PROVE  edge'[a][x].ack # 0 \/ LeftOut(a, x)'
      <4>1. edge[a][x].ran /\ edge'[a][x].ack = edge[a][x].ack
        BY <2>4, <2>5, <3>7, Zenon
      <4>2. LeftOut(a, x)' = LeftOut(a, x)
        BY <3>2, Zenon DEF LeftOut, FullBatchBefore
      <4> QED  BY <4>1, <4>2, Zenon DEF RanFlushed
    <3> QED  BY <3>1, <3>6, <3>7, Zenon DEF Flushed, RanFlushed
  <2> QED  BY <2>6, <2>7, <2>8, <2>9, <2>10, <2>11, <2>12, Zenon
<1> QED
  BY <1>3, <1>4, <1>5, Zenon

\* The agent works on item i of its queue: it hears the answer and goes on, or the
\* cycle is over.
LEMMA CarriedMoves ==
    ASSUME CloudInv, NEW a \in Agent, NEW i, NEW heard \in BOOLEAN, Carried(a, i, heard)
    PROVE  /\ pc' \in [Agent -> Phase] /\ queue' = [b \in Agent |-> queue'[b]]
           /\ \A b \in Agent \ {a} : pc'[b] = pc[b] /\ queue'[b] = queue[b]
           /\ \/ heard /\ pc'[a] = pc[a] /\ queue'[a] = queue[a] \ {i}
              \/ ~heard /\ pc'[a] = "idle"
<1>1. pc[a] \in Phase /\ "idle" \in Phase
  BY DEF CloudInv, TypeOK, Phase
<1>2. CASE heard
  BY <1>1, <1>2, OthersStay, Zenon DEF Carried
<1>3. CASE ~heard
  BY <1>1, <1>3, OthersStay, Zenon DEF Carried
<1> QED
  BY <1>2, <1>3, Zenon

\* An acknowledgement is of the revision the cloud accepts, or has accepted, once.
LEMMA AcknowledgeStep ==
    ASSUME CloudInv, NEW a \in Agent, NEW heard \in BOOLEAN, Acknowledge(a, heard)
    PROVE  CloudInv'
<1> USE DEF CloudInv
<1> DEFINE i == Next1(queue[a])
           c == i.cmd
<1>0. /\ pc[a] \in {"ack1", "ack2"} /\ queue[a] # {} /\ queue[a] \subseteq Item
      /\ edge \in [Agent -> [Command -> RowType]] /\ cloud \in [Command -> CloudType]
      /\ reply \in [Command -> ReplyType] /\ UNCHANGED <<device, mode>>
  BY Zenon DEF Acknowledge, ItemsTyped, TypeOK, RowType, CloudType, ReplyType
<1>1. i \in queue[a] /\ i \in Item /\ queue[a] \subseteq {AckItem(a, x) : x \in Due(a)}
  BY <1>0, NextItem, Zenon DEF Flushed, AgentFlushed
<1> HIDE DEF i
<1>2. PICK picked \in Due(a) : i = AckItem(a, picked)
  BY <1>1
<1>3. /\ c \in Due(a) /\ c \in Command /\ i = AckItem(a, c) /\ i.revision = edge[a][c].token
      /\ edge[a][c].state # "absent" /\ edge[a][c].ack = 0 /\ i.revision \in Nat
  BY <1>0, <1>2 DEF AckItem, Due, RowType
<1>4. /\ \A b \in Agent, x \in Command : RowRecorded(edge[b][x], cloud[x], reply[x])
      /\ \A x \in Command : CloudRecord(cloud[x], reply[x])
      /\ 0 < i.revision
  BY <1>3, Zenon DEF RowsRecorded, CloudRecords, RowRecorded
<1>5. /\ AckReplays(i) \/ AckCommits(i)
      /\ cloud' = IF AckReplays(i) THEN cloud
                  ELSE [cloud EXCEPT ![c] = [status |-> "accepted", expired |-> FALSE,
                                             revision |-> @.revision + 1]]
      /\ reply' = [reply EXCEPT ![c].ack = i.revision]
      /\ edge' = IF heard THEN [edge EXCEPT ![a][c].ack = i.revision + 1] ELSE edge
      /\ Carried(a, i, heard)
  BY Zenon DEF Acknowledge, i
<1>6. /\ cloud' \in [Command -> CloudType] /\ reply' \in [Command -> ReplyType]
      /\ \A x \in Command \ {c} : cloud'[x] = cloud[x] /\ reply'[x] = reply[x]
      /\ reply'[c].ack = i.revision /\ reply'[c].report = reply[c].report
  <2>1. [status |-> "accepted", expired |-> FALSE, revision |-> cloud[c].revision + 1] \in CloudType
    BY <1>0, <1>3 DEF CloudType, CloudStatus
  <2>2. [reply[c] EXCEPT !.ack = i.revision] \in ReplyType
    BY <1>0, <1>3, ZenonT(60) DEF ReplyType
  <2> QED  BY <1>0, <1>3, <1>5, <2>1, <2>2, ZenonT(60) DEF ReplyType
<1>7. \/ reply[c].ack = i.revision /\ cloud'[c] = cloud[c]
      \/ /\ reply[c].ack # i.revision /\ cloud[c].status = "delivered"
         /\ cloud[c].revision = i.revision
         /\ cloud'[c] = [status |-> "accepted", expired |-> FALSE,
                         revision |-> i.revision + 1]
  BY <1>0, <1>3, <1>5, Zenon DEF AckReplays, AckCommits, CloudType
<1>8. /\ edge' \in [Agent -> [Command -> RowType]]
      /\ \A b \in Agent, x \in Command : b # a \/ x # c => edge'[b][x] = edge[b][x]
      /\ \/ ~heard /\ edge'[a][c] = edge[a][c]
         \/ heard /\ edge'[a][c] = [edge[a][c] EXCEPT !.ack = i.revision + 1]
  <2>1. [edge[a][c] EXCEPT !.ack = i.revision + 1] \in RowType
    <3>1. edge[a][c] \in RowType /\ i.revision + 1 \in Nat
      BY <1>0, <1>3
    <3> QED  BY <3>1 DEF RowType
  <2> QED  BY <1>0, <1>3, <1>5, <2>1, SMTT(60)
<1>9. /\ pc' \in [Agent -> Phase] /\ queue' = [b \in Agent |-> queue'[b]]
      /\ \A b \in Agent \ {a} : pc'[b] = pc[b] /\ queue'[b] = queue[b]
      /\ \/ heard /\ pc'[a] = pc[a] /\ queue'[a] = queue[a] \ {i}
         \/ ~heard /\ pc'[a] = "idle"
  BY <1>5, CarriedMoves
<1>10. TypeOK'
  BY <1>0, <1>6, <1>8, <1>9, Zenon DEF TypeOK, RowType, CloudType, ReplyType
<1>11. /\ edge'[a][c].token = edge[a][c].token /\ edge'[a][c].state = edge[a][c].state
       /\ edge'[a][c].ran = edge[a][c].ran /\ edge'[a][c].reported = edge[a][c].reported
       /\ edge'[a][c].ack = IF heard THEN i.revision + 1 ELSE 0
  <2>1. edge[a][c] \in RowType
    BY <1>0, <1>3, Zenon
  <2>2. CASE ~heard
    BY <1>3, <1>8, <2>2, Zenon
  <2>3. CASE heard
    BY <1>8, <2>1, <2>3, ZenonT(60) DEF RowType
  <2> QED  BY <2>2, <2>3, Zenon
<1>12. ItemsTyped'
  <2>1. pc'[a] \notin {"report1", "report2"}
    BY <1>0, <1>9, Zenon
  <2>2. \A b \in Agent \ {a}, x \in Command : edge'[b][x] = edge[b][x]
    BY <1>8, Zenon
  <2>3. pc'[a] = "idle" \/ queue'[a] \subseteq Item
    BY <1>0, <1>9, ZenonT(60)
  <2> QED  BY <1>9, <2>1, <2>2, <2>3, SMTT(60) DEF ItemsTyped, Item
<1>13. reply[c].ack = i.revision \/ \A b \in Agent : edge[b][c].ack = 0
  <2>1. SUFFICES ASSUME cloud[c].status = "delivered", NEW b \in Agent
                 PROVE  edge[b][c].ack = 0
    BY <1>7, Zenon
  <2>2. reply[c].ack = 0
    BY <1>3, <1>4, <2>1, Zenon DEF CloudRecord, AcceptedStatus
  <2>3. RowRecorded(edge[b][c], cloud[c], reply[c]) /\ edge[b][c] \in RowType
    BY <1>0, <1>3, <1>4, Zenon
  <2> QED  BY <2>2, <2>3 DEF RowRecorded, RowType
<1>14. RowsRecorded'
  <2> SUFFICES ASSUME NEW b \in Agent, NEW x \in Command
               PROVE  RowRecorded(edge'[b][x], cloud'[x], reply'[x])
    BY Zenon DEF RowsRecorded
  <2>1. CASE x # c
    BY <1>4, <1>6, <1>8, <2>1, Zenon
  <2>2. CASE x = c
    <3>1. RowRecorded(edge[b][c], cloud[c], reply[c]) /\ edge[b][c] \in RowType
      BY <1>0, <1>3, <1>4, ZenonT(60)
    <3>2. /\ cloud[c].revision \in Nat /\ cloud'[c].revision \in Nat
          /\ cloud'[c] = cloud[c] \/ cloud[c].revision < cloud'[c].revision
      <4>1. cloud[c] \in CloudType /\ cloud'[c] \in CloudType
        BY <1>0, <1>3, <1>6, Zenon
      <4>2. cloud[c].revision \in Nat /\ cloud'[c].revision \in Nat
        BY <4>1, Zenon DEF CloudType
      <4>3. cloud'[c] = cloud[c] \/ cloud'[c].revision = cloud[c].revision + 1
        BY <1>7
      <4> QED  BY <4>2, <4>3
    <3>3. CASE b # a
      <4>1. edge'[b][c] = edge[b][c]
        BY <1>3, <1>8, <3>3, Zenon
      <4>2. edge[b][c].token \in Nat
        BY <3>1, Zenon DEF RowType
      <4>3. edge[b][c].ack # 0 => reply'[c].ack = reply[c].ack
        BY <1>6, <1>13, Zenon
      <4>4. edge[b][c].reported # "no" =>
              edge[b][c].ack # 0 /\ reply'[c].report.status = edge[b][c].reported
        BY <1>6, <3>1, Zenon DEF RowRecorded
      <4>5. RowRecorded(edge'[b][c], cloud'[c], reply'[c])
        BY <1>3, <3>1, <3>2, <4>1, <4>2, <4>3, <4>4, RecordedStays, ZenonT(60)
      <4> QED  BY <2>2, <4>5, Zenon
    <3>4. CASE b = a
      <4>1. /\ edge[a][c].reported = "no"
            /\ 0 < edge[a][c].token /\ edge[a][c].token <= cloud[c].revision
            /\ edge[a][c].token = cloud[c].revision => cloud[c].status = "delivered"
        BY <1>3, <3>1, <3>4, Zenon DEF RowRecorded, RowType
      <4>2. /\ edge[a][c].token <= cloud'[c].revision
            /\ edge[a][c].token = cloud'[c].revision => cloud'[c].status = "delivered"
        BY <1>3, <3>2, <4>1
      <4> QED  BY <1>3, <1>6, <1>11, <2>2, <3>4, <4>1, <4>2, Zenon DEF RowRecorded
    <3> QED  BY <3>3, <3>4, Zenon
  <2> QED  BY <2>1, <2>2, Zenon
<1>15. CloudRecords'
  <2> SUFFICES ASSUME NEW x \in Command PROVE CloudRecord(cloud'[x], reply'[x])
    BY Zenon DEF CloudRecords
  <2>1. CASE x # c
    BY <1>4, <1>6, <2>1, Zenon
  <2>2. CASE x = c
    <3>1. CloudRecord(cloud[c], reply[c])
      BY <1>3, <1>4, Zenon
    <3>2. "accepted" \in AcceptedStatus /\ "delivered" \notin AcceptedStatus
      BY Zenon DEF AcceptedStatus, CloudStatus
    <3>3. CASE reply[c].ack = i.revision /\ cloud'[c] = cloud[c]
      <4>1. reply'[c].ack = reply[c].ack /\ reply'[c].report = reply[c].report
        BY <1>6, <3>3, Zenon
      <4> QED  BY <2>2, <3>1, <3>3, <4>1, ZenonT(60) DEF CloudRecord
    <3>4. CASE /\ cloud[c].status = "delivered"
               /\ cloud'[c] = [status |-> "accepted", expired |-> FALSE,
                               revision |-> i.revision + 1]
      <4>1. cloud'[c].status = "accepted" /\ cloud'[c].revision = reply'[c].ack + 1
        BY <1>6, <3>4
      <4>2. reply'[c].report.status = "none"
        BY <1>6, <3>1, <3>2, <3>4, Zenon DEF CloudRecord
      <4> QED  BY <2>2, <3>2, <4>1, <4>2, ZenonT(60) DEF CloudRecord
    <3> QED  BY <1>7, <3>3, <3>4, Zenon
  <2> QED  BY <2>1, <2>2, Zenon
<1>16. TokensUnique'
  <2>1. \A b \in Agent, x \in Command, r \in Nat : Holds(b, x, r)' => Holds(b, x, r)
    BY <1>0, <1>3, <1>8, <1>9, <1>11, ZenonT(60) DEF Holds
  <2> QED  BY <2>1, Zenon DEF TokensUnique
<1>17. SubmitsKnown'
  <2> SUFFICES ASSUME NEW b \in Agent, pc'[b] = "submit", NEW j \in queue'[b]
               PROVE  /\ 0 < j.revision /\ j.revision <= cloud'[j.cmd].revision
                      /\ j.revision = cloud'[j.cmd].revision => cloud'[j.cmd].status = "delivered"
    BY Zenon DEF SubmitsKnown
  <2>1. pc[b] = "submit" /\ j \in queue[b]
    BY <1>0, <1>9, Zenon
  <2>2. /\ j \in Item /\ 0 < j.revision /\ j.revision <= cloud[j.cmd].revision
        /\ j.revision = cloud[j.cmd].revision => cloud[j.cmd].status = "delivered"
    BY <2>1, Zenon DEF SubmitsKnown, ItemsTyped
  <2>3. j.cmd \in Command /\ j.revision \in Nat
    BY <2>2, Zenon DEF Item
  <2>4. cloud[j.cmd] \in CloudType /\ cloud'[j.cmd] \in CloudType
    BY <1>0, <1>6, <2>3, Zenon
  <2>5. cloud[j.cmd].revision \in Nat /\ cloud'[j.cmd].revision \in Nat
    BY <2>4, Zenon DEF CloudType
  <2>6. CASE j.cmd # c \/ cloud'[c] = cloud[c]
    <3>1. cloud'[j.cmd] = cloud[j.cmd]
      BY <1>6, <2>3, <2>6, Zenon
    <3> QED  BY <2>2, <3>1, Zenon
  <2>7. CASE j.cmd = c /\ cloud[c].revision = i.revision /\ cloud'[c].revision = i.revision + 1
    <3>1. cloud'[j.cmd].revision = cloud[j.cmd].revision + 1
      BY <2>7
    <3> QED  BY <2>2, <2>3, <2>5, <3>1, SMTT(60)
  <2> QED  BY <1>7, <2>6, <2>7, SMTT(60)
<1>18. Flushed' /\ RanFlushed'
  <2>1. \A b \in Agent \ {a} :
          /\ AgentFlushed(b)'
          /\ \A x \in Command : edge'[b][x].ran => edge'[b][x].ack # 0 \/ LeftOut(b, x)'
    <3> TAKE b \in Agent \ {a}
    <3>1. pc'[b] = pc[b] /\ queue'[b] = queue[b]
      BY <1>9, Zenon
    <3>2. \A x \in Command : edge'[b][x] = edge[b][x]
      BY <1>8, Zenon
    <3>3. b \in Agent
      OBVIOUS
    <3> QED  BY <3>1, <3>2, <3>3, FlushedStays, Zenon
  <2>2. /\ Due(a)' = IF heard THEN Due(a) \ {c} ELSE Due(a)
        /\ Acked(a)' = IF heard THEN Acked(a) \cup {c} ELSE Acked(a)
    BY <1>3, <1>8, <1>11 DEF Due, Acked
  <2>3. Covered => Pulled(Due(a)')
    <3>1. Covered => Pulled(Due(a))
      BY Zenon DEF Flushed, AgentFlushed
    <3> QED  BY <2>2, <3>1, Zenon DEF Pulled
  <2>4. \A x \in Command : AckItem(a, x)' = AckItem(a, x)
    BY <1>8, <1>11 DEF AckItem
  <2>5. \A x \in Due(a) : x \in Command /\ AckItem(a, x).cmd = x
    BY DEF AckItem, Due
  <2>6. /\ Acked(a) \subseteq Command /\ Acked(a)' \subseteq Command
        /\ Commands(queue[a]) \subseteq Command /\ Due(a)' \subseteq Due(a)
    BY <1>0, <2>2 DEF Acked, Commands, Item
  <2>7. ASSUME heard
        PROVE  /\ queue'[a] \subseteq {AckItem(a, x)' : x \in Due(a)'}
               /\ \A x \in Due(a)' :
                    \/ AckItem(a, x)' \in queue'[a]
                    \/ FullBatchBefore(Acked(a)' \cup Commands(queue'[a]), x)
    <3>1. Due(a)' = Due(a) \ {c} /\ queue'[a] = queue[a] \ {AckItem(a, c)}
          /\ Acked(a)' = Acked(a) \cup {c}
      BY <1>3, <1>9, <2>2, <2>7, SMTT(60)
    <3>2. queue'[a] \subseteq {AckItem(a, x) : x \in Due(a)'}
      BY <1>1, <3>1
    <3>3. {AckItem(a, x)' : x \in Due(a)'} = {AckItem(a, x) : x \in Due(a)'}
      BY <2>4, <2>5, <2>6, Zenon
    <3>4. Acked(a) \cup Commands(queue[a]) \subseteq Acked(a)' \cup Commands(queue'[a])
      BY <1>3, <3>1, Zenon DEF Commands
    <3>5. ASSUME NEW x \in Due(a)'
          PROVE  \/ AckItem(a, x)' \in queue'[a]
                 \/ FullBatchBefore(Acked(a)' \cup Commands(queue'[a]), x)
      <4>1. x \in Due(a) /\ x \in Command /\ x # c /\ AckItem(a, x)' = AckItem(a, x)
        BY <2>4, <2>5, <3>1, <3>5, ZenonT(60)
      <4>2. CASE AckItem(a, x) \in queue[a]
        <5>1. AckItem(a, x) # AckItem(a, c)
          BY <1>3, <2>5, <4>1, Zenon
        <5> QED  BY <3>1, <4>1, <4>2, <5>1, Zenon
      <4>3. CASE FullBatchBefore(Acked(a) \cup Commands(queue[a]), x)
        <5>1. Acked(a)' \cup Commands(queue'[a]) \subseteq Command
          BY <2>6, <3>1, Zenon DEF Commands
        <5> QED  BY <2>6, <3>4, <4>1, <4>3, <5>1, FullBatchStays, ZenonT(60)
      <4> QED  BY <1>0, <4>1, <4>2, <4>3, ZenonT(60) DEF Flushed, AgentFlushed
    <3> QED  BY <3>2, <3>3, <3>5, ZenonT(60)
  <2>8. AgentFlushed(a)'
    BY <1>0, <1>9, <2>3, <2>7, Zenon DEF AgentFlushed, Pulled, Covered, Commands, FullBatchBefore
  <2>9. ASSUME NEW x \in Command, edge'[a][x].ran
        PROVE  edge'[a][x].ack # 0 \/ LeftOut(a, x)'
    <3>1. edge[a][x].ran /\ (edge[a][x].ack # 0 => x # c)
      BY <1>3, <1>8, <1>11, <2>9, SMTT(60)
    <3>2. CASE edge[a][x].ack # 0
      BY <1>8, <3>1, <3>2, Zenon
    <3>3. CASE LeftOut(a, x)
      <4>1. FullBatchBefore(Acked(a), x) /\ Acked(a) \subseteq Acked(a)'
        BY <2>2, <3>3, Zenon DEF LeftOut
      <4>2. FullBatchBefore(Acked(a)', x)
        BY <2>6, <4>1, FullBatchStays, Zenon
      <4> QED  BY <4>2, Zenon DEF LeftOut, FullBatchBefore
    <3> QED  BY <3>1, <3>2, <3>3, ZenonT(60) DEF RanFlushed
  <2> QED  BY <2>1, <2>8, <2>9, Zenon DEF Flushed, RanFlushed
<1> QED
  BY <1>10, <1>12, <1>14, <1>15, <1>16, <1>17, <1>18, ZenonT(60)

\* A report is recorded once, and marked as published only with the status recorded.
LEMMA ReportStep ==
    ASSUME CloudInv, NEW a \in Agent, NEW heard \in BOOLEAN, Report(a, heard)
    PROVE  CloudInv'
<1> USE DEF CloudInv
<1> DEFINE i == Next1(queue[a])
           c == i.cmd
           record == [status |-> i.status, edits |-> i.edits]
<1>0. /\ pc[a] \in {"report1", "report2"} /\ queue[a] # {} /\ queue[a] \subseteq Item
      /\ edge \in [Agent -> [Command -> RowType]] /\ cloud \in [Command -> CloudType]
      /\ reply \in [Command -> ReplyType] /\ UNCHANGED <<device, mode>>
  BY Zenon DEF Report, ItemsTyped, TypeOK, RowType, CloudType, ReplyType
<1>1. i \in queue[a] /\ i \in Item
  BY <1>0, NextItem, Zenon
<1> HIDE DEF i
<1>2. /\ c \in Command /\ i.status \in ReportStatus /\ i.edits \in Nat
      /\ edge[a][c].ack # 0 /\ edge[a][c] \in RowType
  BY <1>0, <1>1, Zenon DEF Item, ItemsTyped
<1>3. /\ \A b \in Agent, x \in Command : RowRecorded(edge[b][x], cloud[x], reply[x])
      /\ \A x \in Command : CloudRecord(cloud[x], reply[x])
  BY Zenon DEF RowsRecorded, CloudRecords
<1>4. /\ ReportReplays(i) \/ ReportCommits(i)
      /\ cloud' = IF ReportReplays(i) THEN cloud
                  ELSE [cloud EXCEPT ![c].status = i.status, ![c].revision = @ + 1]
      /\ reply' = [reply EXCEPT ![c].report = record]
      /\ edge' = IF heard THEN [edge EXCEPT ![a][c].reported = i.status] ELSE edge
      /\ Carried(a, i, heard)
  BY Zenon DEF Report, i
<1>5. /\ reply' \in [Command -> ReplyType]
      /\ \A x \in Command \ {c} : reply'[x] = reply[x]
      /\ reply'[c].ack = reply[c].ack /\ reply'[c].report = record
  <2>1. record \in [status : ReportStatus \cup {"none"}, edits : Nat]
    BY <1>2, Zenon
  <2> HIDE DEF record
  <2>2. [reply[c] EXCEPT !.report = record] \in ReplyType
    BY <1>0, <1>2, <2>1 DEF ReplyType
  <2> QED  BY <1>0, <1>2, <1>4, <2>2, Zenon DEF ReplyType
<1>6. /\ cloud' \in [Command -> CloudType]
      /\ \A x \in Command \ {c} : cloud'[x] = cloud[x]
      /\ \/ reply[c].report = record /\ cloud'[c] = cloud[c]
         \/ /\ cloud[c].status = "accepted" /\ cloud'[c].status = i.status
            /\ cloud'[c].revision = cloud[c].revision + 1
  <2>1. CASE ReportReplays(i)
    BY <1>0, <1>4, <2>1, Zenon DEF ReportReplays
  <2>2. CASE ~ReportReplays(i)
    <3> DEFINE r == [[cloud[c] EXCEPT !.status = i.status] EXCEPT !.revision = @ + 1]
    <3>1. cloud[c] \in CloudType /\ cloud[c].revision + 1 \in Nat /\ i.status \in CloudStatus
      BY <1>0, <1>2 DEF CloudType, ReportStatus, CloudStatus
    <3>2. r \in CloudType /\ r.status = i.status /\ r.revision = cloud[c].revision + 1
      BY <3>1, Zenon DEF CloudType
    <3>3. cloud' = [cloud EXCEPT ![c] = r]
      BY <1>4, <2>2, Zenon
    <3> HIDE DEF r
    <3> QED  BY <1>0, <1>2, <1>4, <2>2, <3>2, <3>3, ZenonT(60) DEF ReportCommits
  <2> QED  BY <2>1, <2>2, Zenon
<1>6a. \A x \in Command : /\ cloud[x].revision \in Nat /\ cloud'[x].revision \in Nat
                          /\ cloud'[x] = cloud[x] \/ cloud[x].revision < cloud'[x].revision
  <2> SUFFICES ASSUME NEW x \in Command
               PROVE  /\ cloud[x].revision \in Nat /\ cloud'[x].revision \in Nat
                      /\ cloud'[x] = cloud[x] \/ cloud[x].revision < cloud'[x].revision
    BY Zenon
  <2>1. cloud[x] \in CloudType /\ cloud'[x] \in CloudType
    BY <1>0, <1>6, Zenon
  <2>2. cloud[x].revision \in Nat /\ cloud'[x].revision \in Nat
    BY <2>1, Zenon DEF CloudType
  <2>3. cloud'[x] = cloud[x] \/ cloud'[x].revision = cloud[x].revision + 1
    BY <1>6, Zenon
  <2> QED  BY <2>2, <2>3
<1>7. /\ edge' \in [Agent -> [Command -> RowType]]
      /\ \A b \in Agent, x \in Command : b # a \/ x # c => edge'[b][x] = edge[b][x]
      /\ edge'[a][c] = IF heard THEN [edge[a][c] EXCEPT !.reported = i.status] ELSE edge[a][c]
  <2>1. [edge[a][c] EXCEPT !.reported = i.status] \in RowType
    BY <1>2 DEF RowType
  <2> QED  BY <1>0, <1>2, <1>4, <2>1, ZenonT(60)
<1>8. /\ edge'[a][c].token = edge[a][c].token /\ edge'[a][c].state = edge[a][c].state
      /\ edge'[a][c].ran = edge[a][c].ran /\ edge'[a][c].ack = edge[a][c].ack
      /\ edge'[a][c].reported = IF heard THEN i.status ELSE edge[a][c].reported
  <2>1. CASE ~heard
    BY <1>7, <2>1, ZenonT(60)
  <2>2. CASE heard
    BY <1>2, <1>7, <2>2, SMTT(60) DEF RowType
  <2> QED  BY <2>1, <2>2, Zenon
<1>9. \A b \in Agent, x \in Command :
        /\ edge'[b][x].token = edge[b][x].token /\ edge'[b][x].ack = edge[b][x].ack
        /\ edge'[b][x].state = edge[b][x].state /\ edge'[b][x].ran = edge[b][x].ran
  BY <1>7, <1>8, Zenon
<1>10. /\ pc' \in [Agent -> Phase] /\ queue' = [b \in Agent |-> queue'[b]]
       /\ \A b \in Agent \ {a} : pc'[b] = pc[b] /\ queue'[b] = queue[b]
       /\ \/ pc'[a] = pc[a] /\ queue'[a] = queue[a] \ {i}
          \/ pc'[a] = "idle"
  BY <1>4, CarriedMoves, SMTT(60)
<1>11. TypeOK'
  BY <1>0, <1>5, <1>6, <1>7, <1>10, SMTT(60) DEF TypeOK, RowType, CloudType, ReplyType
<1>12. ItemsTyped'
  BY <1>9, <1>10 DEF ItemsTyped, Item
<1>13. \A b \in Agent : edge[b][c].reported # "no" => reply[c].report = record \/
                                                      reply[c].report.status = "none"
  <2> SUFFICES ASSUME cloud[c].status = "accepted" PROVE reply[c].report.status = "none"
    BY <1>6, Zenon
  <2>1. CloudRecord(cloud[c], reply[c])
    BY <1>2, <1>3, Zenon
  <2> QED  BY <2>1, Zenon DEF CloudRecord
<1>14. RowsRecorded'
  <2> SUFFICES ASSUME NEW b \in Agent, NEW x \in Command
               PROVE  RowRecorded(edge'[b][x], cloud'[x], reply'[x])
    BY Zenon DEF RowsRecorded
  <2>0. RowRecorded(edge[b][x], cloud[x], reply[x]) /\ edge[b][x] \in RowType
    BY <1>0, <1>3, Zenon
  <2>1. CASE x # c
    BY <1>5, <1>6, <1>7, <2>0, <2>1, ZenonT(60)
  <2>2. CASE x = c
    <3>1. /\ cloud[c].revision \in Nat /\ cloud'[c].revision \in Nat
          /\ cloud'[c] = cloud[c] \/ cloud[c].revision < cloud'[c].revision
      BY <1>2, <1>6a, Zenon
    <3>2. edge'[b][c].reported # "no" =>
            edge[b][c].ack # 0 /\ reply'[c].report.status = edge'[b][c].reported
      <4>1. CASE b = a /\ heard
        BY <1>2, <1>5, <1>8, <4>1, SMTT(60)
      <4>2. CASE ~(b = a /\ heard)
        <5>1. edge'[b][c].reported = edge[b][c].reported
          BY <1>2, <1>7, <1>8, <4>2, ZenonT(60)
        <5>2. edge[b][c].reported # "no" =>
                edge[b][c].ack # 0 /\ reply[c].report.status = edge[b][c].reported
          BY <2>0, <2>2, Zenon DEF RowRecorded
        <5>3. edge[b][c].reported # "none"
          BY <2>0, <2>2, Zenon DEF RowType, ReportStatus
        <5> QED  BY <1>5, <1>13, <5>1, <5>2, <5>3, ZenonT(60)
      <4> QED  BY <4>1, <4>2, ZenonT(60)
    <3>3. edge[b][c].token \in Nat
      BY <2>0, <2>2, Zenon DEF RowType
    <3>4. /\ edge'[b][c].token = edge[b][c].token /\ edge'[b][c].ack = edge[b][c].ack
          /\ edge'[b][c].state = edge[b][c].state /\ edge'[b][c].ran = edge[b][c].ran
      BY <1>2, <1>9, Zenon
    <3>5. RowRecorded(edge[b][c], cloud[c], reply[c])
      BY <2>0, <2>2, Zenon
    <3>6. edge[b][c].ack # 0 => reply'[c].ack = reply[c].ack
      BY <1>5, Zenon
    <3>7. RowRecorded(edge'[b][c], cloud'[c], reply'[c])
      BY <1>2, <3>1, <3>2, <3>3, <3>4, <3>5, <3>6, RecordedStays, Zenon
    <3> QED  BY <2>2, <3>7, ZenonT(60)
  <2> QED  BY <2>1, <2>2, Zenon
<1>15. CloudRecords'
  <2> SUFFICES ASSUME NEW x \in Command PROVE CloudRecord(cloud'[x], reply'[x])
    BY Zenon DEF CloudRecords
  <2>0. CloudRecord(cloud[x], reply[x])
    BY <1>3, Zenon
  <2>1. CASE x # c
    BY <1>5, <1>6, <2>0, <2>1, ZenonT(60)
  <2>2. CASE x = c
    <3>1. CASE reply[c].report = record /\ cloud'[c] = cloud[c]
      BY <1>5, <2>0, <2>2, <3>1, ZenonT(60) DEF CloudRecord
    <3>2. CASE cloud[c].status = "accepted" /\ cloud'[c].status = i.status
      <4>1. i.status \in AcceptedStatus \ {"accepted", "absent"} /\ i.status # "none"
        BY <1>2, Zenon DEF AcceptedStatus, CloudStatus, ReportStatus
      <4>2. reply'[c].report.status = i.status
        BY <1>5
      <4> QED  BY <2>2, <3>2, <4>1, <4>2, ZenonT(60) DEF CloudRecord
    <3> QED  BY <1>6, <3>1, <3>2, Zenon
  <2> QED  BY <2>1, <2>2, Zenon
<1>16. TokensUnique'
  <2>1. \A b \in Agent, x \in Command, r \in Nat : Holds(b, x, r)' => Holds(b, x, r)
    BY <1>0, <1>9, <1>10, ZenonT(60) DEF Holds
  <2> QED  BY <2>1, Zenon DEF TokensUnique
<1>17. SubmitsKnown'
  <2> SUFFICES ASSUME NEW b \in Agent, pc'[b] = "submit", NEW j \in queue'[b]
               PROVE  /\ 0 < j.revision /\ j.revision <= cloud'[j.cmd].revision
                      /\ j.revision = cloud'[j.cmd].revision => cloud'[j.cmd].status = "delivered"
    BY DEF SubmitsKnown
  <2>1. pc[b] = "submit" /\ j \in queue[b]
    BY <1>0, <1>10, Zenon
  <2>2. /\ j \in Item /\ 0 < j.revision /\ j.revision <= cloud[j.cmd].revision
        /\ j.revision = cloud[j.cmd].revision => cloud[j.cmd].status = "delivered"
    BY <2>1, Zenon DEF SubmitsKnown, ItemsTyped
  <2>3. j.cmd \in Command /\ j.revision \in Nat
    BY <2>2, Zenon DEF Item
  <2> QED  BY <1>6a, <2>2, <2>3
<1>18. Flushed' /\ RanFlushed'
  <2>1. \A b \in Agent, x \in Command :
          /\ edge'[b][x].ran => edge[b][x].ran
          /\ edge'[b][x].state = "absent" <=> edge[b][x].state = "absent"
    BY <1>9, Zenon
  <2>2. Due(a)' = Due(a) /\ \A b \in Agent : Acked(b)' = Acked(b)
    BY <1>9 DEF Due, Acked
  <2>3. \A b \in Agent, x \in Command : LeftOut(b, x)' = LeftOut(b, x)
    BY <2>2, Zenon DEF LeftOut, FullBatchBefore
  <2>4. \A b \in Agent \ {a} : AgentFlushed(b)'
    <3> SUFFICES ASSUME NEW b \in Agent \ {a} PROVE AgentFlushed(b)'
      OBVIOUS
    <3>1. \A x \in Command : edge'[b][x] = edge[b][x]
      BY <1>7, Zenon
    <3> QED  BY <1>10, <3>1, FlushedStays, Zenon
  <2>5. AgentFlushed(a)'
    <3>1. AgentFlushed(a) /\ AllFlushed(a)
      BY <1>0, Zenon DEF Flushed, AgentFlushed
    <3>2. AllFlushed(a)'
      <4>1. Due(a) \subseteq Command
        BY DEF Due
      <4> QED  BY <2>2, <2>3, <3>1, <4>1, ZenonT(60) DEF AllFlushed
    <3>3. Covered => Pulled(Due(a)')
      BY <2>2, <3>1, Zenon DEF AgentFlushed
    <3> QED  BY <1>0, <1>10, <3>2, <3>3, ZenonT(60) DEF AgentFlushed, Pulled, Covered
  <2>6. RanFlushed'
    <3> SUFFICES ASSUME NEW b \in Agent, NEW x \in Command, edge'[b][x].ran
                 PROVE  edge'[b][x].ack # 0 \/ LeftOut(b, x)'
      BY Zenon DEF RanFlushed
    <3>1. edge[b][x].ack # 0 \/ LeftOut(b, x)
      BY <2>1, Zenon DEF RanFlushed
    <3> QED  BY <1>9, <2>3, <3>1, Zenon
  <2> QED  BY <2>4, <2>5, <2>6, Zenon DEF Flushed
<1> QED
  BY <1>11, <1>12, <1>14, <1>15, <1>16, <1>17, <1>18, SMTT(60)

-----------------------------------------------------------------------------
(* Theorems *)

\* The invariant is inductive: it holds at the start and every step keeps it.
THEOREM CloudInductive == Spec => []CloudInv
<1>1. Init => CloudInv
  <2> SUFFICES ASSUME Init PROVE CloudInv
    BY Zenon
  <2>1. NoRow \in RowType
    BY Zenon DEF NoRow, RowType, EdgeState, Flaw
  <2>2. /\ \A a \in Agent : pc[a] = "idle" /\ queue[a] = {}
        /\ \A a \in Agent, c \in Command : edge[a][c] = NoRow
        /\ \A c \in Command : /\ cloud[c].status = "absent" /\ cloud[c].revision = 0
                              /\ reply[c].ack = 0 /\ reply[c].report.status = "none"
    BY Zenon DEF Init
  <2>3. TypeOK
    BY <2>1, Zenon DEF Init, TypeOK, RowType, CloudStatus, ControlMode, Phase
  <2>4. ItemsTyped
    BY <2>2, Zenon DEF Init, ItemsTyped
  <2>5. RowsRecorded
    <3>1. /\ NoRow.state = "absent" /\ NoRow.token = 0 /\ NoRow.ack = 0
          /\ NoRow.reported = "no" /\ NoRow.ran = FALSE
      BY Zenon DEF NoRow
    <3> SUFFICES ASSUME NEW a \in Agent, NEW c \in Command
                 PROVE  RowRecorded(NoRow, cloud[c], reply[c])
      BY <2>2, Zenon DEF RowsRecorded
    <3> QED  BY <3>1, Zenon DEF RowRecorded
  <2>6. CloudRecords /\ SubmitsKnown
    BY <2>2, Zenon DEF CloudRecords, CloudRecord, AcceptedStatus, SubmitsKnown
  <2>7. TokensUnique
    BY <2>2 DEF TokensUnique, Holds, NoRow
  <2>8. \A a \in Agent : Due(a) = {}
    BY <2>2 DEF Due, NoRow
  <2>9. Flushed
    BY <2>2, <2>8, Zenon DEF Flushed, AgentFlushed, Pulled
  <2>10. RanFlushed
    BY <2>2 DEF RanFlushed, NoRow
  <2> QED  BY <2>3, <2>4, <2>5, <2>6, <2>7, <2>9, <2>10, Zenon DEF CloudInv
<1>2. CloudInv /\ [Next]_vars => CloudInv'
  <2> SUFFICES ASSUME CloudInv, [Next]_vars PROVE CloudInv'
    BY Zenon
  <2>1. CASE UNCHANGED vars
    <3> USE <2>1 DEF vars, CloudInv
    <3>1. TypeOK' /\ ItemsTyped'
      BY Zenon DEF TypeOK, ItemsTyped
    <3>2. RowsRecorded' /\ CloudRecords'
      BY Zenon DEF RowsRecorded, CloudRecords
    <3>3. TokensUnique' /\ SubmitsKnown'
      BY DEF TokensUnique, Holds, SubmitsKnown
    <3>4. \A a \in Agent :
            /\ AgentFlushed(a)'
            /\ \A c \in Command : edge'[a][c].ran => edge'[a][c].ack # 0 \/ LeftOut(a, c)'
      BY FlushedStays
    <3>5. Flushed' /\ RanFlushed'
      BY <3>4, Zenon DEF Flushed, RanFlushed
    <3> QED  BY <3>1, <3>2, <3>3, <3>5, ZenonT(60)
  <2>2. CASE CloudOperator \/ Clock
    BY <2>2, OperatorAndClock, TimeStep, Zenon DEF Clock
  <2>3. ASSUME NEW a \in Agent, LocalOperator(a) PROVE CloudInv'
    BY <2>3, LocalSteps, Zenon
  <2>4. ASSUME NEW a \in Agent, CycleStep(a) PROVE CloudInv'
    <3>1. CASE BeginCycle(a) \/ Abandon(a) \/ Refused(a) \/ LoopEnds(a)
      BY <3>1, QuietCycleSteps, Zenon
    <3>2. ASSUME NEW heard \in BOOLEAN, Acknowledge(a, heard) PROVE CloudInv'
      BY <3>2, AcknowledgeStep, Zenon
    <3>3. ASSUME NEW heard \in BOOLEAN, Report(a, heard) PROVE CloudInv'
      BY <3>3, ReportStep, Zenon
    <3>4. ASSUME NEW heard \in BOOLEAN, PullCommands(a, heard) PROVE CloudInv'
      BY <3>4, PullStep
    <3>5. ASSUME NEW heard \in BOOLEAN, NEW published \in SUBSET Device,
                 NEW works \in SUBSET published, PublishHeartbeats(a, published, works, heard)
          PROVE  CloudInv'
      BY <3>5, DeviceSteps, Zenon
    <3>6. ASSUME NEW fit \in Fits, ReconcileControls(a, fit) PROVE CloudInv'
      BY <3>6, DeviceSteps, Zenon
    <3>7. ASSUME NEW fit \in Fits, SubmitDelivery(a, fit) PROVE CloudInv'
      BY <3>7, SubmitStep, Zenon
    <3>8. ASSUME NEW c \in Command,
                 NEW outcome \in {"open", "succeeded", "failed", "manual_review"},
                 NEW fit \in Fits, EngineRuns(a, c, outcome, fit)
          PROVE  CloudInv'
      BY <3>8, EngineStep, Zenon
    <3> QED
      BY <2>4, <3>1, <3>2, <3>3, <3>4, <3>5, <3>6, <3>7, <3>8, SMTT(60) DEF CycleStep
  <2> QED
    BY <2>1, <2>2, <2>3, <2>4, Zenon DEF Next
<1> QED
  BY <1>1, <1>2, PTL DEF Spec

\* A command is carried out by the engine of one agent at most, for any number of
\* agents, expiries, losses and crashes (acknowledge_command, run_once), unless an
\* agent found it left out of a full batch of acknowledgements, which takes a
\* sync_batch_size below the pull_limit.
THEOREM OneAgentRunsHolds == Spec => []OneAgentRuns
<1>1. CloudInv => OneAgentRuns
  <2> SUFFICES ASSUME CloudInv, NEW c \in Command, NEW a \in Agent, NEW b \in Agent,
                      edge[a][c].ran, edge[b][c].ran, ~LeftOut(a, c), ~LeftOut(b, c)
               PROVE  a = b
    BY Zenon DEF OneAgentRuns
  <2>1. /\ RowRecorded(edge[a][c], cloud[c], reply[c])
        /\ RowRecorded(edge[b][c], cloud[c], reply[c])
        /\ edge[a][c] \in RowType
    BY DEF CloudInv, RowsRecorded, TypeOK, RowType
  <2>2. /\ edge[a][c].token = edge[b][c].token /\ edge[a][c].token # 0
        /\ edge[a][c].token \in Nat
    <3>1. edge[a][c].ack # 0 /\ edge[b][c].ack # 0
      BY Zenon DEF CloudInv, RanFlushed
    <3>2. edge[a][c].token = reply[c].ack /\ edge[b][c].token = reply[c].ack
      BY <2>1, <3>1, Zenon DEF RowRecorded
    <3>3. edge[a][c].state # "absent"
      BY <2>1, <3>1, Zenon DEF RowRecorded
    <3>4. 0 < edge[a][c].token
      BY <2>1, <3>3, Zenon DEF RowRecorded
    <3>5. edge[a][c].token \in Nat
      BY <2>1, Zenon DEF RowType
    <3>6. edge[a][c].token # 0
      BY <3>4, <3>5
    <3> QED  BY <3>2, <3>5, <3>6, Zenon
  <2>3. Holds(a, c, edge[a][c].token) /\ Holds(b, c, edge[a][c].token)
    BY <2>2, ZenonT(60) DEF Holds
  <2> QED  BY <2>1, <2>2, <2>3, Zenon DEF CloudInv, TokensUnique
<1> QED
  BY <1>1, CloudInductive, PTL

\* No engine starts a command the cloud has not accepted (the flush between
\* submission and execution in run_once), unless it was left out of a full batch of
\* acknowledgements.
THEOREM RunsOnlyAcceptedHolds == Spec => []RunsOnlyAccepted
<1>1. CloudInv => RunsOnlyAccepted
  <2> SUFFICES ASSUME CloudInv, NEW a \in Agent, NEW c \in Command, edge[a][c].ran,
                      ~LeftOut(a, c)
               PROVE  reply[c].ack # 0
    BY Zenon DEF RunsOnlyAccepted
  <2>1. RowRecorded(edge[a][c], cloud[c], reply[c]) /\ edge[a][c].token \in Nat
    BY DEF CloudInv, RowsRecorded, TypeOK
  <2>2. edge[a][c].ack # 0
    BY ZenonT(60) DEF CloudInv, RanFlushed
  <2> QED  BY <2>1, <2>2 DEF RowRecorded
<1> QED
  BY <1>1, CloudInductive, PTL

\* What an agent holds as acknowledged or reported the cloud has recorded, and it is
\* the acceptance the agent will report against (mark_cloud_acknowledged,
\* mark_cloud_reported).
THEOREM PublishedIsRecordedHolds == Spec => []PublishedIsRecorded
<1>1. CloudInv => PublishedIsRecorded
  <2> SUFFICES ASSUME CloudInv, NEW a \in Agent, NEW c \in Command
               PROVE  /\ edge[a][c].ack # 0 => /\ edge[a][c].ack = reply[c].ack + 1
                                               /\ edge[a][c].token = reply[c].ack
                                               /\ Accepted(c)
                                               /\ cloud[c].status = "accepted" =>
                                                    cloud[c].revision = edge[a][c].ack
                      /\ edge[a][c].reported # "no" =>
                           reply[c].report.status = edge[a][c].reported
    BY Zenon DEF PublishedIsRecorded
  <2>1. RowRecorded(edge[a][c], cloud[c], reply[c]) /\ CloudRecord(cloud[c], reply[c])
    BY Zenon DEF CloudInv, RowsRecorded, CloudRecords
  <2> QED  BY <2>1 DEF RowRecorded, CloudRecord, Accepted, AcceptedStatus
<1> QED
  BY <1>1, CloudInductive, PTL

\* A flush is refused for the causes BlockedForCause names only: a row in step with
\* the cloud and fit to be reported is always acknowledged or reported
\* (acknowledge_command, report_command).
THEOREM BlockedForCauseHolds == Spec => []BlockedForCause
<1>1. CloudInv => BlockedForCause
  <2> SUFFICES ASSUME CloudInv, NEW a \in Agent, Blocked(a)
               PROVE  \E c \in Command : \/ Superseded(a, c) \/ HeldByReview(a, c)
                                         \/ TooEarly(a, c) \/ Unfit(a, c) \/ ChangedSince(a, c)
    BY Zenon DEF BlockedForCause
  <2>1. ASSUME NEW i \in AckItems(a), AckRefused(i)
        PROVE  \E c \in Command : Superseded(a, c) \/ HeldByReview(a, c)
    <3>0. PICK c \in Command : /\ edge[a][c].state # "absent" /\ edge[a][c].ack = 0
                               /\ i = [cmd |-> c, revision |-> edge[a][c].token,
                                       status |-> "accepted", edits |-> 0, flaw |-> "none"]
      BY Zenon DEF AckItems, First
    <3>1. /\ edge[a][c].state # "absent" /\ edge[a][c].ack = 0
          /\ i.cmd = c /\ i.revision = edge[a][c].token
      BY <3>0, Zenon
    <3>2. RowRecorded(edge[a][c], cloud[c], reply[c])
      BY Zenon DEF CloudInv, RowsRecorded
    <3>3. reply[c].ack # edge[a][c].token
      BY <2>1, <3>1, Zenon DEF AckRefused, AckReplays
    <3>4. CASE UnderReview(DeviceOf[c])
      BY <3>1, <3>4, Zenon DEF HeldByReview
    <3>5. CASE ~UnderReview(DeviceOf[c])
      <4>1. cloud[c].revision # edge[a][c].token
        BY <2>1, <3>1, <3>2, <3>5, Zenon DEF AckRefused, AckCommits, RowRecorded
      <4> QED  BY <3>1, <3>3, <4>1, Zenon DEF Superseded
    <3> QED  BY <3>4, <3>5, Zenon
  <2>2. ASSUME NEW i \in ReportItems(a), ReportRefused(i)
        PROVE  \E c \in Command : TooEarly(a, c) \/ Unfit(a, c) \/ ChangedSince(a, c)
    <3>1. PICK c \in Command : /\ edge[a][c].ack # 0 /\ edge[a][c].reported = "no"
                               /\ i = [cmd |-> c, revision |-> edge[a][c].ack,
                                       status |-> WireStatus(edge[a][c].state),
                                       edits |-> edge[a][c].edits, flaw |-> edge[a][c].flaw]
      BY Zenon DEF ReportItems, First
    <3>2. /\ RowRecorded(edge[a][c], cloud[c], reply[c]) /\ CloudRecord(cloud[c], reply[c])
          /\ edge[a][c] \in RowType
      BY DEF CloudInv, RowsRecorded, CloudRecords, TypeOK, RowType
    <3>3. ~ReportReplays(i) /\ (ReportKeyTaken(i) \/ ~ReportCommits(i))
      BY <2>2, Zenon DEF ReportRefused
    <3>4. CASE edge[a][c].flaw # "none"
      <4>1. edge[a][c].flaw = "early" \/ edge[a][c].flaw = "unfit"
        BY <3>2, <3>4, Zenon DEF RowType, Flaw
      <4> QED  BY <3>1, <4>1, Zenon DEF TooEarly, Unfit
    <3>5. CASE reply[c].report.status # "none"
      BY <3>1, <3>3, <3>5, Zenon DEF ReportReplays, ChangedSince
    <3>6. CASE edge[a][c].flaw = "none" /\ reply[c].report.status = "none"
      <4>1. cloud[c].status = "accepted"
        <5>0. /\ edge[a][c].token \in Nat /\ 0 < edge[a][c].token
              /\ reply[c].ack = edge[a][c].token
          <6>1. edge[a][c].state # "absent" /\ edge[a][c].token \in Nat
            BY <3>1, <3>2, ZenonT(60) DEF RowRecorded, RowType
          <6> QED  BY <3>1, <3>2, <6>1, Zenon DEF RowRecorded
        <5>1. reply[c].ack # 0
          BY <5>0
        <5> QED  BY <3>2, <3>6, <5>1, Zenon DEF CloudRecord
      <4>2. cloud[c].revision = edge[a][c].ack
        BY <3>1, <3>2, <4>1, Zenon DEF CloudRecord, RowRecorded
      <4>3. WireStatus(edge[a][c].state) # "none"
        BY Zenon DEF WireStatus
      <4> QED  BY <3>1, <3>3, <3>6, <4>1, <4>2, <4>3, ZenonT(60) DEF ReportKeyTaken, ReportCommits
    <3> QED  BY <3>4, <3>5, <3>6, Zenon
  <2> QED  BY <2>1, <2>2, Zenon DEF Blocked
<1> QED
  BY <1>1, CloudInductive, PTL

\* All state keeps its type.
THEOREM CloudTypes == Spec => []TypeOK
<1>1. CloudInv => TypeOK
  BY DEF CloudInv
<1> QED
  BY <1>1, CloudInductive, PTL
=============================================================================
