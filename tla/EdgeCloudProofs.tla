--------------------------- MODULE EdgeCloudProofs ---------------------------
(***************************************************************************)
(* Proofs about EdgeCloud, for any number of agents, devices and commands: *)
(* a command is run by one agent at most, only after the cloud accepted it *)
(* (but for commands left out of a full batch of acknowledgements), what   *)
(* an agent holds as published the cloud has recorded, and a flush is      *)
(* refused for a known cause.                                              *)
(*                                                                         *)
(* The argument: a revision is delivered once, so no two agents hold the   *)
(* same delivery of a command (TokensUnique); the cloud accepts one        *)
(* revision of a command (CloudRecords) and an agent holds an              *)
(* acknowledgement only of the revision accepted (RowsRecorded); and where *)
(* the cycle reaches the engine, what is unacknowledged was left out of a  *)
(* full batch (Flushed): with batches as large as a pull nothing is,       *)
(* because each flush takes all that one pull left behind.                 *)
(***************************************************************************)
EXTENDS EdgeCloud, TLAPS, FiniteSetTheorems, WellFoundedInduction

Item == [cmd : Command, revision : Nat, status : CloudStatus, edits : Nat, flaw : Flaw]

\* The commands of agent a whose acknowledgement is still due.
Due(a) == {c \in Command : edge[a][c].state # "absent" /\ edge[a][c].ack = 0}

AckItem(a, c) == [cmd |-> c, revision |-> edge[a][c].token, status |-> "accepted",
                  edits |-> 0, flaw |-> "none"]

\* A flush takes all that one pull can have brought.
Covered == PullLimit <= BatchSize

\* What one pull can have left behind.
Pulled(cs) == \E S \in SUBSET Command : cs \subseteq First(S, PullLimit)

\* A cycle's snapshot holds items of its kind; reports are of acknowledged rows.
ItemsTyped ==
    /\ queue = [a \in Agent |-> queue[a]]
    /\ \A a \in Agent :
         /\ pc[a] \in {"ack1", "ack2", "submit", "report1", "report2"} => queue[a] \subseteq Item
         /\ pc[a] \in {"report1", "report2"} =>
              \A i \in queue[a] : i.status \in ReportStatus /\ edge[a][i.cmd].ack # 0

\* What a row holds of its delivery agrees with what the cloud recorded.
RowRecorded(r, cl, rp) ==
    /\ r.state = "absent" => r.token = 0 /\ r.ack = 0 /\ r.reported = "no"
    /\ r.state # "absent" => 0 < r.token /\ r.token <= cl.revision
    /\ r.state # "absent" /\ r.token = cl.revision => cl.status = "delivered"
    /\ r.ack # 0 => r.ack = r.token + 1 /\ rp.ack = r.token
    /\ r.reported # "no" => r.ack # 0 /\ rp.report.status = r.reported

RowsRecorded == \A a \in Agent, c \in Command : RowRecorded(edge[a][c], cloud[c], reply[c])

AcceptedStatus == CloudStatus \ {"absent", "queued", "delivered", "cancelled"}

\* The cloud's status agrees with the acknowledgement and the report it recorded.
CloudRecord(cl, rp) ==
    /\ cl.status = "absent" => cl.revision = 0
    /\ rp.ack # 0 => cl.status \in AcceptedStatus
    /\ cl.status = "accepted" => cl.revision = rp.ack + 1
    /\ rp.report.status # "none" <=> cl.status \in AcceptedStatus \ {"accepted"}

CloudRecords == \A c \in Command : CloudRecord(cloud[c], reply[c])

\* Delivery r of command c is in agent a's hands.
Holds(a, c, r) ==
    \/ edge[a][c].token = r
    \/ pc[a] = "submit" /\ \E i \in queue[a] : i.cmd = c /\ i.revision = r

\* No two agents hold the same delivery of a command.
TokensUnique ==
    \A a, b \in Agent, c \in Command, r \in Nat :
      r # 0 /\ Holds(a, c, r) /\ Holds(b, c, r) => a = b

\* A pulled delivery is one the cloud has handed out.
SubmitsKnown ==
    \A a \in Agent : pc[a] = "submit" =>
      \A i \in queue[a] :
        /\ 0 < i.revision /\ i.revision <= cloud[i.cmd].revision
        /\ i.revision = cloud[i.cmd].revision => cloud[i.cmd].status = "delivered"

Commands(items) == {i.cmd : i \in items}

\* What is still due at the agent was left out of a full batch.
AllFlushed(a) == \A c \in Due(a) : LeftOut(a, c)

\* With batches as large as a pull, the rows still to acknowledge came from one pull.
\* A flush has each of them in its snapshot, or a full batch before it, and once it
\* is over the ones left had that batch acknowledged before them.
AgentFlushed(a) ==
    /\ Covered => Pulled(Due(a))
    /\ pc[a] \in {"ack1", "ack2"} =>
         /\ queue[a] \subseteq {AckItem(a, c) : c \in Due(a)}
         /\ \A c \in Due(a) : \/ AckItem(a, c) \in queue[a]
                              \/ FullBatchBefore(Acked(a) \cup Commands(queue[a]), c)
    /\ pc[a] = "submit" /\ Covered => Pulled(Due(a) \cup Commands(queue[a]))
    /\ pc[a] \in {"report1", "registry", "heartbeat", "pull", "execute", "report2"} =>
         AllFlushed(a)

Flushed == \A a \in Agent : AgentFlushed(a)

\* The engine ran a command that was acknowledged, or left out.
RanFlushed ==
    \A a \in Agent, c \in Command :
      edge[a][c].ran => edge[a][c].ack # 0 \/ LeftOut(a, c)

CloudInv == TypeOK /\ ItemsTyped /\ RowsRecorded /\ CloudRecords /\ TokensUnique
            /\ SubmitsKnown /\ Flushed /\ RanFlushed

-----------------------------------------------------------------------------
(* Operators of the model *)

\* The loops of run_once take an item of their snapshot while there is one.
LEMMA NextItem ==
    ASSUME NEW items \in SUBSET Item, items # {}
    PROVE  Next1(items) \in items
<1> DEFINE T == {i.cmd : i \in items}
<1>1. T \subseteq Nat /\ T # {}
  BY CommandAssumption, Zenon DEF Item
<1> DEFINE R == {ss \in Nat \X Nat : ss[1] < ss[2]}
<1>2. IsWellFoundedOn(R, Nat)
  BY NatLessThanWellFounded DEF OpToRel
<1>3. PICK x \in T : \A y \in T : ~(<<y, x>> \in R)
  <2> HIDE DEF R
  <2> QED  BY <1>1, <1>2, WFMin, Zenon
<1>4. \A y \in T : ~(y < x)
  BY <1>1, <1>3, Zenon
<1>5. PICK i \in items : i.cmd = x
  OBVIOUS
<1>6. \A j \in items : i.cmd <= j.cmd
  <2> TAKE j \in items
  <2>1. j.cmd \in T
    OBVIOUS
  <2>2. j.cmd \in Nat /\ x \in Nat
    BY <1>1, <2>1
  <2> HIDE DEF T
  <2> QED  BY <1>4, <1>5, <2>1, <2>2
<1> QED
  BY <1>6 DEF Next1

\* Where a full batch goes before a command, it does so in every larger set.
LEMMA FullBatchStays ==
    ASSUME NEW S \in SUBSET Command, NEW T \in SUBSET Command, S \subseteq T,
           NEW c \in Command, FullBatchBefore(S, c)
    PROVE  FullBatchBefore(T, c)
<1> DEFINE s == {x \in S : x < c}
           t == {x \in T : x < c}
<1>1. s \subseteq t /\ t \subseteq Command
  OBVIOUS
<1>2. IsFiniteSet(t)
  BY <1>1, CommandAssumption, FS_Subset, Zenon
<1>3. Cardinality(s) <= Cardinality(t) /\ Cardinality(s) \in Nat /\ Cardinality(t) \in Nat
  BY <1>1, <1>2, FS_Subset, FS_CardinalityType, Zenon
<1> QED
  BY <1>3, LimitsAssumption DEF FullBatchBefore

\* What LIMIT n leaves out has n of the chosen ones before it.
LEMMA FirstBefore ==
    ASSUME NEW S \in SUBSET Command, NEW n \in Nat, NEW c \in S, c \notin First(S, n)
    PROVE  Cardinality({x \in First(S, n) : x < c}) >= n
<1> DEFINE before(x) == {y \in S : y < x}
           late == {x \in S : ~(Cardinality(before(x)) < n)}
           R == {ss \in Nat \X Nat : ss[1] < ss[2]}
<1>1. late \subseteq Nat /\ c \in late
  BY CommandAssumption, Zenon DEF First
<1>2. IsWellFoundedOn(R, Nat)
  BY NatLessThanWellFounded DEF OpToRel
<1>3. PICK x \in late : \A y \in late : ~(<<y, x>> \in R)
  <2> HIDE DEF R, late
  <2> QED  BY <1>1, <1>2, WFMin, Zenon
<1>4. \A y \in late : ~(y < x)
  <2> HIDE DEF late
  <2> QED  BY <1>1, <1>3, Zenon
<1>5. x <= c
  <2> HIDE DEF late
  <2> QED  BY <1>1, <1>4
<1>6. before(x) \subseteq {y \in First(S, n) : y < c}
  <2> SUFFICES ASSUME NEW y \in S, y < x PROVE y \in First(S, n) /\ y < c
    OBVIOUS
  <2>1. y \notin late
    BY <1>4
  <2>2. y \in First(S, n)
    BY <2>1 DEF First
  <2>3. y \in Nat /\ x \in Nat /\ c \in Nat
    BY CommandAssumption
  <2> QED  BY <1>5, <2>2, <2>3
<1>7. IsFiniteSet({y \in First(S, n) : y < c})
  BY CommandAssumption, FS_Subset, Zenon DEF First
<1>8. /\ Cardinality(before(x)) <= Cardinality({y \in First(S, n) : y < c})
      /\ Cardinality(before(x)) \in Nat /\ Cardinality({y \in First(S, n) : y < c}) \in Nat
  <2> HIDE DEF before
  <2> QED  BY <1>6, <1>7, FS_Subset, FS_CardinalityType
<1>9. ~(Cardinality(before(x)) < n)
  OBVIOUS
<1> QED
  BY <1>8, <1>9

\* A pull no larger than a batch leaves nothing out of it.
LEMMA CoveredFirst ==
    ASSUME NEW S \in SUBSET Command, Covered, Pulled(S)
    PROVE  First(S, BatchSize) = S
<1>1. PICK P \in SUBSET Command : S \subseteq First(P, PullLimit)
  BY DEF Pulled
<1> SUFFICES ASSUME NEW c \in S PROVE Cardinality({x \in S : x < c}) < BatchSize
  BY DEF First
<1>2. {x \in S : x < c} \subseteq {x \in P : x < c} /\ c \in First(P, PullLimit)
  BY <1>1, Zenon DEF First
<1>3. IsFiniteSet({x \in P : x < c})
  BY CommandAssumption, FS_Subset, Zenon
<1>4. /\ Cardinality({x \in S : x < c}) <= Cardinality({x \in P : x < c})
      /\ Cardinality({x \in S : x < c}) \in Nat /\ Cardinality({x \in P : x < c}) \in Nat
  BY <1>2, <1>3, FS_Subset, FS_CardinalityType
<1>5. Cardinality({x \in P : x < c}) < PullLimit
  BY <1>2 DEF First
<1> QED
  BY <1>4, <1>5, LimitsAssumption DEF Covered

\* A flush of acknowledgements finds what is due, but for what has a full batch
\* before it.
LEMMA FlushFinds ==
    ASSUME NEW a \in Agent, Covered => Pulled(Due(a))
    PROVE  /\ AckItems(a) \subseteq {AckItem(a, c) : c \in Due(a)}
           /\ \A c \in Due(a) : \/ AckItem(a, c) \in AckItems(a)
                                \/ FullBatchBefore(Acked(a) \cup Commands(AckItems(a)), c)
<1> DEFINE taken == First(Due(a), BatchSize)
<1>1. AckItems(a) = {AckItem(a, c) : c \in taken}
  BY DEF AckItems, AckItem, Due
<1>2. taken \subseteq Due(a) /\ Due(a) \subseteq Command /\ Acked(a) \subseteq Command
  BY DEF First, Due, Acked
<1>3. \A c \in taken : AckItem(a, c).cmd = c
  BY DEF AckItem
<1>4. Commands(AckItems(a)) = taken
  <2> HIDE DEF taken
  <2> QED  BY <1>1, <1>3 DEF Commands
<1>5. ASSUME NEW c \in Due(a), c \notin taken
      PROVE  FullBatchBefore(Acked(a) \cup taken, c)
  <2>1. ~Covered
    BY <1>2, <1>5, CoveredFirst
  <2>2. BatchSize \in Nat /\ BatchSize < PullLimit
    BY <2>1, LimitsAssumption DEF Covered
  <2>3. Cardinality({x \in taken : x < c}) >= BatchSize
    BY <1>2, <1>5, <2>2, FirstBefore, Zenon
  <2>4. FullBatchBefore(taken, c)
    BY <2>2, <2>3, Zenon DEF FullBatchBefore
  <2> HIDE DEF taken
  <2> QED  BY <1>2, <2>4, FullBatchStays, Zenon
<1> HIDE DEF taken
<1> QED
  BY <1>1, <1>2, <1>4, <1>5, Zenon

\* A report sends a wire status for an acknowledged command.
LEMMA ReportItemsTyped ==
    ASSUME NEW a \in Agent, TypeOK
    PROVE  /\ ReportItems(a) \subseteq Item
           /\ \A i \in ReportItems(a) : i.status \in ReportStatus /\ edge[a][i.cmd].ack # 0
<1> SUFFICES ASSUME NEW i \in ReportItems(a)
             PROVE  i \in Item /\ i.status \in ReportStatus /\ edge[a][i.cmd].ack # 0
  OBVIOUS
<1>1. PICK c \in Command : /\ edge[a][c].ack # 0
                           /\ i = [cmd |-> c, revision |-> edge[a][c].ack,
                                   status |-> WireStatus(edge[a][c].state),
                                   edits |-> edge[a][c].edits, flaw |-> edge[a][c].flaw]
  BY Zenon DEF ReportItems, First
<1>2. WireStatus(edge[a][c].state) \in ReportStatus
  BY DEF WireStatus, ReportStatus
<1>3. edge[a][c] \in [state : EdgeState, edits : Nat, flaw : Flaw, ran : BOOLEAN,
                      token : Nat, ack : Nat, reported : ReportStatus \cup {"no"}]
  BY DEF TypeOK
<1>4. WireStatus(edge[a][c].state) \in CloudStatus
  BY <1>2 DEF ReportStatus, CloudStatus
<1> QED
  BY <1>1, <1>2, <1>3, <1>4, Zenon DEF Item

\* An acknowledgement item is typed and names its command.
LEMMA AckItemTyped ==
    ASSUME TypeOK, NEW a \in Agent, NEW c \in Command
    PROVE  AckItem(a, c) \in Item /\ AckItem(a, c).cmd = c
<1>1. edge[a][c].token \in Nat
  BY DEF TypeOK
<1> QED
  BY <1>1 DEF AckItem, Item, CloudStatus, Flaw

-----------------------------------------------------------------------------
(* Steps that send nothing *)

RowType == [state : EdgeState, edits : Nat, flaw : Flaw, ran : BOOLEAN,
            token : Nat, ack : Nat, reported : ReportStatus \cup {"no"}]

\* A row moves on without touching its delivery.
RowMoves(r, s) ==
    /\ s.token = r.token /\ s.ack = r.ack /\ s.reported = r.reported
    /\ s.state = "absent" <=> r.state = "absent"

\* Where a cycle may get to without sending anything.
CycleMoves(a) ==
    \/ pc'[a] = pc[a] /\ queue'[a] = queue[a]
    \/ pc'[a] = "idle"
    \/ pc'[a] \in {"registry", "heartbeat", "pull", "execute"} /\ AllFlushed(a)
    \/ pc'[a] \in {"ack1", "ack2"} /\ queue'[a] = AckItems(a)
    \/ pc'[a] \in {"report1", "report2"} /\ AllFlushed(a) /\ queue'[a] = ReportItems(a)

\* Nothing an agent's cycle has flushed is taken back by what keeps its deliveries.
LEMMA FlushedKept ==
    ASSUME NEW a \in Agent, AgentFlushed(a), CycleMoves(a),
           \A c \in Command : RowMoves(edge[a][c], edge'[a][c])
    PROVE  /\ AgentFlushed(a)' /\ Acked(a)' = Acked(a)
           /\ \A c \in Command : LeftOut(a, c)' = LeftOut(a, c)
<1>1. Due(a)' = Due(a) /\ Acked(a)' = Acked(a)
  BY Zenon DEF Due, Acked, RowMoves
<1>2. \A c \in Command : AckItem(a, c)' = AckItem(a, c)
  BY DEF AckItem, RowMoves
<1>3. \A c \in Command : LeftOut(a, c)' = LeftOut(a, c)
  BY <1>1, Zenon DEF LeftOut, FullBatchBefore
<1>4. AllFlushed(a)' = AllFlushed(a)
  <2>1. Due(a) \subseteq Command
    BY DEF Due
  <2> QED  BY <1>1, <1>3, <2>1, Zenon DEF AllFlushed
<1>5. {AckItem(a, c)' : c \in Due(a)'} = {AckItem(a, c) : c \in Due(a)}
  BY <1>1, <1>2 DEF Due
<1>6. Covered => Pulled(Due(a)')
  BY <1>1, Zenon DEF AgentFlushed
<1>7. pc'[a] \in {"ack1", "ack2"} =>
        /\ queue'[a] \subseteq {AckItem(a, c) : c \in Due(a)}
        /\ \A c \in Due(a) : \/ AckItem(a, c) \in queue'[a]
                             \/ FullBatchBefore(Acked(a) \cup Commands(queue'[a]), c)
  <2> SUFFICES ASSUME pc'[a] \in {"ack1", "ack2"}
               PROVE  /\ queue'[a] \subseteq {AckItem(a, c) : c \in Due(a)}
                      /\ \A c \in Due(a) :
                           \/ AckItem(a, c) \in queue'[a]
                           \/ FullBatchBefore(Acked(a) \cup Commands(queue'[a]), c)
    OBVIOUS
  <2>1. CASE pc'[a] = pc[a] /\ queue'[a] = queue[a]
    BY <2>1, Zenon DEF AgentFlushed
  <2>2. CASE queue'[a] = AckItems(a)
    BY <2>2, FlushFinds, Zenon DEF AgentFlushed
  <2> QED  BY <2>1, <2>2, Zenon DEF CycleMoves
<1>8. pc'[a] = "submit" /\ Covered => Pulled(Due(a)' \cup Commands(queue'[a]))
  BY <1>1, Zenon DEF AgentFlushed, CycleMoves
<1>9. pc'[a] \in {"report1", "registry", "heartbeat", "pull", "execute", "report2"} =>
        AllFlushed(a)
  BY DEF AgentFlushed, CycleMoves
<1>10. pc'[a] \in {"ack1", "ack2"} =>
         /\ queue'[a] \subseteq {AckItem(a, c)' : c \in Due(a)'}
         /\ \A c \in Due(a)' : \/ AckItem(a, c)' \in queue'[a]
                               \/ FullBatchBefore(Acked(a)' \cup Commands(queue'[a]), c)
  <2>1. Due(a) \subseteq Command
    BY DEF Due
  <2> QED  BY <1>1, <1>2, <1>5, <1>7, <2>1, Zenon
<1> QED
  BY <1>1, <1>3, <1>4, <1>6, <1>8, <1>9, <1>10, Zenon
  DEF AgentFlushed, Covered, Pulled, FullBatchBefore, Commands, First

\* A step that sends nothing and moves rows and cycles in these ways keeps the
\* invariant, if what it runs is acknowledged or left out.
LEMMA QuietStep ==
    ASSUME CloudInv, TypeOK', UNCHANGED <<cloud, reply>>, queue' = [a \in Agent |-> queue'[a]],
           \A a \in Agent, c \in Command : RowMoves(edge[a][c], edge'[a][c]),
           \A a \in Agent, c \in Command :
             edge'[a][c].ran => edge[a][c].ran \/ edge[a][c].ack # 0 \/ LeftOut(a, c),
           \A a \in Agent : CycleMoves(a)
    PROVE  CloudInv'
<1> USE DEF CloudInv
<1>1. \A a \in Agent : /\ AgentFlushed(a)' /\ Acked(a)' = Acked(a)
                       /\ \A c \in Command : LeftOut(a, c)' = LeftOut(a, c)
  BY FlushedKept, Zenon DEF Flushed
<1>2. \A a \in Agent : AckItems(a) \subseteq {AckItem(a, c) : c \in Due(a)}
  BY FlushFinds, Zenon DEF Flushed, AgentFlushed
<1>3. \A a \in Agent : AckItems(a) \subseteq Item
  BY <1>2, AckItemTyped, Zenon DEF Due
<1>4. ItemsTyped'
  BY <1>3, ReportItemsTyped, SMTT(60) DEF ItemsTyped, CycleMoves, RowMoves, Item
<1>5. RowsRecorded'
  BY DEF RowsRecorded, RowRecorded, RowMoves
<1>6. CloudRecords'
  BY DEF CloudRecords
<1>7. TokensUnique'
  <2>1. \A a \in Agent, c \in Command, r \in Nat : Holds(a, c, r)' => Holds(a, c, r)
    BY DEF Holds, RowMoves, CycleMoves
  <2> QED  BY <2>1 DEF TokensUnique
<1>8. SubmitsKnown'
  BY DEF SubmitsKnown, CycleMoves
<1>9. Flushed'
  BY <1>1, Zenon DEF Flushed
<1>10. RanFlushed'
  <2> SUFFICES ASSUME NEW a \in Agent, NEW c \in Command, edge'[a][c].ran
               PROVE  edge'[a][c].ack # 0 \/ LeftOut(a, c)'
    BY Zenon DEF RanFlushed
  <2>1. edge[a][c].ack # 0 \/ LeftOut(a, c)
    BY Zenon DEF RanFlushed
  <2>2. edge'[a][c].ack = edge[a][c].ack
    BY Zenon DEF RowMoves
  <2> QED  BY <1>1, <2>1, <2>2, Zenon
<1> QED
  BY <1>4, <1>5, <1>6, <1>7, <1>8, <1>9, <1>10, Zenon

\* A row that stays is moved in that sense, and so is one put to another state.
LEMMA MovedRow ==
    ASSUME TypeOK, NEW a \in Agent, NEW c \in Command,
           NEW s, s = edge[a][c] \/ \E st \in EdgeState \ {"absent"}, e \in BOOLEAN, f \in BOOLEAN :
                        edge[a][c].state # "absent" /\ s = Moved(edge[a][c], st, e, f)
    PROVE  s \in RowType /\ RowMoves(edge[a][c], s) /\ s.ran = edge[a][c].ran
<1>1. edge[a][c] \in RowType
  BY DEF TypeOK, RowType
<1>2. CASE s = edge[a][c]
  BY <1>1, <1>2, Zenon DEF RowMoves
<1>3. ASSUME NEW st \in EdgeState \ {"absent"}, NEW e \in BOOLEAN, NEW f \in BOOLEAN,
             edge[a][c].state # "absent", s = Moved(edge[a][c], st, e, f)
      PROVE  s \in RowType /\ RowMoves(edge[a][c], s) /\ s.ran = edge[a][c].ran
  <2>1. FlawOf(st, e, f) \in Flaw /\ edge[a][c].edits + 1 \in Nat
    BY <1>1 DEF RowType, FlawOf, Flaw
  <2> QED  BY <1>1, <1>3, <2>1, Zenon DEF RowType, RowMoves, Moved
<1> QED
  BY <1>2, <1>3, Zenon

RowsKept == /\ edge' \in [Agent -> [Command -> RowType]]
            /\ \A b \in Agent, c \in Command : RowMoves(edge[b][c], edge'[b][c])
RunsKept == \A b \in Agent, c \in Command : edge'[b][c].ran => edge[b][c].ran

\* The rows of one agent move, the others stay.
LEMMA RowsMove ==
    ASSUME TypeOK, NEW a \in Agent, NEW rows \in [Command -> RowType],
           \A c \in Command : RowMoves(edge[a][c], rows[c]),
           edge' = [edge EXCEPT ![a] = rows]
    PROVE  RowsKept
<1>1. edge \in [Agent -> [Command -> RowType]]
  BY DEF TypeOK, RowType
<1>2. edge' \in [Agent -> [Command -> RowType]]
  BY <1>1
<1>3. \A b \in Agent, c \in Command : edge'[b][c] = IF b = a THEN rows[c] ELSE edge[b][c]
  BY <1>1
<1> QED
  BY <1>2, <1>3 DEF RowMoves, RowsKept

\* Rows that stay or are put to another state, as one agent's table.
LEMMA TableMoves ==
    ASSUME TypeOK, NEW a \in Agent, NEW rows, rows = [c \in Command |-> rows[c]],
           \A c \in Command :
             \/ rows[c] = edge[a][c]
             \/ \E st \in EdgeState \ {"absent"}, e \in BOOLEAN, f \in BOOLEAN :
                  edge[a][c].state # "absent" /\ rows[c] = Moved(edge[a][c], st, e, f),
           edge' = [edge EXCEPT ![a] = rows]
    PROVE  RowsKept /\ RunsKept
<1>1. \A c \in Command : /\ rows[c] \in RowType /\ RowMoves(edge[a][c], rows[c])
                         /\ rows[c].ran = edge[a][c].ran
  BY MovedRow
<1>2. rows \in [Command -> RowType]
  BY <1>1
<1>3. RowsKept
  BY <1>1, <1>2, RowsMove, Zenon
<1>4. RunsKept
  <2>1. edge \in [Agent -> [Command -> RowType]]
    BY DEF TypeOK, RowType
  <2>2. \A b \in Agent, c \in Command : edge'[b][c] = IF b = a THEN rows[c] ELSE edge[b][c]
    BY <2>1, Zenon
  <2>3. \A b \in Agent, c \in Command : edge'[b][c].ran = edge[b][c].ran
    BY <1>1, <2>2
  <2> QED  BY <2>3, Zenon DEF RunsKept
<1> QED
  BY <1>3, <1>4, Zenon

\* A row whose time is no longer ahead of the cloud's keeps the invariant.
LEMMA TimeStep ==
    ASSUME CloudInv, NEW a \in Agent, NEW x \in Command, TimeCatchesUp(a, x)
    PROVE  CloudInv'
<1> USE DEF CloudInv
<1> DEFINE rows == [edge[a] EXCEPT ![x] = [@ EXCEPT !.flaw = "none"]]
<1>1. UNCHANGED <<cloud, device, reply, mode, pc, queue>> /\ edge' = [edge EXCEPT ![a] = rows]
  BY DEF TimeCatchesUp, cloudVars, cycleVars
<1>2. edge \in [Agent -> [Command -> RowType]]
  BY DEF TypeOK, RowType
<1>3. [edge[a][x] EXCEPT !.flaw = "none"] \in RowType
  <2>1. edge[a][x] \in RowType /\ "none" \in Flaw
    BY <1>2, Zenon DEF Flaw
  <2> QED  BY <2>1, Zenon DEF RowType
<1>4. /\ rows \in [Command -> RowType]
      /\ \A c \in Command : rows[c] = IF c = x THEN [edge[a][x] EXCEPT !.flaw = "none"]
                                      ELSE edge[a][c]
  BY <1>2, <1>3, Zenon
<1>5. \A c \in Command : RowMoves(edge[a][c], rows[c]) /\ rows[c].ran = edge[a][c].ran
  BY <1>2, <1>4 DEF RowMoves, RowType
<1> HIDE DEF rows
<1>6. RowsKept
  BY <1>1, <1>4, <1>5, RowsMove, Zenon
<1>7. \A b \in Agent, c \in Command : edge'[b][c].ran => edge[b][c].ran
  BY <1>1, <1>2, <1>4, <1>5
<1>8. TypeOK'
  BY <1>1, <1>6 DEF TypeOK, RowsKept, RowType
<1>9. queue' = [b \in Agent |-> queue'[b]] /\ \A b \in Agent : CycleMoves(b)
  BY <1>1 DEF ItemsTyped, CycleMoves
<1> QED
  BY <1>1, <1>6, <1>7, <1>8, <1>9, QuietStep, Zenon DEF RowsKept

\* The local operator's operations keep the invariant.
LEMMA LocalSteps ==
    ASSUME CloudInv, NEW a \in Agent, LocalOperator(a)
    PROVE  CloudInv'
<1> USE DEF CloudInv, cloudVars, cycleVars
<1>0. \A b \in Agent : edge[b] = [c \in Command |-> edge[b][c]]
  BY Zenon DEF TypeOK
<1>1. UNCHANGED <<cloud, device, reply, pc, queue>>
  BY Zenon DEF LocalOperator, ChangeControlMode, ResolveManually, CancelCommand, RetryAfterReview
<1>2. mode' \in [Agent -> [Device -> ControlMode]]
  <2>1. CASE UNCHANGED mode
    BY <2>1 DEF TypeOK
  <2>2. ASSUME NEW d \in Device, NEW target \in ControlMode,
               NEW fit \in Fits, ChangeControlMode(a, d, target, fit)
        PROVE  mode' \in [Agent -> [Device -> ControlMode]]
    BY <2>2 DEF ChangeControlMode, TypeOK
  <2> QED
    BY <2>1, <2>2, Zenon DEF LocalOperator, ResolveManually, CancelCommand, RetryAfterReview
<1>3. RowsKept /\ RunsKept
  <2>1. ASSUME NEW c \in Command, NEW st \in EdgeState \ {"absent"},
               NEW e \in BOOLEAN, NEW f \in BOOLEAN, edge[a][c].state # "absent",
               edge' = [edge EXCEPT ![a][c] = Moved(@, st, e, f)]
        PROVE  RowsKept /\ RunsKept
    <3> DEFINE rows == [edge[a] EXCEPT ![c] = Moved(@, st, e, f)]
    <3>1. edge' = [edge EXCEPT ![a] = rows]
      BY <2>1, Zenon
    <3>2. rows = [x \in Command |-> rows[x]]
      BY <1>0, Zenon
    <3>4. \A x \in Command : \/ rows[x] = edge[a][x]
                             \/ /\ edge[a][x].state # "absent"
                                /\ rows[x] = Moved(edge[a][x], st, e, f)
      BY <1>0, <2>1
    <3> HIDE DEF rows
    <3> QED  BY <3>1, <3>2, <3>4, TableMoves
  <2>2. ASSUME NEW c \in Command, NEW fit \in BOOLEAN,
               ResolveManually(a, c, fit) \/ CancelCommand(a, c, fit) \/ RetryAfterReview(a, c)
        PROVE  RowsKept /\ RunsKept
    <3>0. EarlyNow(c) \in BOOLEAN
      BY DEF EarlyNow
    <3>1. \E st \in EdgeState \ {"absent"}, e \in BOOLEAN, f \in BOOLEAN :
            edge' = [edge EXCEPT ![a][c] = Moved(@, st, e, f)]
      BY <2>2, <3>0, Zenon DEF ResolveManually, CancelCommand, RetryAfterReview, EdgeState
    <3>2. edge[a][c].state # "absent"
      BY <2>2, Zenon DEF ResolveManually, CancelCommand, RetryAfterReview
    <3> QED  BY <2>1, <3>1, <3>2, Zenon
  <2>3. ASSUME NEW d \in Device, NEW target \in ControlMode,
               NEW fit \in Fits, ChangeControlMode(a, d, target, fit)
        PROVE  RowsKept /\ RunsKept
    <3> DEFINE early == {c \in Command : EarlyNow(c)}
               rows == IF target = "automatic" THEN edge[a] ELSE Restricted(a, {d}, early, fit)
    <3>1. edge' = [edge EXCEPT ![a] = rows]
      BY <2>3, Zenon DEF ChangeControlMode, TypeOK
    <3>2. rows = [x \in Command |-> rows[x]]
      BY <1>0 DEF Restricted
    <3>3. \A x \in Command : \/ rows[x] = edge[a][x]
                             \/ /\ edge[a][x].state # "absent"
                                /\ rows[x] = Moved(edge[a][x], "manual_review", x \in early, fit)
      BY DEF Restricted
    <3>4. \A x \in Command : (x \in early) \in BOOLEAN /\ fit \in BOOLEAN
      BY LimitsAssumption
    <3>5. "manual_review" \in EdgeState \ {"absent"}
      BY DEF EdgeState
    <3> HIDE DEF rows, early
    <3>6. \A x \in Command :
            \/ rows[x] = edge[a][x]
            \/ \E st \in EdgeState \ {"absent"}, e \in BOOLEAN, f \in BOOLEAN :
                 edge[a][x].state # "absent" /\ rows[x] = Moved(edge[a][x], st, e, f)
      BY <3>3, <3>4, <3>5, Zenon
    <3> QED  BY <3>1, <3>2, <3>6, TableMoves
  <2>4. Fits \subseteq BOOLEAN
    BY LimitsAssumption, Zenon
  <2> QED
    BY <2>2, <2>3, <2>4, Zenon DEF LocalOperator
<1>4. TypeOK'
  BY <1>1, <1>2, <1>3, Zenon DEF TypeOK, RowsKept, RowType
<1>5. queue' = [b \in Agent |-> queue'[b]]
  BY <1>1, Zenon DEF ItemsTyped
<1> QED
  BY <1>1, <1>3, <1>4, <1>5, QuietStep, Zenon DEF RowsKept, RunsKept, CycleMoves

OnlyThisMoves == /\ pc' \in [Agent -> Phase]
                 /\ queue' = [b \in Agent |-> queue'[b]]
                 /\ \A b \in Agent : CycleMoves(b)

\* A cycle that moves keeps to the phases, and no other cycle moves with it.
LEMMA OneCycleMoves ==
    ASSUME TypeOK, NEW a \in Agent, NEW phase \in Phase, NEW items, Enters(a, phase, items),
           \/ phase = "idle"
           \/ phase \in {"registry", "heartbeat", "pull", "execute"} /\ AllFlushed(a)
           \/ phase \in {"ack1", "ack2"} /\ items = AckItems(a)
           \/ phase \in {"report1", "report2"} /\ AllFlushed(a) /\ items = ReportItems(a),
           queue = [b \in Agent |-> queue[b]]
    PROVE  OnlyThisMoves
<1>1. pc \in [Agent -> Phase]
  BY DEF TypeOK
<1>2. pc' = [pc EXCEPT ![a] = phase] /\ queue' = [queue EXCEPT ![a] = items]
  BY DEF Enters
<1>3. pc'[a] = phase /\ queue'[a] = items
  BY <1>1, <1>2, Zenon
<1>4. \A b \in Agent \ {a} : pc'[b] = pc[b] /\ queue'[b] = queue[b]
  BY <1>1, <1>2, Zenon
<1> QED
  BY <1>1, <1>2, <1>3, <1>4, Zenon DEF CycleMoves, OnlyThisMoves

\* Entering either flush, or what follows an empty one.
LEMMA FlushEntered ==
    ASSUME TypeOK, NEW a \in Agent, AllFlushed(a), queue = [b \in Agent |-> queue[b]],
           \/ FlushReports(a, "report1", "registry")
           \/ FlushReports(a, "report2", "idle")
    PROVE  OnlyThisMoves
<1>1. \/ Enters(a, "registry", {}) \/ Enters(a, "idle", {})
      \/ Enters(a, "report1", ReportItems(a)) \/ Enters(a, "report2", ReportItems(a))
  BY DEF FlushReports
<1> QED
  BY <1>1, OneCycleMoves, Zenon DEF Phase

\* Steps of the cycle that send no acknowledgement, report, pull or submission.
LEMMA QuietCycleSteps ==
    ASSUME CloudInv, NEW a \in Agent,
           BeginCycle(a) \/ Abandon(a) \/ Refused(a) \/ LoopEnds(a)
    PROVE  CloudInv'
<1> USE DEF CloudInv
<1>0. queue = [b \in Agent |-> queue[b]]
  BY Zenon DEF ItemsTyped
<1>1. UNCHANGED <<cloud, device, reply, edge, mode>>
  BY Zenon DEF BeginCycle, Abandon, Refused, LoopEnds, cloudVars, agentVars
<1>2. /\ AckItems(a) \subseteq {AckItem(a, c) : c \in Due(a)}
      /\ \A c \in Due(a) : \/ AckItem(a, c) \in AckItems(a)
                           \/ FullBatchBefore(Acked(a) \cup Commands(AckItems(a)), c)
  BY FlushFinds, Zenon DEF Flushed, AgentFlushed
<1>2a. Acked(a) \cup Commands({}) = Acked(a)
  BY DEF Commands
<1>3. AckItems(a) = {} => AllFlushed(a)
  BY <1>2, <1>2a, Zenon DEF AllFlushed, LeftOut
<1>4. OnlyThisMoves
  <2>1. CASE Abandon(a) \/ Refused(a)
    <3>1. Enters(a, "idle", {})
      BY <2>1 DEF Abandon, Refused, CycleOver
    <3> QED  BY <3>1, <1>0, OneCycleMoves, Zenon DEF Phase
  <2>2. CASE BeginCycle(a)
    <3>1. CASE AckItems(a) = {}
      <4>1. FlushReports(a, "report1", "registry")
        BY <2>2, <3>1, Zenon DEF BeginCycle, FlushAcknowledgements
      <4> QED  BY <1>3, <3>1, <4>1, <1>0, FlushEntered, Zenon
    <3>2. CASE AckItems(a) # {}
      <4>1. Enters(a, "ack1", AckItems(a))
        BY <2>2, <3>2, Zenon DEF BeginCycle, FlushAcknowledgements
      <4> QED  BY <4>1, <1>0, OneCycleMoves, Zenon DEF Phase
    <3> QED  BY <3>1, <3>2, Zenon
  <2>3. CASE LoopEnds(a)
    <3>1. CASE pc[a] = "ack1" /\ FlushReports(a, "report1", "registry")
      <4>1. AllFlushed(a)
        <5>1. queue[a] = {}
          BY <2>3, Zenon DEF LoopEnds
        <5>2. \A c \in Due(a) : \/ AckItem(a, c) \in queue[a]
                               \/ FullBatchBefore(Acked(a) \cup Commands(queue[a]), c)
          BY <3>1, Zenon DEF Flushed, AgentFlushed
        <5> QED  BY <1>2a, <5>1, <5>2, Zenon DEF AllFlushed, LeftOut
      <4> QED  BY <3>1, <4>1, <1>0, FlushEntered, Zenon
    <3>2. CASE pc[a] = "report1" /\ Enters(a, "registry", {})
      BY <3>2, <1>0, OneCycleMoves, Zenon DEF Flushed, AgentFlushed, Phase
    <3>3. CASE pc[a] = "submit" /\ FlushAcknowledgements(a, "ack2", Enters(a, "execute", {}))
      <4>1. CASE AckItems(a) = {}
        <5>1. Enters(a, "execute", {})
          BY <3>3, <4>1 DEF FlushAcknowledgements
        <5> QED  BY <1>3, <4>1, <5>1, <1>0, OneCycleMoves DEF Phase
      <4>2. CASE AckItems(a) # {}
        <5>1. Enters(a, "ack2", AckItems(a))
          BY <3>3, <4>2, Zenon DEF FlushAcknowledgements
        <5> QED  BY <5>1, <1>0, OneCycleMoves, Zenon DEF Phase
      <4> QED  BY <4>1, <4>2
    <3>4. CASE pc[a] = "ack2" /\ Enters(a, "execute", {})
      <4>1. AllFlushed(a)
        <5>1. queue[a] = {}
          BY <2>3 DEF LoopEnds
        <5>2. \A c \in Due(a) : \/ AckItem(a, c) \in queue[a]
                               \/ FullBatchBefore(Acked(a) \cup Commands(queue[a]), c)
          BY <3>4, Zenon DEF Flushed, AgentFlushed
        <5> QED  BY <1>2a, <5>1, <5>2 DEF AllFlushed, LeftOut
      <4> QED  BY <3>4, <4>1, <1>0, OneCycleMoves, Zenon DEF Phase
    <3>5. CASE pc[a] = "execute" /\ FlushReports(a, "report2", "idle")
      BY <3>5, <1>0, FlushEntered, Zenon DEF Flushed, AgentFlushed
    <3>6. CASE pc[a] = "report2" /\ Enters(a, "idle", {})
      BY <3>6, <1>0, OneCycleMoves DEF Phase
    <3> QED  BY <2>3, <3>1, <3>2, <3>3, <3>4, <3>5, <3>6, Zenon DEF LoopEnds
  <2> QED  BY <2>1, <2>2, <2>3, Zenon
<1>5. TypeOK'
  BY <1>1, <1>4 DEF TypeOK, OnlyThisMoves
<1>6. \A b \in Agent, c \in Command : /\ RowMoves(edge[b][c], edge'[b][c])
                                      /\ edge'[b][c].ran => edge[b][c].ran
  BY <1>1, Zenon DEF RowMoves
<1> QED
  BY <1>1, <1>4, <1>5, <1>6, QuietStep, Zenon DEF OnlyThisMoves

\* The registry answer and the heartbeats change rows to review at most.
LEMMA DeviceSteps ==
    ASSUME CloudInv, NEW a \in Agent,
           \/ \E fit \in Fits : ReconcileControls(a, fit)
           \/ \E published \in SUBSET Device, works \in SUBSET Device, heard \in BOOLEAN :
                PublishHeartbeats(a, published, works, heard)
    PROVE  CloudInv'
<1> USE DEF CloudInv
<1>0. queue = [b \in Agent |-> queue[b]] /\ \A b \in Agent : edge[b] = [c \in Command |-> edge[b][c]]
  BY DEF ItemsTyped, TypeOK
<1>1. ASSUME NEW fit \in Fits, ReconcileControls(a, fit)
      PROVE  CloudInv'
  <2> DEFINE stopped == {d \in Device : device[d].mode = "restricted"}
             early == {c \in Command : EarlyInCycle(a, c)}
             rows == Restricted(a, stopped, early, fit)
  <2>1. UNCHANGED <<cloud, device, reply>>
    BY <1>1, Zenon DEF ReconcileControls, cloudVars
  <2>2. RowsKept /\ RunsKept
    <3>1. edge' = [edge EXCEPT ![a] = rows]
      BY <1>1, Zenon DEF ReconcileControls, Restricted
    <3>2. rows = [x \in Command |-> rows[x]]
      BY Zenon DEF Restricted
    <3>3. \A x \in Command : \/ rows[x] = edge[a][x]
                             \/ /\ edge[a][x].state # "absent"
                                /\ rows[x] = Moved(edge[a][x], "manual_review", x \in early, fit)
      BY DEF Restricted
    <3>4. \A x \in Command : (x \in early) \in BOOLEAN /\ fit \in BOOLEAN
      BY LimitsAssumption
    <3>5. "manual_review" \in EdgeState \ {"absent"}
      BY Zenon DEF EdgeState
    <3> HIDE DEF rows, early
    <3>6. \A x \in Command :
            \/ rows[x] = edge[a][x]
            \/ \E st \in EdgeState \ {"absent"}, e \in BOOLEAN, f \in BOOLEAN :
                 edge[a][x].state # "absent" /\ rows[x] = Moved(edge[a][x], st, e, f)
      BY <3>3, <3>4, <3>5, Zenon
    <3> QED  BY <3>1, <3>2, <3>6, TableMoves
  <2>3. AllFlushed(a)
    BY <1>1, Zenon DEF ReconcileControls, Flushed, AgentFlushed
  <2>4. OnlyThisMoves
    <3>1. Enters(a, "heartbeat", {d \in Device : device[d].mode # "unregistered"})
      BY <1>1 DEF ReconcileControls
    <3> QED  BY <1>0, <2>3, <3>1, OneCycleMoves, Zenon DEF Phase
  <2>5. mode' \in [Agent -> [Device -> ControlMode]]
    <3>1. mode \in [Agent -> [Device -> ControlMode]]
      BY Zenon DEF TypeOK
    <3>2. [d \in Device |-> IF d \in stopped THEN "restricted" ELSE mode[a][d]]
            \in [Device -> ControlMode]
      BY <3>1, Zenon DEF ControlMode
    <3> QED  BY <1>1, <3>1, <3>2, Zenon DEF ReconcileControls
  <2>6. TypeOK'
    BY <2>1, <2>2, <2>4, <2>5, Zenon DEF TypeOK, RowsKept, RowType, OnlyThisMoves
  <2> QED
    BY <2>1, <2>2, <2>4, <2>6, QuietStep, Zenon DEF RowsKept, RunsKept, OnlyThisMoves
<1>2. ASSUME NEW published \in SUBSET Device, NEW works \in SUBSET Device, NEW heard \in BOOLEAN,
             PublishHeartbeats(a, published, works, heard)
      PROVE  CloudInv'
  <2>1. UNCHANGED <<cloud, reply, edge, mode>>
    BY <1>2, Zenon DEF PublishHeartbeats, agentVars
  <2>2. OnlyThisMoves
    <3>1. AllFlushed(a)
      BY <1>2, Zenon DEF PublishHeartbeats, Flushed, AgentFlushed
    <3>2. Enters(a, "pull", {}) \/ Enters(a, "idle", {})
      BY <1>2, Zenon DEF PublishHeartbeats
    <3> QED  BY <1>0, <3>1, <3>2, OneCycleMoves, Zenon DEF Phase
  <2>3. device' \in [Device -> [mode : ControlMode \cup {"unregistered"},
                                beat : Agent \cup {NoAgent}, beatMode : ControlMode,
                                fresh : BOOLEAN]]
    <3> DEFINE D == [mode : ControlMode \cup {"unregistered"}, beat : Agent \cup {NoAgent},
                     beatMode : ControlMode, fresh : BOOLEAN]
    <3>1. \A d \in Device : device[d] \in D /\ mode[a][d] \in ControlMode
      BY DEF TypeOK
    <3>2. \A d \in Device : RecordHeartbeat(a, d, works) \in D
      <4> TAKE d \in Device
      <4>1. \A f \in BOOLEAN : [device[d] EXCEPT !.beat = a, !.beatMode = mode[a][d],
                                                 !.fresh = f] \in D
        BY <3>1, Zenon
      <4>2. (d \in works) \in BOOLEAN
        OBVIOUS
      <4> HIDE DEF D
      <4> QED  BY <4>1, <4>2, ZenonT(60) DEF RecordHeartbeat
    <3> HIDE DEF D
    <3>3. device' \in [Device -> D]
      BY <1>2, <3>1, <3>2, Zenon DEF PublishHeartbeats
    <3> QED  BY <3>3, Zenon DEF D
  <2>4. TypeOK'
    BY <2>1, <2>2, <2>3, Zenon DEF TypeOK, OnlyThisMoves
  <2>5. \A b \in Agent, c \in Command : /\ RowMoves(edge[b][c], edge'[b][c])
                                        /\ edge'[b][c].ran => edge[b][c].ran
    BY <2>1, Zenon DEF RowMoves
  <2> QED
    BY <2>1, <2>2, <2>4, <2>5, QuietStep, Zenon DEF OnlyThisMoves
<1> QED
  BY <1>1, <1>2, Zenon

\* The engine runs what is acknowledged or was left out: nothing else is due there.
LEMMA EngineStep ==
    ASSUME CloudInv, NEW a \in Agent, NEW c \in Command,
           NEW outcome \in {"open", "succeeded", "failed", "manual_review"},
           NEW fit \in Fits, EngineRuns(a, c, outcome, fit)
    PROVE  CloudInv'
<1> USE DEF CloudInv
<1> DEFINE early == {x \in Command : EarlyInCycle(a, x)}
           moved == IF outcome = "manual_review" THEN Restricted(a, {DeviceOf[c]}, early, fit)
                    ELSE [edge[a] EXCEPT ![c] = IF outcome = "open" THEN @
                                                ELSE Moved(@, outcome, c \in early, fit)]
           rows == [moved EXCEPT ![c].ran = TRUE]
<1>0. queue = [b \in Agent |-> queue[b]] /\ \A b \in Agent : edge[b] = [x \in Command |-> edge[b][x]]
  BY Zenon DEF ItemsTyped, TypeOK
<1>1. UNCHANGED <<cloud, device, reply, pc, queue>> /\ edge' = [edge EXCEPT ![a] = rows]
  BY DEF EngineRuns, cloudVars, cycleVars
<1>2. edge[a][c].state = "open" /\ (edge[a][c].ack # 0 \/ LeftOut(a, c))
  BY Zenon DEF EngineRuns, Flushed, AgentFlushed, AllFlushed, Due
<1>3. moved = [x \in Command |-> moved[x]]
  BY <1>0, Zenon DEF Restricted
<1>4. \A x \in Command :
        \/ moved[x] = edge[a][x]
        \/ \E st \in EdgeState \ {"absent"}, e \in BOOLEAN, f \in BOOLEAN :
             edge[a][x].state # "absent" /\ moved[x] = Moved(edge[a][x], st, e, f)
  <2> TAKE x \in Command
  <2>1. (x \in early) \in BOOLEAN /\ (c \in early) \in BOOLEAN /\ fit \in BOOLEAN
    BY LimitsAssumption
  <2>2. outcome \in EdgeState \ {"absent"} /\ "manual_review" \in EdgeState \ {"absent"}
    BY DEF EdgeState
  <2>3. \/ moved[x] = edge[a][x]
        \/ edge[a][x].state # "absent" /\ moved[x] = Moved(edge[a][x], "manual_review", x \in early, fit)
        \/ edge[a][x].state # "absent" /\ moved[x] = Moved(edge[a][x], outcome, c \in early, fit)
    BY <1>0, <1>2 DEF Restricted
  <2> HIDE DEF moved, early
  <2> QED  BY <2>1, <2>2, <2>3, ZenonT(60)
<1>5. \A x \in Command : /\ moved[x] \in RowType /\ RowMoves(edge[a][x], moved[x])
                         /\ moved[x].ran = edge[a][x].ran
  <2> HIDE DEF moved
  <2> TAKE x \in Command
  <2>1. \/ moved[x] = edge[a][x]
        \/ \E st \in EdgeState \ {"absent"}, e \in BOOLEAN, f \in BOOLEAN :
             edge[a][x].state # "absent" /\ moved[x] = Moved(edge[a][x], st, e, f)
    BY <1>4, Zenon
  <2>2. TypeOK
    OBVIOUS
  <2> HIDE DEF CloudInv
  <2> QED  BY <2>1, <2>2, MovedRow
<1>6. rows \in [Command -> RowType]
  <2> HIDE DEF moved
  <2>1. [moved[c] EXCEPT !.ran = TRUE] \in RowType
    BY <1>5, Zenon DEF RowType
  <2>2. moved \in [Command -> RowType]
    BY <1>3, <1>5, Zenon
  <2> QED  BY <2>1, <2>2, Zenon
<1>7. \A x \in Command : /\ RowMoves(edge[a][x], rows[x])
                         /\ x # c => rows[x].ran = edge[a][x].ran
  <2> HIDE DEF moved
  <2>1. \A x \in Command : rows[x] = IF x = c THEN [moved[c] EXCEPT !.ran = TRUE] ELSE moved[x]
    BY <1>3, Zenon
  <2>2. RowMoves(edge[a][c], [moved[c] EXCEPT !.ran = TRUE])
    BY <1>5 DEF RowMoves, RowType
  <2> QED  BY <1>5, <2>1, <2>2, Zenon
<1>8. RowsKept
  <2> HIDE DEF rows
  <2> QED  BY <1>1, <1>6, <1>7, RowsMove, Zenon
<1>9. mode' \in [Agent -> [Device -> ControlMode]]
  <2>1. mode' = mode \/ mode' = [mode EXCEPT ![a][DeviceOf[c]] = "restricted"]
    BY Zenon DEF EngineRuns
  <2>2. DeviceOf[c] \in Device /\ mode \in [Agent -> [Device -> ControlMode]]
    BY DeviceOfAssumption, Zenon DEF TypeOK
  <2>3. [mode[a] EXCEPT ![DeviceOf[c]] = "restricted"] \in [Device -> ControlMode]
    BY <2>2, Zenon DEF ControlMode
  <2> QED  BY <2>1, <2>2, <2>3, Zenon
<1>10. TypeOK'
  BY <1>1, <1>8, <1>9, Zenon DEF TypeOK, RowsKept, RowType
<1>11. queue' = [b \in Agent |-> queue'[b]] /\ \A b \in Agent : CycleMoves(b)
  BY <1>0, <1>1, Zenon DEF CycleMoves
<1>12. \A b \in Agent, x \in Command :
         edge'[b][x].ran => edge[b][x].ran \/ edge[b][x].ack # 0 \/ LeftOut(b, x)
  <2> HIDE DEF rows
  <2>1. edge \in [Agent -> [Command -> RowType]]
    BY Zenon DEF TypeOK, RowType
  <2>2. \A b \in Agent, x \in Command : edge'[b][x] = IF b = a THEN rows[x] ELSE edge[b][x]
    BY <1>1, <2>1, Zenon
  <2> QED  BY <1>2, <1>7, <2>2, Zenon
<1> QED
  BY <1>1, <1>8, <1>10, <1>11, <1>12, QuietStep, Zenon DEF RowsKept

-----------------------------------------------------------------------------
(* Steps of the control plane *)

\* The cloud operator and the clock leave rows, records and cycles alone; a command
\* only gains revisions, is not accepted or reported by them, and never loses its
\* acceptance or its report.
LEMMA CloudStep ==
    ASSUME CloudInv, UNCHANGED <<reply, edge, mode, pc, queue>>,
           TypeOK',
           \A c \in Command :
             /\ cloud'[c].revision >= cloud[c].revision
             /\ cloud[c].status \in AcceptedStatus => cloud'[c].status \in AcceptedStatus
             /\ cloud'[c].status = "accepted" =>
                  cloud[c].status = "accepted" /\ cloud'[c].revision = cloud[c].revision
             /\ cloud'[c].status = "absent" => cloud'[c].revision = 0
             /\ cloud'[c].status \in AcceptedStatus => cloud[c].status \in AcceptedStatus
             /\ cloud[c].status = "accepted" => cloud'[c].status = "accepted"
             /\ cloud[c].status = "delivered" /\ cloud'[c].revision = cloud[c].revision =>
                  cloud'[c].status = "delivered"
    PROVE  CloudInv'
<1> USE DEF CloudInv
<1>1. ItemsTyped' /\ Flushed' /\ RanFlushed'
  <2>1. \A a \in Agent : CycleMoves(a) /\ \A c \in Command : RowMoves(edge[a][c], edge'[a][c])
    BY DEF CycleMoves, RowMoves
  <2>2. \A a \in Agent : /\ AgentFlushed(a)'
                         /\ \A c \in Command : LeftOut(a, c)' = LeftOut(a, c)
    BY <2>1, FlushedKept, Zenon DEF Flushed
  <2> QED  BY <2>2, Zenon DEF ItemsTyped, Flushed, RanFlushed
<1>2. \A c \in Command : cloud[c].revision \in Nat /\ cloud'[c].revision \in Nat
  BY ZenonT(60) DEF TypeOK
<1>3. RowsRecorded'
  <2> SUFFICES ASSUME NEW a \in Agent, NEW c \in Command
               PROVE  RowRecorded(edge[a][c], cloud'[c], reply[c])
    BY Zenon DEF RowsRecorded
  <2>1. edge[a][c].token \in Nat
    BY DEF TypeOK
  <2>2. RowRecorded(edge[a][c], cloud[c], reply[c])
    BY Zenon DEF RowsRecorded
  <2> QED  BY <1>2, <2>1, <2>2 DEF RowRecorded
<1>4. CloudRecords'
  BY Zenon DEF CloudRecords, CloudRecord
<1>5. TokensUnique'
  BY DEF TokensUnique, Holds
<1>6. SubmitsKnown'
  <2> SUFFICES ASSUME NEW a \in Agent, pc[a] = "submit", NEW i \in queue[a]
               PROVE  /\ 0 < i.revision /\ i.revision <= cloud'[i.cmd].revision
                      /\ i.revision = cloud'[i.cmd].revision => cloud'[i.cmd].status = "delivered"
    BY Zenon DEF SubmitsKnown
  <2>1. i \in Item
    BY Zenon DEF ItemsTyped
  <2>2. /\ 0 < i.revision /\ i.revision <= cloud[i.cmd].revision
        /\ i.revision = cloud[i.cmd].revision => cloud[i.cmd].status = "delivered"
    BY Zenon DEF SubmitsKnown
  <2> QED  BY <1>2, <2>1, <2>2 DEF Item
<1> QED
  BY <1>1, <1>3, <1>4, <1>5, <1>6, Zenon

\* Every operation of the control plane and of the clock keeps the invariant.
LEMMA OperatorAndClock ==
    ASSUME CloudInv, \/ CloudOperator
                     \/ \E c \in Command : DeliveryLeaseExpires(c)
                     \/ \E d \in Device : HeartbeatGoesStale(d)
    PROVE  CloudInv'
<1> USE DEF CloudInv, cycleVars, agentVars
<1>0. cloud \in [Command -> [status : CloudStatus, revision : Nat, expired : BOOLEAN]]
  BY Zenon DEF TypeOK
<1>1. ASSUME NEW d \in Device, RegisterDevice(d) \/ HeartbeatGoesStale(d)
             \/ \E target \in ControlMode : ChangeControl(d, target)
      PROVE  CloudInv'
  <2>1. UNCHANGED <<cloud, reply, edge, mode, pc, queue>>
    BY <1>1, Zenon DEF RegisterDevice, HeartbeatGoesStale, ChangeControl
  <2>2. TypeOK'
    <3>1. \/ device' = [device EXCEPT ![d].mode = "restricted"]
          \/ device' = [device EXCEPT ![d].fresh = FALSE]
          \/ \E target \in ControlMode : device' = [device EXCEPT ![d].mode = target]
      BY <1>1, Zenon DEF RegisterDevice, HeartbeatGoesStale, ChangeControl
    <3> DEFINE D == [mode : ControlMode \cup {"unregistered"}, beat : Agent \cup {NoAgent},
                     beatMode : ControlMode, fresh : BOOLEAN]
    <3>2. device \in [Device -> D]
      BY DEF TypeOK
    <3>3. \A m \in ControlMode : [device[d] EXCEPT !.mode = m] \in D
      BY <3>2
    <3>4. [device[d] EXCEPT !.fresh = FALSE] \in D
      BY <3>2, Zenon
    <3> HIDE DEF D
    <3>5. device' \in [Device -> D]
      BY <3>1, <3>2, <3>3, <3>4, Zenon DEF ControlMode
    <3> QED  BY <2>1, <3>5, Zenon DEF TypeOK, D
  <2>3. \A c \in Command : /\ cloud[c].revision >= cloud[c].revision
                           /\ cloud[c].status = "absent" => cloud[c].revision = 0
    BY <1>0 DEF CloudRecords, CloudRecord
  <2> QED  BY <2>1, <2>2, <2>3, CloudStep, Zenon
<1>2. ASSUME NEW x \in Command, EnqueueCommand(x) \/ CancelPrint(x) \/ ResolveCommand(x)
             \/ DeliveryLeaseExpires(x)
      PROVE  CloudInv'
  <2>1. UNCHANGED <<device, reply, edge, mode, pc, queue>>
    BY <1>2, Zenon DEF EnqueueCommand, CancelPrint, ResolveCommand, DeliveryLeaseExpires
  <2>2. cloud' \in [Command -> [status : CloudStatus, revision : Nat, expired : BOOLEAN]]
    <3>0. cloud[x].revision + 1 \in Nat
      BY <1>0
    <3> DEFINE Set(s, n) == cloud' = [cloud EXCEPT ![x] = [[@ EXCEPT !.status = s]
                                                           EXCEPT !.revision = n]]
    <3>1. \/ \E s \in CloudStatus, n \in Nat : Set(s, n)
          \/ cloud' = [cloud EXCEPT ![x] = [@ EXCEPT !.expired = TRUE]]
      <4>1. CASE EnqueueCommand(x)
        <5>1. Set("queued", 1)
          BY <4>1, Zenon DEF EnqueueCommand
        <5> QED  BY <5>1, Zenon DEF CloudStatus
      <4>2. CASE CancelPrint(x)
        <5>1. Set("cancelled", cloud[x].revision + 1)
          BY <4>2, Zenon DEF CancelPrint
        <5> QED  BY <3>0, <5>1, Zenon DEF CloudStatus
      <4>3. CASE ResolveCommand(x)
        <5>1. Set("resolved_manually", cloud[x].revision + 1)
          BY <4>3, Zenon DEF ResolveCommand
        <5> QED  BY <3>0, <5>1, Zenon DEF CloudStatus
      <4>4. CASE DeliveryLeaseExpires(x)
        BY <4>4, Zenon DEF DeliveryLeaseExpires
      <4> QED  BY <1>2, <4>1, <4>2, <4>3, <4>4, Zenon
    <3> DEFINE C == [status : CloudStatus, revision : Nat, expired : BOOLEAN]
    <3>2. cloud \in [Command -> C]
      BY <1>0
    <3>3. \A s \in CloudStatus, n \in Nat :
            [[cloud[x] EXCEPT !.status = s] EXCEPT !.revision = n] \in C
      BY <3>2, Zenon
    <3>4. [cloud[x] EXCEPT !.expired = TRUE] \in C
      BY <3>2, Zenon
    <3> HIDE DEF C
    <3>5. \E r \in C : cloud' = [cloud EXCEPT ![x] = r]
      BY <3>1, <3>2, <3>3, <3>4, Zenon
    <3>6. cloud' \in [Command -> C]
      BY <3>2, <3>5, Zenon
    <3> QED  BY <3>6, Zenon DEF C
  <2>3. TypeOK'
    BY <2>1, <2>2, Zenon DEF TypeOK
  <2>4. \A c \in Command : CloudRecord(cloud[c], reply[c])
    BY Zenon DEF CloudRecords
  <2>5. \A c \in Command :
             /\ cloud'[c].revision >= cloud[c].revision
             /\ cloud[c].status \in AcceptedStatus => cloud'[c].status \in AcceptedStatus
             /\ cloud'[c].status = "accepted" =>
                  cloud[c].status = "accepted" /\ cloud'[c].revision = cloud[c].revision
             /\ cloud'[c].status = "absent" => cloud'[c].revision = 0
             /\ cloud'[c].status \in AcceptedStatus => cloud[c].status \in AcceptedStatus
             /\ cloud[c].status = "accepted" => cloud'[c].status = "accepted"
             /\ cloud[c].status = "delivered" /\ cloud'[c].revision = cloud[c].revision =>
                  cloud'[c].status = "delivered"
    BY <1>0, <1>2, <2>4 DEF EnqueueCommand, CancelPrint, ResolveCommand, DeliveryLeaseExpires,
                            CloudRecord, AcceptedStatus, CloudStatus
  <2> QED  BY <2>1, <2>3, <2>5, CloudStep, Zenon
<1> QED
  BY <1>1, <1>2, Zenon DEF CloudOperator
=============================================================================
