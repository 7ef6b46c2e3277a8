--------------------------- MODULE OutboundProofs ---------------------------
(***************************************************************************)
(* Proofs about Outbound, for any number of pickers, picks, locations,     *)
(* totes, cartons and lines.  Neither invariant says anything of balances: *)
(* WorkInv is about tasks and their allocations, ShipInv about the session,*)
(* its cartons, the check and the shipment.                                *)
(***************************************************************************)
EXTENDS Outbound, FiniteSetTheorems, TLAPS

Upstream == {"open", "processing", "awaiting_packing", "cancelled"}
ShipStates == {"none", "awaiting_manifest", "manifested", "partially_departed", "departed", "cancelled"}
SessType == [state : {"none", "open", "ready_to_manifest", "abandoned"}, expected : Int,
             packed : Int, open : Int, closed : Int, ahead : Int]
QaType == [required : BOOLEAN, state : {"none", "open", "passed", "cancelled"},
           expected : Int, seen : [Cartons -> SUBSET Picks]]
ShipType == [state : ShipStates, rev : Int, due : [Cartons -> SUBSET Picks], gone : SUBSET Cartons]

Typed ==
    /\ order \in Statuses
    /\ carton \in [Cartons -> {"none", "open", "closed"}]
    /\ sess \in SessType /\ qa \in QaType /\ ship \in ShipType

SessionFits ==
    /\ sess.state \in {"none", "abandoned"} => \A c \in Cartons : carton[c] = "none"
    /\ sess.state \in {"open", "ready_to_manifest"} => sess.closed = Cardinality(Closed)
    /\ sess.state = "open" <=> order = "packing"
    /\ sess.state = "ready_to_manifest" <=> order \in {"awaiting_shipment", "shipped"}
    /\ sess.state = "ready_to_manifest" => Closed # {}

CheckFits ==
    qa.state \in {"open", "passed"} =>
      /\ sess.state = "ready_to_manifest"
      /\ Verified \subseteq Closed
      /\ qa.expected = Cardinality(Closed)
      /\ \A c \in Verified \ ship.gone : qa.seen[c] = Within(c)
      /\ qa.state = "passed" => Verified = Closed

ShipFits ==
    /\ ship.state \notin {"partially_departed", "departed"} => ship.gone = {}
    /\ ship.state \in {"awaiting_manifest", "manifested", "partially_departed"} =>
         order = "awaiting_shipment"
    /\ ship.state = "departed" => order = "shipped"
    /\ ShipmentHolds

ShipInv == Typed /\ SessionFits /\ CheckFits /\ ShipFits

-----------------------------------------------------------------------------
(* Cartons *)

\* There are finitely many cartons, so every set of them has a cardinality.
LEMMA CartonsFinite ==
    ASSUME NEW S \in SUBSET Cartons
    PROVE  IsFiniteSet(S) /\ Cardinality(S) \in Nat
<1>1. IsFiniteSet(Cartons)
  BY RowsAssumption, FS_Subset DEF Places
<1> QED
  BY <1>1, FS_Subset, FS_CardinalityType

\* A session's record with a new state and new counts of cartons.
WithCounts(s, state, o, k) == [s EXCEPT !.state = state, !.open = o, !.closed = k]

\* It is a session's record.
LEMMA SessionRecord ==
    ASSUME NEW s \in SessType, NEW o \in Int, NEW k \in Int,
           NEW state \in {"none", "open", "ready_to_manifest", "abandoned"}
    PROVE  /\ WithCounts(s, state, o, k) \in SessType
           /\ WithCounts(s, state, o, k).state = state /\ WithCounts(s, state, o, k).closed = k
<1> SUFFICES ASSUME NEW t, t = WithCounts(s, state, o, k)
             PROVE  t \in SessType /\ t.state = state /\ t.closed = k
  OBVIOUS
<1>1. s = [state |-> s.state, expected |-> s.expected, packed |-> s.packed,
           open |-> s.open, closed |-> s.closed, ahead |-> s.ahead]
  BY DEF SessType
<1>2. t = [state |-> state, expected |-> s.expected, packed |-> s.packed,
           open |-> o, closed |-> k, ahead |-> s.ahead]
  BY <1>1, Zenon DEF WithCounts
<1>3. s.expected \in Int /\ s.packed \in Int /\ s.ahead \in Int
  BY DEF SessType
<1> QED
  BY <1>2, <1>3 DEF SessType

\* Before packing begins, and after a cancellation, nothing of the invariant can
\* be disturbed by what picking does.
LEMMA UpstreamStep ==
    ASSUME ShipInv, order \in Upstream, order' \in Upstream, UNCHANGED <<packing, qa, ship>>
    PROVE  ShipInv'
<1>1. sess.state \in {"none", "abandoned"}
  BY DEF ShipInv, Typed, SessionFits, SessType, Upstream
<1>2. qa.state \notin {"open", "passed"}
  BY <1>1 DEF ShipInv, CheckFits
<1>3. ship.state \in {"none", "cancelled"}
  BY DEF ShipInv, ShipFits, Typed, ShipType, ShipStates, Upstream
<1>4. Typed'
  BY DEF ShipInv, Typed, packing, Upstream, Statuses
<1>5. SessionFits'
  BY <1>1 DEF ShipInv, SessionFits, packing, Upstream
<1>6. CheckFits'
  BY <1>2 DEF CheckFits
<1>7. ShipFits'
  BY <1>3 DEF ShipInv, ShipFits, ShipmentHolds
<1> QED
  BY <1>4, <1>5, <1>6, <1>7 DEF ShipInv

\* What the invariant is about does not change.
LEMMA IdleStep ==
    ASSUME ShipInv, UNCHANGED <<order, alloc, packing, qa, ship>>
    PROVE  ShipInv'
<1>1. Typed' /\ SessionFits'
  BY DEF ShipInv, Typed, SessionFits, Closed, packing
<1>2. CheckFits'
  BY DEF ShipInv, CheckFits, Closed, Verified, Within, packing
<1>3. ShipFits'
  BY DEF ShipInv, ShipFits, ShipmentHolds, Closed, DueCartons, Within, packing
<1> QED
  BY <1>1, <1>2, <1>3 DEF ShipInv

\* While the order is being packed there is no check and no shipment to disturb.
LEMMA PackingStep ==
    ASSUME ShipInv, order = "packing", order' = "packing", UNCHANGED <<qa, ship>>,
           sess' \in SessType, sess'.state = "open",
           carton' \in [Cartons -> {"none", "open", "closed"}],
           sess'.closed = Cardinality(Closed')
    PROVE  ShipInv'
<1>1. sess.state = "open"
  BY DEF ShipInv, SessionFits
<1>2. qa.state \notin {"open", "passed"}
  BY <1>1 DEF ShipInv, CheckFits
<1>3. ship.state \in {"none", "cancelled"}
  BY DEF ShipInv, ShipFits, Typed, ShipType, ShipStates
<1>4. Typed'
  BY DEF ShipInv, Typed, Statuses
<1>5. SessionFits'
  BY DEF SessionFits
<1>6. CheckFits'
  BY <1>2 DEF CheckFits
<1>7. ShipFits'
  BY <1>3 DEF ShipInv, ShipFits, ShipmentHolds
<1> QED
  BY <1>4, <1>5, <1>6, <1>7 DEF ShipInv

-----------------------------------------------------------------------------
(* Release, cancellation and picking *)

\* Release, cancellation and every step of picking leave the order upstream of
\* packing, or leave its status and its allocations alone.
LEMMA PickingKeepsShipInv ==
    ASSUME ShipInv, ReleaseOrder \/ CancelOrder \/ PickStep
    PROVE  ShipInv'
<1>1. CASE ReleaseOrder
  BY <1>1, UpstreamStep DEF ReleaseOrder, Upstream, shipping
<1>2. CASE CancelOrder
  BY <1>2, UpstreamStep DEF CancelOrder, Upstream, shipping
<1>3. CASE PickStep
  <2>1. PICK p \in Picks :
          \/ LeaseExpires(p) \/ ReversePick(p) \/ AcceptShortShipment(p) \/ ReallocateShortage(p)
          \/ \E u \in Users :
               \/ ClaimPick(u, p) \/ ReleaseClaim(u, p)
               \/ \E t \in Totes : ConfirmPick(u, p, t)
               \/ \E n \in 0 .. (work[p].qty - 1), t \in Totes \cup {None} : ReportShortage(u, p, n, t)
    BY <1>3 DEF PickStep
  <2>2. CASE LeaseExpires(p)
    BY <2>2, IdleStep DEF LeaseExpires, shipping
  <2>3. CASE ReversePick(p)
    BY <2>3, UpstreamStep DEF ReversePick, CanReverse, ReversibleStatus, Upstream, shipping
  <2>4. CASE AcceptShortShipment(p)
    BY <2>4, UpstreamStep DEF AcceptShortShipment, CanAccept, AfterPick, Upstream, shipping
  <2>5. CASE ReallocateShortage(p)
    BY <2>5, UpstreamStep, Zenon DEF ReallocateShortage, Recover, Upstream, shipping
  <2>6. ASSUME NEW u \in Users, ClaimPick(u, p) \/ ReleaseClaim(u, p)
        PROVE  ShipInv'
    BY <2>6, IdleStep, Zenon DEF ClaimPick, ReleaseClaim, shipping
  <2>7. ASSUME NEW u \in Users, NEW t, ConfirmPick(u, p, t)
        PROVE  ShipInv'
    BY <2>7, UpstreamStep DEF ConfirmPick, PickTarget, AfterPick, Upstream, shipping
  <2>8. ASSUME NEW u \in Users, NEW n, NEW t, ReportShortage(u, p, n, t)
        PROVE  ShipInv'
    BY <2>8, UpstreamStep, Zenon DEF ReportShortage, PickTarget, Upstream, shipping
  <2> QED
    BY <2>1, <2>2, <2>3, <2>4, <2>5, <2>6, <2>7, <2>8, Zenon
<1> QED
  BY <1>1, <1>2, <1>3

-----------------------------------------------------------------------------
(* Packing *)

\* A session begins without cartons, and is given up without them.
LEMMA SessionKeepsShipInv ==
    ASSUME ShipInv, OpenSession \/ AbandonSession
    PROVE  ShipInv'
<1>1. CASE OpenSession
  <2>1. sess.state \in {"none", "abandoned"} /\ order = "awaiting_packing" /\ order' = "packing"
    BY <1>1 DEF OpenSession
  <2>2. qa.state \notin {"open", "passed"} /\ qa' = qa /\ ship' = ship /\ carton' = carton
    BY <1>1, <2>1 DEF OpenSession, shipping, ShipInv, CheckFits
  <2>3. ship.state \in {"none", "cancelled"}
    BY <2>1 DEF ShipInv, ShipFits, Typed, ShipType, ShipStates
  <2>4. Closed' = {}
    BY <2>1, <2>2 DEF Closed, ShipInv, SessionFits
  <2>5. sess'.state = "open" /\ sess'.closed = 0
    BY <1>1 DEF OpenSession, NoSession
  <2>6. sess' \in SessType
    <3>1. IsFiniteSet(StagedPicks)
      BY RowsAssumption, FS_Subset DEF StagedPicks
    <3>2. Cardinality(StagedPicks) \in Nat
      BY <3>1, FS_CardinalityType
    <3>3. sess' = [state |-> "open", expected |-> Cardinality(StagedPicks), packed |-> 0,
                   open |-> 0, closed |-> 0, ahead |-> 0]
      BY <1>1, Zenon DEF OpenSession, NoSession
    <3> QED
      BY <3>2, <3>3 DEF SessType
  <2>7. Typed'
    BY <2>1, <2>2, <2>6 DEF ShipInv, Typed, Statuses
  <2>8. SessionFits'
    BY <2>1, <2>4, <2>5, FS_EmptySet DEF SessionFits
  <2>9. CheckFits' /\ ShipFits'
    BY <2>2, <2>3 DEF ShipInv, CheckFits, ShipFits, ShipmentHolds
  <2> QED
    BY <2>7, <2>8, <2>9 DEF ShipInv
<1>2. CASE AbandonSession
  <2>1. /\ order' = "awaiting_packing" /\ sess'.state = "abandoned"
        /\ \A c \in Cartons : carton'[c] = "none"
        /\ UNCHANGED <<carton, qa, ship>> /\ qa.state = "none" /\ ship.state = "none"
    BY <1>2 DEF AbandonSession, shipping, ShipInv, Typed, SessType
  <2>2. sess' \in SessType
    BY <1>2 DEF AbandonSession, ShipInv, Typed, SessType
  <2>3. Typed'
    BY <2>1, <2>2 DEF ShipInv, Typed, Statuses
  <2>4. SessionFits' /\ CheckFits' /\ ShipFits'
    BY <2>1 DEF ShipInv, SessionFits, CheckFits, ShipFits, ShipmentHolds
  <2> QED
    BY <2>3, <2>4 DEF ShipInv
<1> QED
  BY <1>1, <1>2

\* Opening and voiding a carton, and packing into and removing from it, leave the
\* closed cartons as they are.
LEMMA OpenCartonKeepsShipInv ==
    ASSUME ShipInv, NEW c \in Cartons, NEW p,
           CreateCarton(c) \/ VoidCarton(c) \/ PackAllocation(p, c) \/ RemoveContent(p, c)
    PROVE  ShipInv'
<1>1. PackingNow /\ order' = order /\ UNCHANGED <<qa, ship>> /\ sess.closed = Cardinality(Closed)
  BY DEF CreateCarton, VoidCarton, PackAllocation, RemoveContent, PackingNow, shipping, ShipInv, SessionFits
<1>2. sess' \in SessType /\ sess'.state = "open" /\ sess'.closed = sess.closed
  <2>1. sess \in SessType /\ sess.state = "open"
    BY <1>1 DEF PackingNow, ShipInv, Typed
  <2>2. \/ sess' = [sess EXCEPT !.open = @ + 1] \/ sess' = [sess EXCEPT !.open = @ - 1]
        \/ sess' = [sess EXCEPT !.packed = @ + 1] \/ sess' = [sess EXCEPT !.packed = @ - 1]
    BY DEF CreateCarton, VoidCarton, PackAllocation, RemoveContent
  <2> QED
    BY <2>1, <2>2 DEF SessType
<1>3. carton' \in [Cartons -> {"none", "open", "closed"}] /\ Closed' = Closed
  <2>1. carton \in [Cartons -> {"none", "open", "closed"}]
    BY DEF ShipInv, Typed
  <2>2. \/ carton[c] = "none" /\ carton' = [carton EXCEPT ![c] = "open"]
        \/ carton[c] = "open" /\ carton' = [carton EXCEPT ![c] = "none"]
        \/ carton' = carton
    BY DEF CreateCarton, VoidCarton, PackAllocation, RemoveContent
  <2> QED
    BY <2>1, <2>2 DEF Closed
<1> QED
  BY <1>1, <1>2, <1>3, PackingStep DEF PackingNow

\* Closing a carton adds one to the closed ones and to the session's count; the
\* last one makes the session ready, and at least one is closed then.
LEMMA CloseKeepsShipInv ==
    ASSUME ShipInv, NEW c \in Cartons, CloseCarton(c)
    PROVE  ShipInv'
<1> DEFINE next == [sess EXCEPT !.open = @ - 1, !.closed = @ + 1]
           state == IF ReadyToManifest(next) THEN "ready_to_manifest" ELSE "open"
<1>1. /\ order = "packing" /\ sess.state = "open" /\ carton[c] = "open"
      /\ carton' = [carton EXCEPT ![c] = "closed"]
      /\ UNCHANGED <<qa, ship>>
  BY DEF CloseCarton, PackingNow, shipping
<1>2. Closed' = Closed \cup {c} /\ c \notin Closed
  BY <1>1 DEF Closed, ShipInv, Typed
<1>3. Cardinality(Closed') = sess.closed + 1
  <2>1. Closed \in SUBSET Cartons /\ sess.closed = Cardinality(Closed)
    BY <1>1 DEF ShipInv, SessionFits, Closed
  <2>2. Cardinality(Closed \cup {c}) = Cardinality(Closed) + 1
    BY <1>2, <2>1, FS_AddElement, CartonsFinite
  <2> QED
    BY <1>2, <2>1, <2>2
<1>4. /\ sess' = [next EXCEPT !.state = state]
      /\ order' = IF ReadyToManifest(next) THEN "awaiting_shipment" ELSE order
  BY DEF CloseCarton
<1>5. sess' = WithCounts(sess, state, sess.open - 1, sess.closed + 1)
  BY <1>4, Zenon DEF WithCounts
<1>6. sess' \in SessType /\ sess'.closed = Cardinality(Closed') /\ sess'.state = state
  <2>1. sess \in SessType /\ sess.open \in Int /\ sess.closed \in Int
    BY DEF ShipInv, Typed, SessType
  <2> HIDE DEF next
  <2>2. state \in {"none", "open", "ready_to_manifest", "abandoned"}
    OBVIOUS
  <2>3. sess.open - 1 \in Int /\ sess.closed + 1 \in Int
    BY <2>1
  <2> HIDE DEF state
  <2>4. sess' \in SessType /\ sess'.state = state /\ sess'.closed = sess.closed + 1
    BY <1>5, <2>1, <2>2, <2>3, SessionRecord
  <2> QED
    BY <1>3, <2>4
<1>7. carton' \in [Cartons -> {"none", "open", "closed"}]
  BY <1>1 DEF ShipInv, Typed
<1>8. CASE ~ReadyToManifest(next)
  <2>1. sess'.state = "open" /\ order' = "packing"
    <3> HIDE DEF next
    <3> QED  BY <1>1, <1>4, <1>6, <1>8
  <2> QED
    BY <1>1, <1>6, <1>7, <2>1, PackingStep
<1>9. CASE ReadyToManifest(next)
  <2>1. sess'.state = "ready_to_manifest" /\ order' = "awaiting_shipment"
    <3> HIDE DEF next
    <3> QED  BY <1>1, <1>4, <1>6, <1>9
  <2>2. Typed'
    BY <1>1, <1>6, <1>7, <2>1 DEF ShipInv, Typed, Statuses
  <2>3. SessionFits'
    BY <1>2, <1>6, <2>1 DEF SessionFits
  <2>4. qa.state \notin {"open", "passed"} /\ ship.state \in {"none", "cancelled"}
    BY <1>1 DEF ShipInv, CheckFits, ShipFits, Typed, ShipType, ShipStates
  <2>5. CheckFits' /\ ShipFits'
    BY <1>1, <2>4 DEF ShipInv, CheckFits, ShipFits, ShipmentHolds
  <2> QED
    BY <2>2, <2>3, <2>5 DEF ShipInv
<1> QED
  BY <1>8, <1>9

\* A reopened carton is taken off the closed ones; nothing was checked or is to be
\* shipped that it could have been part of.
LEMMA ReopenKeepsShipInv ==
    ASSUME ShipInv, NEW c \in Cartons, ReopenCarton(c)
    PROVE  ShipInv'
<1>1. /\ order' = "packing" /\ carton[c] = "closed" /\ carton' = [carton EXCEPT ![c] = "open"]
      /\ sess.state \in {"open", "ready_to_manifest"}
      /\ qa.state \in {"none", "cancelled"} /\ ship.state \in {"none", "cancelled"}
      /\ UNCHANGED <<qa, ship>>
  BY DEF ReopenCarton, CanReopen, shipping
<1>2. Closed' = Closed \ {c} /\ c \in Closed
  BY <1>1 DEF Closed, ShipInv, Typed
<1>3. Cardinality(Closed') = sess.closed - 1
  BY <1>1, <1>2, FS_RemoveElement, CartonsFinite, Zenon DEF ShipInv, SessionFits, Closed
<1>4. sess' \in SessType /\ sess'.state = "open" /\ sess'.closed = sess.closed - 1
  <2>1. sess \in SessType /\ sess.closed \in Int
    BY DEF ShipInv, Typed, SessType
  <2>2. sess' = WithCounts(sess, "open", 1, sess.closed - 1)
    BY DEF ReopenCarton, WithCounts
  <2>3. sess.closed - 1 \in Int /\ 1 \in Int
    BY <2>1
  <2> QED
    BY <2>1, <2>2, <2>3, SessionRecord
<1>5. Typed'
  BY <1>1, <1>4 DEF ShipInv, Typed, Statuses
<1>6. SessionFits'
  BY <1>1, <1>3, <1>4, Zenon DEF SessionFits
<1>7. CheckFits' /\ ShipFits'
  BY <1>1 DEF ShipInv, CheckFits, ShipFits, ShipmentHolds
<1> QED
  BY <1>5, <1>6, <1>7 DEF ShipInv

-----------------------------------------------------------------------------
(* Quality checks *)

\* Only the check changes, and it fits.
LEMMA QaStep ==
    ASSUME ShipInv, UNCHANGED <<order, alloc, packing, ship>>, qa' \in QaType, CheckFits'
    PROVE  ShipInv'
<1>1. Typed' /\ SessionFits'
  BY DEF ShipInv, Typed, SessionFits, Closed, packing
<1>2. ShipFits'
  BY DEF ShipInv, ShipFits, ShipmentHolds, Closed, DueCartons, Within, packing
<1> QED
  BY <1>1, <1>2 DEF ShipInv

\* A check begins with the number of closed cartons, sees each once, as it is, and
\* passes when it has seen as many as there are: all of them.
LEMMA QaKeepsShipInv ==
    ASSUME ShipInv, StartQa \/ CompleteQa \/ CancelQa \/ \E c \in Cartons : VerifyCarton(c)
    PROVE  ShipInv'
<1> USE DEF picking
<1>1. qa \in QaType
  BY DEF ShipInv, Typed
<1>2. UNCHANGED <<order, alloc, packing, ship>>
  BY DEF StartQa, CompleteQa, CancelQa, VerifyCarton
<1>3. Closed' = Closed /\ (\A c \in Cartons : Within(c)' = Within(c)) /\ Closed \in SUBSET Cartons
  BY <1>2 DEF Closed, Within, packing
<1>4. CASE StartQa
  <2>1. /\ sess.state = "ready_to_manifest" /\ sess.closed = Cardinality(Closed)
        /\ Cardinality(Closed) \in Int
    BY <1>3, <1>4, CartonsFinite DEF StartQa, ReadyToShip, ShipInv, SessionFits
  <2>2. qa' = [qa EXCEPT !.state = "open", !.expected = Cardinality(Closed), !.seen = NothingIn]
    BY <1>4, <2>1 DEF StartQa
  <2>3. qa'.state = "open" /\ qa'.expected = Cardinality(Closed) /\ qa'.seen = NothingIn
    BY <1>1, <2>2 DEF QaType
  <2>4. qa'.required = qa.required /\ qa' = [required |-> qa'.required, state |-> qa'.state,
                                               expected |-> qa'.expected, seen |-> qa'.seen]
    BY <1>1, <2>2, Zenon DEF QaType
  <2>5. qa' \in QaType
    <3>1. NothingIn \in [Cartons -> SUBSET Picks] /\ qa.required \in BOOLEAN
      BY <1>1 DEF NothingIn, QaType
    <3> QED
      BY <2>1, <2>3, <2>4, <3>1 DEF QaType
  <2>6. Verified' = {}
    BY <2>3 DEF Verified, NothingIn
  <2>7. CheckFits'
    BY <1>2, <1>3, <2>1, <2>3, <2>6, Zenon DEF CheckFits, packing
  <2> QED
    BY <1>2, <2>5, <2>7, QaStep
<1>5. CASE CompleteQa
  <2>1. qa.state = "open" /\ Cardinality(Verified) = qa.expected
    BY <1>5 DEF CompleteQa
  <2>2. qa'.state = "passed" /\ qa'.expected = qa.expected /\ qa'.seen = qa.seen /\ qa' \in QaType
    BY <1>1, <1>5 DEF CompleteQa, QaType
  <2>3. Verified' = Verified
    BY <2>2 DEF Verified
  <2>4. Verified \subseteq Closed /\ Cardinality(Verified) = Cardinality(Closed)
    BY <2>1 DEF ShipInv, CheckFits
  <2>5. Verified = Closed
    BY <1>3, <2>4, CartonsFinite, FS_Subset
  <2>6. CheckFits'
    BY <1>2, <1>3, <2>1, <2>2, <2>3, <2>5 DEF ShipInv, CheckFits, packing
  <2> QED
    BY <1>2, <2>2, <2>6, QaStep
<1>6. CASE CancelQa
  <2>1. qa'.state = "cancelled" /\ qa' \in QaType
    BY <1>1, <1>6 DEF CancelQa, QaType
  <2>2. CheckFits'
    BY <2>1 DEF CheckFits
  <2> QED
    BY <1>2, <2>1, <2>2, QaStep
<1>7. ASSUME NEW c \in Cartons, VerifyCarton(c)
      PROVE  ShipInv'
  <2>1. qa.state = "open" /\ c \in Closed /\ qa' = [qa EXCEPT !.seen[c] = Within(c)]
    BY <1>7 DEF VerifyCarton
  <2>2. /\ qa'.state = "open" /\ qa'.expected = qa.expected
        /\ qa'.seen = [qa.seen EXCEPT ![c] = Within(c)]
    BY <1>1, <2>1 DEF QaType
  <2>3. qa' \in QaType
    <3>1. Within(c) \in SUBSET Picks
      BY DEF Within
    <3> QED
      BY <1>1, <2>1, <3>1 DEF QaType
  <2>4. \A d \in Cartons : qa'.seen[d] = IF d = c THEN Within(c) ELSE qa.seen[d]
    BY <1>1, <2>2 DEF QaType
  <2>5. Verified' \subseteq Verified \cup {c} /\ Verified' \subseteq Cartons
    BY <2>4 DEF Verified
  <2>6. CheckFits'
    BY <1>2, <1>3, <2>1, <2>2, <2>4, <2>5 DEF ShipInv, CheckFits, packing
  <2> QED
    BY <1>2, <2>3, <2>6, QaStep
<1> QED
  BY <1>4, <1>5, <1>6, <1>7

-----------------------------------------------------------------------------
(* Shipping *)

\* The cartons, the check and what the cartons hold stay; the session keeps its
\* state and its counts, and the shipment fits.
LEMMA ShipStep1 ==
    ASSUME ShipInv, UNCHANGED <<order, alloc, carton, qa>>, sess' \in SessType,
           sess'.state = sess.state, sess'.closed = sess.closed,
           ship' \in ShipType, ship'.gone = ship.gone, ShipFits'
    PROVE  ShipInv'
<1>1. Typed'
  BY DEF ShipInv, Typed
<1>2. SessionFits'
  BY DEF ShipInv, SessionFits, Closed
<1>3. CheckFits'
  BY DEF ShipInv, CheckFits, Closed, Verified, Within
<1> QED
  BY <1>1, <1>2, <1>3 DEF ShipInv

\* The shipment with a new state, its next revision and the cartons that left.
Moved(state, gone) == [ship EXCEPT !.state = state, !.rev = @ + 1, !.gone = gone]

\* Leaving the departed cartons alone is a case of it.
LEMMA NothingGone ==
    ASSUME ship \in ShipType, NEW state
    PROVE  Moved(state, ship.gone) = [ship EXCEPT !.state = state, !.rev = @ + 1]
<1>1. ship = [state |-> ship.state, rev |-> ship.rev, due |-> ship.due, gone |-> ship.gone]
  BY DEF ShipType
<1>2. ASSUME NEW t, t = Moved(state, ship.gone)
      PROVE  t = [state |-> state, rev |-> ship.rev + 1, due |-> ship.due, gone |-> ship.gone]
  BY <1>1, <1>2, Zenon DEF Moved
<1>3. ASSUME NEW t, t = [ship EXCEPT !.state = state, !.rev = @ + 1]
      PROVE  t = [state |-> state, rev |-> ship.rev + 1, due |-> ship.due, gone |-> ship.gone]
  BY <1>1, <1>3, Zenon
<1> QED
  BY <1>2, <1>3

\* It is a shipment's record.
LEMMA ShipmentMoved ==
    ASSUME ship \in ShipType, NEW state \in ShipStates, NEW gone \in SUBSET Cartons
    PROVE  /\ Moved(state, gone).state = state /\ Moved(state, gone).due = ship.due
           /\ Moved(state, gone).gone = gone /\ Moved(state, gone) \in ShipType
<1>1. ship = [state |-> ship.state, rev |-> ship.rev, due |-> ship.due, gone |-> ship.gone]
  BY DEF ShipType
<1>2. ASSUME NEW t, t = Moved(state, gone)
      PROVE  t = [state |-> state, rev |-> ship.rev + 1, due |-> ship.due, gone |-> gone]
  BY <1>1, <1>2, Zenon DEF Moved
<1>3. ship.rev + 1 \in Int /\ ship.due \in [Cartons -> SUBSET Picks]
  BY DEF ShipType
<1>4. Moved(state, gone) = [state |-> state, rev |-> ship.rev + 1, due |-> ship.due, gone |-> gone]
  BY <1>2
<1> QED
  BY <1>3, <1>4 DEF ShipType

\* A shipment is created with every closed carton and what it holds, and waits for
\* its manifest, or is cancelled, with all of them still there.
LEMMA ShipmentKeepsShipInv ==
    ASSUME ShipInv, CreateShipment \/ RecordManifest \/ CancelShipment
    PROVE  ShipInv'
<1> USE DEF picking, packing
<1>1. sess \in SessType /\ ship \in ShipType
  BY DEF ShipInv, Typed
<1>2. UNCHANGED <<order, alloc, carton, qa>> /\ order = "awaiting_shipment"
  BY DEF CreateShipment, RecordManifest, CancelShipment, ReadyToShip
<1>3. sess' \in SessType /\ sess'.state = sess.state /\ sess'.closed = sess.closed
  BY <1>1 DEF CreateShipment, RecordManifest, CancelShipment, SessType
<1>4. Closed' = Closed /\ (\A c \in Cartons : Within(c)' = Within(c)) /\ Closed \in SUBSET Cartons
  BY <1>2 DEF Closed, Within
<1>5. CASE CreateShipment
  <2>1. /\ ship' = [state |-> "awaiting_manifest", rev |-> 1, due |-> Snapshot, gone |-> {}]
        /\ ship.state \in {"none", "cancelled"}
        /\ \A c \in Closed : Within(c) # {}
        /\ sess.state = "ready_to_manifest"
    BY <1>5 DEF CreateShipment, ReadyToShip
  <2>2. Snapshot \in [Cartons -> SUBSET Picks]
    BY DEF Snapshot, Within
  <2>3. ship' \in ShipType /\ ship'.gone = {} /\ ship.gone = {}
    BY <2>1, <2>2 DEF ShipType, ShipStates, ShipInv, ShipFits
  <2>4. {c \in Cartons : ship'.due[c] # {}} = Closed /\ \A c \in Closed : ship'.due[c] = Within(c)
    BY <1>4, <2>1 DEF Snapshot
  <2>5. Closed # {}
    BY <2>1 DEF ShipInv, SessionFits
  <2>6. DueCartons' = Closed
    BY <2>3, <2>4 DEF DueCartons
  <2>7. ShipmentHolds'
    BY <1>4, <2>4, <2>5, <2>6 DEF ShipmentHolds
  <2>8. ShipFits'
    BY <1>2, <2>1, <2>7 DEF ShipFits
  <2> QED
    BY <1>2, <1>3, <2>3, <2>8, ShipStep1
<1>6. CASE RecordManifest
  <2>1. /\ ship'.state = "manifested" /\ ship'.due = ship.due /\ ship'.gone = ship.gone
        /\ ship' \in ShipType /\ ship.state = "awaiting_manifest"
    <3>1. ship.state = "awaiting_manifest" /\ ship' = Moved("manifested", ship.gone)
      BY <1>1, <1>6, NothingGone, Zenon DEF RecordManifest
    <3>2. ship.gone \in SUBSET Cartons /\ "manifested" \in ShipStates
      BY <1>1 DEF ShipType, ShipStates
    <3> QED
      BY <1>1, <3>1, <3>2, ShipmentMoved
  <2>2. ShipmentHolds'
    BY <1>4, <2>1 DEF ShipInv, ShipFits, ShipmentHolds, DueCartons
  <2>3. ShipFits'
    BY <1>2, <2>1, <2>2 DEF ShipInv, ShipFits
  <2> QED
    BY <1>2, <1>3, <2>1, <2>3, ShipStep1, Zenon
<1>7. CASE CancelShipment
  <2>1. /\ ship'.state = "cancelled" /\ ship'.gone = ship.gone /\ ship' \in ShipType
        /\ ship.state \in {"awaiting_manifest", "manifested"}
    <3>1. /\ ship.state \in {"awaiting_manifest", "manifested"}
          /\ ship' = Moved("cancelled", ship.gone)
      BY <1>1, <1>7, NothingGone, Zenon DEF CancelShipment
    <3>2. ship.gone \in SUBSET Cartons /\ "cancelled" \in ShipStates
      BY <1>1 DEF ShipType, ShipStates
    <3> QED
      BY <1>1, <3>1, <3>2, ShipmentMoved
  <2>2. ShipFits'
    BY <2>1 DEF ShipInv, ShipFits, ShipmentHolds
  <2> QED
    BY <1>2, <1>3, <2>1, <2>2, ShipStep1, Zenon
<1> QED
  BY <1>5, <1>6, <1>7

\* Cartons leave with all they hold; the others, and what was seen in them, stay.
LEMMA DepartureKeepsShipInv ==
    ASSUME ShipInv, NEW gone \in SUBSET Cartons, ConfirmDeparture(gone)
    PROVE  ShipInv'
<1>1. sess \in SessType /\ ship \in ShipType /\ order = "awaiting_shipment"
  BY Zenon DEF ShipInv, Typed, ConfirmDeparture
<1>2. sess' \in SessType /\ sess'.state = sess.state /\ sess'.closed = sess.closed
  <2>1. sess' = [sess EXCEPT !.ahead = @ + 1]
    BY Zenon DEF ConfirmDeparture
  <2> QED
    BY <1>1, <2>1 DEF SessType
<1>3. UNCHANGED <<carton, qa>> /\ Closed' = Closed /\ Verified' = Verified
  BY Zenon DEF ConfirmDeparture, Closed, Verified
<1>4. \A c \in Cartons \ gone : Within(c)' = Within(c)
  <2>1. \A p \in Picks : alloc'[p] = IF p \in UNION {Within(c) : c \in gone} THEN NoAlloc ELSE alloc[p]
    BY Zenon DEF ConfirmDeparture
  <2>2. \A c \in Cartons \ gone : \A p \in Picks : p \in Within(c) => p \notin UNION {Within(d) : d \in gone}
    BY DEF Within
  <2>3. \A c \in Cartons \ gone : \A p \in Picks : p \in Within(c)' <=> p \in Within(c)
    BY <2>1, <2>2 DEF Within, NoAlloc
  <2> QED
    BY <2>3 DEF Within
<1>5. /\ ship'.state = IF IsLast(gone) THEN "departed" ELSE "partially_departed"
      /\ ship'.due = ship.due /\ ship'.gone = ship.gone \cup gone /\ ship' \in ShipType
  <2> DEFINE state == IF IsLast(gone) THEN "departed" ELSE "partially_departed"
  <2>1. ship' = [ship EXCEPT !.state = state, !.rev = @ + 1, !.gone = @ \cup gone]
    BY Zenon DEF ConfirmDeparture
  <2>2. state \in ShipStates
    BY DEF ShipStates
  <2>3. ship.gone \cup gone \in SUBSET Cartons
    BY <1>1 DEF ShipType
  <2> HIDE DEF state
  <2>4. ship' = Moved(state, ship.gone \cup gone)
    BY <2>1 DEF Moved
  <2>5. ship'.state = state /\ ship'.due = ship.due /\ ship'.gone = ship.gone \cup gone /\ ship' \in ShipType
    BY <1>1, <2>2, <2>3, <2>4, ShipmentMoved
  <2> QED
    BY <2>5 DEF state
<1>6. order' = IF IsLast(gone) THEN "shipped" ELSE "awaiting_shipment"
  BY <1>1, Zenon DEF ConfirmDeparture
<1>7. /\ ship.state \in {"manifested", "partially_departed"}
      /\ gone \subseteq DueCartons
  BY Zenon DEF ConfirmDeparture
<1>8. Typed'
  BY <1>2, <1>3, <1>5, <1>6, Zenon DEF ShipInv, Typed, Statuses
<1>9. SessionFits'
  BY <1>1, <1>2, <1>3, <1>6, Zenon DEF ShipInv, SessionFits
<1>10. CheckFits'
  <2>1. \A c \in Verified \ ship'.gone : Within(c)' = Within(c) /\ c \notin ship.gone
    BY <1>4, <1>5 DEF Verified
  <2> QED
    BY <1>2, <1>3, <2>1, Zenon DEF ShipInv, CheckFits
<1>11. ShipFits'
  <2>1. DueCartons' = DueCartons \ gone
    BY <1>5, Zenon DEF DueCartons
  <2>2. \A c \in DueCartons' : Within(c)' = ship'.due[c]
    BY <1>4, <1>5, <1>7, <2>1 DEF ShipInv, ShipFits, ShipmentHolds, DueCartons
  <2>3. ~IsLast(gone) => DueCartons' # {}
    BY <1>7, <2>1, Zenon DEF IsLast
  <2>4. ShipmentHolds'
    BY <1>3, <1>5, <1>7, <2>2, <2>3 DEF ShipInv, ShipFits, ShipmentHolds
  <2> QED
    BY <1>5, <1>6, <2>4 DEF ShipFits
<1> QED
  BY <1>8, <1>9, <1>10, <1>11 DEF ShipInv

-----------------------------------------------------------------------------
\* The session, its cartons, the check and the shipment fit together in every
\* reachable state (validate_packing_session_consistency, and what the commands of
\* packing, outbound_qa and shipping ask of one another).
THEOREM ShippingIsConsistent == Spec => []ShipInv
<1>1. Init => ShipInv
  <2> SUFFICES ASSUME Init PROVE ShipInv
    OBVIOUS
  <2>1. /\ order = "open" /\ sess.state = "none" /\ ship = NoShip
        /\ carton = [c \in Cartons |-> "none"] /\ qa.state = "none"
    BY DEF Init, NoSession, NoQa
  <2>2. sess \in SessType
    BY DEF Init, NoSession, SessType
  <2>3. ship \in ShipType
    BY DEF Init, NoShip, NothingIn, ShipType, ShipStates
  <2>4. qa \in QaType
    <3>1. PICK required \in BOOLEAN : qa = [NoQa EXCEPT !.required = required]
      BY DEF Init
    <3>2. qa = [required |-> required, state |-> "none", expected |-> 0, seen |-> NothingIn]
      BY <3>1 DEF NoQa
    <3> QED
      BY <3>2 DEF QaType, NothingIn
  <2>5. Typed
    BY <2>1, <2>2, <2>3, <2>4, Zenon DEF Typed, Statuses
  <2>6. SessionFits /\ CheckFits
    BY <2>1, Zenon DEF SessionFits, CheckFits
  <2>7. ShipFits
    BY <2>1 DEF ShipFits, ShipmentHolds, NoShip
  <2> QED
    BY <2>5, <2>6, <2>7 DEF ShipInv
<1>2. ShipInv /\ [Next]_vars => ShipInv'
  <2> SUFFICES ASSUME ShipInv, [Next]_vars PROVE ShipInv'
    OBVIOUS
  <2>1. CASE ReleaseOrder \/ CancelOrder \/ PickStep
    BY <2>1, PickingKeepsShipInv
  <2>2. CASE PackStep
    BY <2>2, SessionKeepsShipInv, OpenCartonKeepsShipInv, CloseKeepsShipInv, ReopenKeepsShipInv, Zenon
       DEF PackStep
  <2>3. CASE ShipStep
    BY <2>3, QaKeepsShipInv, ShipmentKeepsShipInv, DepartureKeepsShipInv, Zenon DEF ShipStep
  <2>4. CASE UNCHANGED vars
    BY <2>4, IdleStep DEF vars, packing
  <2> QED
    BY <2>1, <2>2, <2>3, <2>4 DEF Next
<1> QED
  BY <1>1, <1>2, PTL DEF Spec

\* Whatever is reopened, removed, cancelled or departs in part, an order that
\* passed its check ships only cartons that were seen, with what was seen in them
\* (verify_carton, complete, require_no_downstream_execution, cancel_shipment).
THEOREM ChecksStand == Spec => []QaStands
<1>1. ShipInv => QaStands
  BY DEF ShipInv, CheckFits, QaStands, Typed, SessionFits
<1> QED
  BY <1>1, ShippingIsConsistent, PTL

\* A shipment that is under way has the cartons and the content it was created
\* with, and something left to depart (create_shipment, confirm_departure).
THEOREM ShipmentsHold == Spec => []ShipmentHolds
<1>1. ShipInv => ShipmentHolds
  BY DEF ShipInv, ShipFits
<1> QED
  BY <1>1, ShippingIsConsistent, PTL

-----------------------------------------------------------------------------
(* Tasks and their allocations *)

SourceOf(w) == [stage |-> "source", line |-> w.line, at |-> w.from, qty |-> w.qty]

\* What holds of one task and its live allocation.
TaskFits(w, a) ==
    /\ w.status # "absent" => (w.status \in {"open", "in_progress"} <=> a = SourceOf(w))
    /\ w.status # "absent" => w.from \in Sources
    /\ a.stage = "source" => a.at \in Sources
    /\ w.status = "completed" /\ a.stage \in {"staged", "packed"} => a.line = w.line /\ a.qty = w.qty

WorkInv ==
    /\ work \in [Picks -> WorkType] /\ alloc \in [Picks -> AllocType]
    /\ \A p \in Picks : TaskFits(work[p], alloc[p])
    /\ OneClaimPerPicker

\* A step that makes no claim, and leaves every task fitting its allocation.
LEMMA EachStep ==
    ASSUME WorkInv, work' \in [Picks -> WorkType], alloc' \in [Picks -> AllocType],
           \A p \in Picks : TaskFits(work'[p], alloc'[p]),
           \A p \in Picks : work'[p].status = "in_progress" =>
                              work[p].status = "in_progress" /\ work'[p].by = work[p].by
    PROVE  WorkInv'
<1>1. \A u \in Users : Claims(work', u) \subseteq Claims(work, u)
  BY DEF Claims
<1>2. OneClaimPerPicker'
  BY <1>1, Zenon DEF WorkInv, OneClaimPerPicker
<1> QED
  BY <1>2, Zenon DEF WorkInv

\* A step that ends or changes one task.
LEMMA TaskStep ==
    ASSUME WorkInv, NEW p \in Picks, NEW w \in WorkType, NEW a \in AllocType,
           work' = [work EXCEPT ![p] = w], alloc' = [alloc EXCEPT ![p] = a],
           TaskFits(w, a), w.status # "in_progress"
    PROVE  WorkInv'
<1>1. work' \in [Picks -> WorkType] /\ alloc' \in [Picks -> AllocType]
  BY DEF WorkInv
<1>2. \A q \in Picks : /\ work'[q] = IF q = p THEN w ELSE work[q]
                       /\ alloc'[q] = IF q = p THEN a ELSE alloc[q]
  BY Zenon DEF WorkInv
<1> QED
  BY <1>1, <1>2, EachStep DEF WorkInv

\* Tasks stay as they are, and allocations move between totes and cartons or go.
LEMMA MoveStep ==
    ASSUME WorkInv, UNCHANGED work, alloc' \in [Picks -> AllocType],
           \A p \in Picks : \/ alloc'[p] = alloc[p]
                            \/ alloc'[p] = NoAlloc /\ alloc[p].stage = "packed"
                            \/ /\ alloc[p].stage \in {"staged", "packed"}
                               /\ alloc'[p].stage \in {"staged", "packed"}
                               /\ alloc'[p].line = alloc[p].line /\ alloc'[p].qty = alloc[p].qty
    PROVE  WorkInv'
<1>1. ASSUME NEW p \in Picks
      PROVE  TaskFits(work[p], alloc'[p])
  <2>1. TaskFits(work[p], alloc[p])
    BY DEF WorkInv
  <2>2. CASE alloc'[p] = alloc[p]
    BY <2>1, <2>2, ZenonT(60)
  <2>3. CASE alloc[p].stage \in {"staged", "packed"} /\ alloc'[p].stage \in {"none", "staged", "packed"}
    <3>1. alloc[p] # SourceOf(work[p]) /\ alloc'[p] # SourceOf(work[p])
      BY <2>3 DEF SourceOf
    <3> QED
      BY <1>1, <2>1, <2>3, <3>1 DEF TaskFits, NoAlloc
  <2> QED
    BY <1>1, <2>2, <2>3 DEF NoAlloc
<1>2. /\ work' \in [Picks -> WorkType]
      /\ \A p \in Picks : TaskFits(work'[p], alloc'[p])
      /\ \A p \in Picks : work'[p].status = "in_progress" =>
                           work[p].status = "in_progress" /\ work'[p].by = work[p].by
  BY <1>1, Zenon DEF WorkInv
<1> QED
  BY <1>2, EachStep, Zenon

\* A new task fits the allocation it is made from.
LEMMA OpenTaskFits ==
    ASSUME NEW a \in [Picks -> AllocType], NEW p \in Picks, NEW parent \in Picks \cup {None},
           a[p].stage = "source", a[p].at \in Sources
    PROVE  /\ OpenTask(a, p, parent) \in WorkType /\ OpenTask(a, p, parent).status = "open"
           /\ TaskFits(OpenTask(a, p, parent), a[p])
<1> SUFFICES ASSUME NEW t, t = OpenTask(a, p, parent)
             PROVE  t \in WorkType /\ t.status = "open" /\ TaskFits(t, a[p])
  OBVIOUS
<1>1. t = [status |-> "open", line |-> a[p].line, from |-> a[p].at, qty |-> a[p].qty, by |-> None,
           lease |-> FALSE, parent |-> parent, tote |-> None, pick |-> "none"]
  BY Zenon DEF OpenTask, NoWork
<1>2. a[p] \in AllocType
  BY Zenon
<1>3. t \in WorkType
  BY <1>1, <1>2 DEF WorkType, AllocType
<1>4. a[p] = SourceOf(t)
  BY <1>1, <1>2 DEF SourceOf, AllocType
<1> QED
  BY <1>1, <1>3, <1>4 DEF TaskFits

\* A task with the plan of another.
SamePlan(w, t) == t.line = w.line /\ t.from = w.from /\ t.qty = w.qty

\* What a report or a confirmation leaves is a task with the same plan.
Done(w, status, tote, pick) == [Finished(w, status) EXCEPT !.tote = tote, !.pick = pick]

\* A finished task has its type, its plan and its new status.
LEMMA DoneRow ==
    ASSUME NEW w \in WorkType, NEW status \in {"completed", "shorted"},
           NEW tote \in Totes \cup {None}, NEW pick \in {"none", "picked"}
    PROVE  /\ Done(w, status, tote, pick) \in WorkType
           /\ SamePlan(w, Done(w, status, tote, pick))
           /\ Done(w, status, tote, pick).status = status
<1> SUFFICES ASSUME NEW t, t = Done(w, status, tote, pick)
             PROVE  t \in WorkType /\ SamePlan(w, t) /\ t.status = status
  OBVIOUS
<1>1. t \in WorkType
  BY Zenon DEF WorkType, Finished, Done
<1> QED
  BY <1>1 DEF WorkType, Finished, SamePlan, Done

\* What the other commands make of a task.
Reopened(w) == [w EXCEPT !.status = "open", !.tote = None, !.pick = "none"]
Unleased(w) == [w EXCEPT !.lease = FALSE]
Dropped(w) == [w EXCEPT !.status = "cancelled"]
Restored(w) == [w EXCEPT !.pick = "restored"]
Taken(w, u) == [w EXCEPT !.status = "in_progress", !.by = u, !.lease = TRUE]

\* A task that is given back has the plan it had.
LEMMA UnclaimedRow ==
    ASSUME NEW w \in WorkType
    PROVE  Unclaimed(w) \in WorkType /\ SamePlan(w, Unclaimed(w)) /\ Unclaimed(w).status = "open"
<1>1. Unclaimed(w) \in WorkType
  BY Zenon DEF WorkType, Unclaimed
<1> QED
  BY <1>1 DEF WorkType, Unclaimed, SamePlan

\* A task whose pick is reversed has the plan it had.
LEMMA ReopenedRow ==
    ASSUME NEW w \in WorkType
    PROVE  Reopened(w) \in WorkType /\ SamePlan(w, Reopened(w)) /\ Reopened(w).status = "open"
<1>1. Reopened(w) \in WorkType
  BY Zenon DEF WorkType, Reopened
<1> QED
  BY <1>1 DEF WorkType, Reopened, SamePlan

\* A task whose lease ran out has the plan it had.
LEMMA UnleasedRow ==
    ASSUME NEW w \in WorkType
    PROVE  Unleased(w) \in WorkType /\ SamePlan(w, Unleased(w)) /\ Unleased(w).status = w.status /\ Unleased(w).by = w.by
<1>1. Unleased(w) \in WorkType
  BY Zenon DEF WorkType, Unleased
<1> QED
  BY <1>1 DEF WorkType, Unleased, SamePlan

\* A cancelled task has the plan it had.
LEMMA DroppedRow ==
    ASSUME NEW w \in WorkType
    PROVE  Dropped(w) \in WorkType /\ SamePlan(w, Dropped(w)) /\ Dropped(w).status = "cancelled"
<1>1. Dropped(w) \in WorkType
  BY Zenon DEF WorkType, Dropped
<1> QED
  BY <1>1 DEF WorkType, Dropped, SamePlan

\* A task whose pick an abandoned session restored has the plan it had.
LEMMA RestoredRow ==
    ASSUME NEW w \in WorkType
    PROVE  Restored(w) \in WorkType /\ SamePlan(w, Restored(w)) /\ Restored(w).status = w.status /\ Restored(w).by = w.by
<1>1. Restored(w) \in WorkType
  BY Zenon DEF WorkType, Restored
<1> QED
  BY <1>1 DEF WorkType, Restored, SamePlan

\* A claimed task has the plan it had.
LEMMA TakenRow ==
    ASSUME NEW w \in WorkType, NEW u \in Users
    PROVE  /\ Taken(w, u) \in WorkType /\ SamePlan(w, Taken(w, u))
           /\ Taken(w, u).status = "in_progress" /\ Taken(w, u).by = u
<1>1. Taken(w, u) \in WorkType
  BY Zenon DEF WorkType, Taken
<1> QED
  BY <1>1 DEF WorkType, Taken, SamePlan

\* An allocation in another stage and place is an allocation.
LiveStages == {"source", "staged", "packed"}
Spots == Places \cup {None}
Placed(a, stage, at) == [a EXCEPT !.stage = stage, !.at = at]

\* An allocation that was moved has its type, its line and its quantity.
LEMMA PlacedRow ==
    ASSUME NEW a \in AllocType, NEW stage \in LiveStages, NEW at \in Spots
    PROVE  /\ Placed(a, stage, at) \in AllocType
           /\ Placed(a, stage, at).stage = stage /\ Placed(a, stage, at).at = at
           /\ Placed(a, stage, at).line = a.line /\ Placed(a, stage, at).qty = a.qty
<1> SUFFICES ASSUME NEW b, b = Placed(a, stage, at)
             PROVE  b \in AllocType /\ b.stage = stage /\ b.at = at /\ b.line = a.line /\ b.qty = a.qty
  OBVIOUS
<1>1. b = [stage |-> stage, line |-> a.line, at |-> at, qty |-> a.qty]
  BY Zenon DEF AllocType, Placed
<1> QED
  BY <1>1 DEF AllocType, LiveStages, Spots

\* A confirmation takes the units of one task out of their source.
LEMMA ConfirmKeepsWorkInv ==
    ASSUME WorkInv, NEW u \in Users, NEW p \in Picks, NEW t \in Totes, ConfirmPick(u, p, t)
    PROVE  WorkInv'
<1> DEFINE w == Done(work[p], "completed", t, "picked")
           a == Placed(alloc[p], "staged", t)
<1>1. work' = [work EXCEPT ![p] = w] /\ alloc' = [alloc EXCEPT ![p] = a]
  BY Zenon DEF ConfirmPick, Done, Placed
<1>2. work[p] \in WorkType /\ alloc[p] \in AllocType /\ TaskFits(work[p], alloc[p])
  BY Zenon DEF WorkInv
<1>3. w \in WorkType /\ SamePlan(work[p], w) /\ w.status = "completed"
  BY <1>2, DoneRow, Zenon
<1>4. a \in AllocType /\ a.stage = "staged" /\ a.line = alloc[p].line /\ a.qty = alloc[p].qty
  <2>1. t \in Spots /\ "staged" \in LiveStages
    BY DEF Places, Spots, LiveStages
  <2>2. \A g \in LiveStages, x \in Spots :
          /\ Placed(alloc[p], g, x) \in AllocType
          /\ Placed(alloc[p], g, x).stage = g /\ Placed(alloc[p], g, x).at = x
          /\ Placed(alloc[p], g, x).line = alloc[p].line /\ Placed(alloc[p], g, x).qty = alloc[p].qty
    BY <1>2, PlacedRow, Zenon
  <2> QED
    BY <2>1, <2>2, Zenon
<1>5. alloc[p] = SourceOf(work[p]) /\ work[p].status = "in_progress"
  BY Zenon DEF ConfirmPick, PickTarget, HoldsLease, Claims, SourceOf
<1>6. TaskFits(w, a)
  <2> HIDE DEF w, a
  <2>1. a # SourceOf(w)
    BY <1>4, SMTT(60) DEF SourceOf
  <2>2. a.line = w.line /\ a.qty = w.qty
    BY <1>3, <1>4, <1>5, SMTT(60) DEF SamePlan, SourceOf
  <2>3. w.from \in Sources
    BY <1>2, <1>3, <1>5 DEF TaskFits, SamePlan
  <2> QED
    BY <1>3, <1>4, <2>1, <2>2, <2>3, Zenon DEF TaskFits
<1> HIDE DEF w, a
<1> QED
  BY <1>1, <1>3, <1>4, <1>6, TaskStep, Zenon

\* A shortage report ends a task, with what was picked of it staged.
LEMMA ReportKeepsWorkInv ==
    ASSUME WorkInv, NEW u \in Users, NEW p \in Picks, NEW n \in 0 .. (work[p].qty - 1),
           NEW t \in Totes \cup {None}, ReportShortage(u, p, n, t)
    PROVE  WorkInv'
<1> DEFINE pick == IF n = 0 THEN "none" ELSE "picked"
           w == Done(work[p], "shorted", t, pick)
           a == IF n = 0 THEN NoAlloc
                ELSE [alloc[p] EXCEPT !.stage = "staged", !.at = t, !.qty = n]
<1>1. work' = [work EXCEPT ![p] = w] /\ alloc' = [alloc EXCEPT ![p] = a]
  BY Zenon DEF ReportShortage, Done
<1>2. work[p] \in WorkType /\ alloc[p] \in AllocType /\ TaskFits(work[p], alloc[p])
  BY DEF WorkInv
<1>3. w \in WorkType /\ SamePlan(work[p], w) /\ w.status = "shorted"
  BY <1>2, DoneRow, Zenon
<1>4. a \in AllocType /\ a.stage \in {"none", "staged"}
  <2>1. CASE n = 0
    BY <2>1, Zenon DEF NoAlloc, AllocType
  <2>2. CASE n # 0
    <3>1. work[p].qty \in Nat /\ n \in Nat
      BY <1>2 DEF WorkType
    <3>2. a = [stage |-> "staged", line |-> alloc[p].line, at |-> t, qty |-> n]
      BY <1>2, <2>2, Zenon DEF AllocType
    <3> HIDE DEF a
    <3> QED
      BY <1>2, <3>1, <3>2, Zenon DEF AllocType, Places
  <2> QED
    BY <2>1, <2>2
<1>5. work[p].status = "in_progress"
  BY Zenon DEF ReportShortage, PickTarget, HoldsLease, Claims
<1> HIDE DEF w, a
<1>6. TaskFits(w, a)
  <2>1. a # SourceOf(w)
    BY <1>4 DEF SourceOf
  <2> QED
    BY <1>2, <1>3, <1>4, <1>5, <2>1, Zenon DEF TaskFits, SamePlan
<1> QED
  BY <1>1, <1>3, <1>4, <1>6, TaskStep, Zenon

\* A reversal puts the units of a completed task back where they were allocated.
LEMMA ReverseKeepsWorkInv ==
    ASSUME WorkInv, NEW p \in Picks, ReversePick(p)
    PROVE  WorkInv'
<1> DEFINE w == Reopened(work[p])
           a == Placed(alloc[p], "source", work[p].from)
<1>1. work' = [work EXCEPT ![p] = w] /\ alloc' = [alloc EXCEPT ![p] = a]
  BY Zenon DEF ReversePick, Placed, Reopened
<1>2. work[p] \in WorkType /\ alloc[p] \in AllocType /\ TaskFits(work[p], alloc[p])
  BY Zenon DEF WorkInv
<1>3. w \in WorkType /\ SamePlan(work[p], w) /\ w.status = "open"
  BY <1>2, ReopenedRow, Zenon
<1>4. work[p].status = "completed" /\ alloc[p].stage = "staged"
  BY Zenon DEF ReversePick, CanReverse
<1>5. work[p].from \in Sources /\ alloc[p].line = work[p].line /\ alloc[p].qty = work[p].qty
  BY <1>2, <1>4, ZenonT(60) DEF TaskFits
<1>6. /\ a \in AllocType /\ a.stage = "source" /\ a.at = work[p].from
      /\ a.line = alloc[p].line /\ a.qty = alloc[p].qty
  <2>1. work[p].from \in Spots /\ "source" \in LiveStages
    BY <1>5 DEF Places, Spots, LiveStages
  <2>2. \A g \in LiveStages, x \in Spots :
          /\ Placed(alloc[p], g, x) \in AllocType
          /\ Placed(alloc[p], g, x).stage = g /\ Placed(alloc[p], g, x).at = x
          /\ Placed(alloc[p], g, x).line = alloc[p].line /\ Placed(alloc[p], g, x).qty = alloc[p].qty
    BY <1>2, PlacedRow, Zenon
  <2> QED
    BY <2>1, <2>2
<1> HIDE DEF w, a
<1>7. a = SourceOf(w)
  BY <1>3, <1>5, <1>6, Zenon DEF SourceOf, SamePlan, AllocType
<1>8. TaskFits(w, a)
  BY <1>3, <1>5, <1>6, <1>7, Zenon DEF TaskFits, SamePlan
<1> QED
  BY <1>1, <1>3, <1>6, <1>8, TaskStep, Zenon

\* What a task fits depends on its plan and its status only.
LEMMA FitsByPlan ==
    ASSUME NEW w, NEW t, NEW a, SamePlan(w, t), t.status = w.status, TaskFits(w, a)
    PROVE  TaskFits(t, a)
BY Zenon DEF SamePlan, TaskFits, SourceOf

\* Release makes a task of every allocation; cancellation closes both.
LEMMA ReleaseKeepsWorkInv ==
    ASSUME WorkInv, ReleaseOrder
    PROVE  WorkInv'
<1>1. alloc' = alloc /\ \A p \in Picks :
        work'[p] = IF alloc[p].stage = "source" THEN OpenTask(alloc, p, None) ELSE work[p]
  BY Zenon DEF ReleaseOrder
<1>2. ASSUME NEW p \in Picks
      PROVE  /\ work'[p] \in WorkType /\ TaskFits(work'[p], alloc'[p])
             /\ work'[p].status = "in_progress" =>
                  work[p].status = "in_progress" /\ work'[p].by = work[p].by
  <2>1. work[p] \in WorkType /\ TaskFits(work[p], alloc[p]) /\ alloc \in [Picks -> AllocType]
    BY Zenon DEF WorkInv
  <2>2. CASE alloc[p].stage = "source"
    <3>1. alloc[p].at \in Sources
      BY <2>1, <2>2, Zenon DEF TaskFits
    <3> QED
      BY <1>1, <2>1, <2>2, <3>1, OpenTaskFits, Zenon
  <2>3. CASE alloc[p].stage # "source"
    BY <1>1, <2>1, <2>3
  <2> QED
    BY <2>2, <2>3, Zenon
<1>3. work' \in [Picks -> WorkType] /\ alloc' \in [Picks -> AllocType]
  BY <1>1, <1>2, Zenon DEF WorkInv, ReleaseOrder
<1> QED
  BY <1>2, <1>3, EachStep, Zenon

\* Nothing is being executed when an order is cancelled.
LEMMA CancelKeepsWorkInv ==
    ASSUME WorkInv, CancelOrder
    PROVE  WorkInv'
<1>1. \A p \in Picks : /\ work[p].status \in {"absent", "open"}
                       /\ alloc'[p] = NoAlloc
                       /\ work'[p] = IF work[p].status = "open"
                                     THEN Dropped(work[p]) ELSE work[p]
  BY DEF CancelOrder, WorkIsPending, Dropped
<1>2. NoAlloc \in AllocType /\ NoAlloc.stage = "none"
  BY Zenon DEF NoAlloc, AllocType
<1>3. ASSUME NEW p \in Picks
      PROVE  /\ work'[p] \in WorkType /\ TaskFits(work'[p], alloc'[p])
             /\ work'[p].status # "in_progress"
  <2>1. work[p] \in WorkType /\ TaskFits(work[p], alloc[p])
    BY Zenon DEF WorkInv
  <2>2. CASE work[p].status = "open"
    <3>1. work'[p] = Dropped(work[p])
      BY <1>1, <2>2, Zenon
    <3>2. work'[p] \in WorkType /\ SamePlan(work[p], work'[p]) /\ work'[p].status = "cancelled"
      BY <2>1, <3>1, DroppedRow, Zenon
    <3>3. NoAlloc # SourceOf(work'[p])
      BY <1>2 DEF SourceOf
    <3> QED
      BY <1>1, <1>2, <2>1, <2>2, <3>2, <3>3, Zenon DEF TaskFits, SamePlan
  <2>3. CASE work[p].status = "absent"
    BY <1>1, <1>2, <2>1, <2>3, Zenon DEF TaskFits
  <2> QED
    BY <1>1, <2>2, <2>3, Zenon
<1>4. work' \in [Picks -> WorkType] /\ alloc' \in [Picks -> AllocType]
  BY <1>1, <1>2, <1>3, Zenon DEF CancelOrder
<1> QED
  BY <1>3, <1>4, EachStep, Zenon

\* A task given back, or its lease run out, is to be executed as before.
LEMMA LeaseKeepsWorkInv ==
    ASSUME WorkInv, NEW p \in Picks,
           LeaseExpires(p) \/ \E u \in Users : ReleaseClaim(u, p)
    PROVE  WorkInv'
<1>1. /\ alloc' = alloc
      /\ \/ work' = [work EXCEPT ![p] = Unleased(work[p])]
         \/ work' = [work EXCEPT ![p] = Unclaimed(work[p])] /\ work[p].status = "in_progress"
  BY DEF LeaseExpires, ReleaseClaim, HoldsLease, Claims, Unleased
<1>2. work[p] \in WorkType /\ TaskFits(work[p], alloc[p])
  BY Zenon DEF WorkInv
<1>3. /\ work'[p] \in WorkType /\ SamePlan(work[p], work'[p])
      /\ \/ work'[p].status = work[p].status /\ work'[p].by = work[p].by
         \/ work'[p].status = "open" /\ work[p].status = "in_progress"
  <2>1. CASE work' = [work EXCEPT ![p] = Unleased(work[p])]
    <3>1. work'[p] = Unleased(work[p])
      BY <2>1, Zenon DEF WorkInv
    <3> QED
      BY <1>2, <3>1, UnleasedRow, Zenon
  <2>2. CASE work' = [work EXCEPT ![p] = Unclaimed(work[p])] /\ work[p].status = "in_progress"
    <3>1. work'[p] = Unclaimed(work[p])
      BY <2>2, Zenon DEF WorkInv
    <3> QED
      BY <1>2, <2>2, <3>1, UnclaimedRow, Zenon
  <2> QED
    BY <1>1, <2>1, <2>2, Zenon
<1>4. TaskFits(work'[p], alloc[p])
  BY <1>2, <1>3, Zenon DEF TaskFits, SamePlan, SourceOf
<1>5. \A q \in Picks \ {p} : work'[q] = work[q]
  BY <1>1 DEF WorkInv
<1>6. work' \in [Picks -> WorkType]
  <2>1. \E w : work' = [work EXCEPT ![p] = w]
    BY <1>1
  <2> QED
    BY <1>3, <1>5, <2>1, Zenon DEF WorkInv
<1> QED
  BY <1>1, <1>3, <1>4, <1>5, <1>6, EachStep, Zenon DEF WorkInv

\* A claim first gives back what lapsed, and is then the only one of its picker.
LEMMA ClaimKeepsWorkInv ==
    ASSUME WorkInv, NEW u \in Users, NEW p \in Picks, ClaimPick(u, p)
    PROVE  WorkInv'
<1>1. /\ alloc' = alloc /\ Claims(Lapsed, u) = {} /\ Lapsed[p].status = "open"
      /\ work' = [Lapsed EXCEPT ![p] = Taken(Lapsed[p], u)]
  BY Zenon DEF ClaimPick, Taken
<1>2. ASSUME NEW q \in Picks
      PROVE  /\ Lapsed[q] \in WorkType /\ SamePlan(work[q], Lapsed[q])
             /\ TaskFits(Lapsed[q], alloc[q])
             /\ Lapsed[q].status = "in_progress" => Lapsed[q] = work[q]
  <2>1. work[q] \in WorkType /\ TaskFits(work[q], alloc[q])
    BY Zenon DEF WorkInv
  <2>2. CASE work[q].status = "in_progress" /\ ~work[q].lease
    <3>1. Lapsed[q] = Unclaimed(work[q])
      BY <2>2, Zenon DEF Lapsed
    <3>2. /\ Lapsed[q] \in WorkType /\ SamePlan(work[q], Lapsed[q])
          /\ Lapsed[q].status = "open"
      BY <2>1, <3>1, UnclaimedRow, Zenon
    <3> QED
      BY <2>1, <2>2, <3>2, Zenon DEF TaskFits, SamePlan, SourceOf
  <2>3. CASE ~(work[q].status = "in_progress" /\ ~work[q].lease)
    <3>1. Lapsed[q] = work[q]
      BY <2>3, Zenon DEF Lapsed
    <3> QED
      BY <2>1, <3>1, Zenon DEF SamePlan
  <2> QED
    BY <2>2, <2>3, Zenon
<1>3. \A q \in Picks : work'[q] = IF q = p THEN Taken(Lapsed[p], u) ELSE Lapsed[q]
  BY <1>1, Zenon DEF Lapsed
<1>4. /\ work'[p] \in WorkType /\ SamePlan(Lapsed[p], work'[p])
      /\ work'[p].status = "in_progress" /\ work'[p].by = u
  <2>1. Lapsed[p] \in WorkType /\ work'[p] = Taken(Lapsed[p], u)
    BY <1>2, <1>3, Zenon
  <2> QED
    BY <2>1, TakenRow
<1>5. TaskFits(work'[p], alloc[p])
  BY <1>1, <1>2, <1>4, Zenon DEF TaskFits, SamePlan, SourceOf
<1>6. work' \in [Picks -> WorkType] /\ alloc' \in [Picks -> AllocType]
  <2>1. work' = [q \in Picks |-> work'[q]]
    BY <1>1, Zenon DEF Lapsed
  <2>2. \A q \in Picks : work'[q] \in WorkType
    BY <1>2, <1>3, <1>4, Zenon
  <2> QED
    BY <1>1, <2>1, <2>2, Zenon DEF WorkInv
<1>7. \A q \in Picks : TaskFits(work'[q], alloc'[q])
  BY <1>1, <1>2, <1>3, <1>5, Zenon
<1>8. OneClaimPerPicker'
  <2>1. \A q \in Picks \ {p} : q \notin Claims(work', u)
    BY <1>1, <1>3, Zenon DEF Claims
  <2>2. \A v \in Users \ {u} : Claims(work', v) \subseteq Claims(work, v)
    BY <1>2, <1>3, <1>4, Zenon DEF Claims
  <2>3. \A v \in Users : Claims(work', v) \subseteq Picks
    BY Zenon DEF Claims
  <2> QED
    BY <2>1, <2>2, <2>3, Zenon DEF OneClaimPerPicker, WorkInv
<1> QED
  BY <1>6, <1>7, <1>8 DEF WorkInv

\* Recovery makes tasks with allocations of their own in the sources it found.
LEMMA RecoverKeepsWorkInv ==
    ASSUME WorkInv, NEW p \in Picks, NEW plan \in RecoveryPlans(p), Recover(p, plan)
    PROVE  WorkInv'
<1> DEFINE chosen == {s \in Sources : plan[s] > 0}
           spare == {q \in Picks : work[q].status = "absent"}
           id == CHOOSE f \in [chosen -> spare] : \A s, r \in chosen : f[s] = f[r] => s = r
           of(q) == CHOOSE s \in chosen : id[s] = q
           new == {id[s] : s \in chosen}
<1>1. /\ alloc' = [q \in Picks |->
                     IF q \in new
                     THEN [stage |-> "source", line |-> work[p].line, at |-> of(q), qty |-> plan[of(q)]]
                     ELSE alloc[q]]
      /\ work' = [q \in Picks |-> IF q \in new THEN OpenTask(alloc', q, p) ELSE work[q]]
  BY Zenon DEF Recover
<1>2. \A q \in new : of(q) \in Sources /\ plan[of(q)] \in Nat
  <2>1. \A q \in new : of(q) \in chosen
    BY Zenon
  <2>2. \A s \in chosen : s \in Sources /\ plan[s] \in Nat
    BY DEF RecoveryPlans
  <2> QED
    BY <2>1, <2>2, Zenon
<1> HIDE DEF new, of
<1>3. \A q \in Picks : alloc'[q] \in AllocType
  BY <1>1, <1>2, Zenon DEF AllocType, Places, WorkInv, WorkType
<1>4. alloc' \in [Picks -> AllocType]
  BY <1>1, <1>3, Zenon
<1>5. \A q \in Picks : q \in new => alloc'[q].stage = "source" /\ alloc'[q].at \in Sources
  BY <1>1, <1>2, Zenon
<1>6. ASSUME NEW q \in Picks
      PROVE  /\ work'[q] \in WorkType /\ TaskFits(work'[q], alloc'[q])
             /\ work'[q].status = "in_progress" =>
                  work[q].status = "in_progress" /\ work'[q].by = work[q].by
  <2>1. CASE q \in new
    <3>1. work'[q] = OpenTask(alloc', q, p)
      BY <1>1, <2>1, Zenon
    <3> QED
      BY <1>4, <1>5, <2>1, <3>1, OpenTaskFits, Zenon
  <2>2. CASE q \notin new
    BY <1>1, <2>2 DEF WorkInv
  <2> QED
    BY <2>1, <2>2, Zenon
<1>7. work' \in [Picks -> WorkType]
  BY <1>1, <1>6, Zenon
<1> QED
  BY <1>4, <1>6, <1>7, EachStep, Zenon

\* Packing, removal and departure move allocations that left their source, and an
\* abandoned session restores the picks of its tasks.
LEMMA PackingKeepsWorkInv ==
    ASSUME WorkInv,
           \/ \E p \in Picks, c \in Cartons : PackAllocation(p, c) \/ RemoveContent(p, c)
           \/ AbandonSession
           \/ \E gone \in SUBSET Cartons : ConfirmDeparture(gone)
    PROVE  WorkInv'
<1>1. ASSUME NEW p \in Picks, NEW c \in Cartons, PackAllocation(p, c) \/ RemoveContent(p, c)
      PROVE  WorkInv'
  <2>1. PICK stage \in {"staged", "packed"}, at \in Places \cup {None} :
          alloc' = [alloc EXCEPT ![p] = Placed(alloc[p], stage, at)]
    <3>1. CASE PackAllocation(p, c)
      BY <3>1, Zenon DEF PackAllocation, Placed, Places
    <3>2. CASE RemoveContent(p, c)
      <4>1. work[p].tote \in Places \cup {None}
        BY DEF WorkInv, WorkType, Places
      <4>2. alloc' = [alloc EXCEPT ![p] = Placed(alloc[p], "staged", work[p].tote)]
        BY <3>2, Zenon DEF RemoveContent, Placed
      <4> QED
        BY <4>1, <4>2, Zenon
    <3> QED
      BY <1>1, <3>1, <3>2
  <2>2. alloc[p].stage \in {"staged", "packed"} /\ UNCHANGED work
    BY <1>1 DEF PackAllocation, RemoveContent, Within
  <2>3. alloc[p] \in AllocType
    BY DEF WorkInv
  <2>4. alloc'[p] = Placed(alloc[p], stage, at) /\ \A q \in Picks \ {p} : alloc'[q] = alloc[q]
    BY <2>1, Zenon DEF WorkInv
  <2>5. /\ alloc'[p] \in AllocType /\ alloc'[p].stage \in {"staged", "packed"}
        /\ alloc'[p].line = alloc[p].line /\ alloc'[p].qty = alloc[p].qty
    <3>1. stage \in LiveStages /\ at \in Spots
      BY DEF LiveStages, Spots
    <3>2. \A g \in LiveStages, x \in Spots :
            /\ Placed(alloc[p], g, x) \in AllocType
            /\ Placed(alloc[p], g, x).stage = g /\ Placed(alloc[p], g, x).at = x
            /\ Placed(alloc[p], g, x).line = alloc[p].line /\ Placed(alloc[p], g, x).qty = alloc[p].qty
      BY <2>3, PlacedRow, Zenon
    <3> QED
      BY <2>4, <3>1, <3>2
  <2>6. alloc' \in [Picks -> AllocType]
    BY <2>1, <2>4, <2>5, Zenon DEF WorkInv
  <2> QED
    BY <2>2, <2>4, <2>5, <2>6, MoveStep, Zenon
<1>2. CASE AbandonSession
  <2>1. alloc' = alloc /\ work' = [p \in Picks |-> IF p \in StagedPicks THEN Restored(work[p]) ELSE work[p]]
    BY <1>2, Zenon DEF AbandonSession, Restored
  <2>2. ASSUME NEW p \in Picks
        PROVE  /\ work'[p] \in WorkType /\ TaskFits(work'[p], alloc'[p])
               /\ work'[p].status = work[p].status /\ work'[p].by = work[p].by
    <3>1. work[p] \in WorkType /\ TaskFits(work[p], alloc[p])
      BY DEF WorkInv
    <3>2. work'[p] = Restored(work[p]) \/ work'[p] = work[p]
      BY <2>1, Zenon
    <3>3. /\ work'[p] \in WorkType /\ SamePlan(work[p], work'[p])
          /\ work'[p].status = work[p].status /\ work'[p].by = work[p].by
      BY <3>1, <3>2, RestoredRow, Zenon DEF SamePlan
    <3> QED
      BY <2>1, <3>1, <3>3, FitsByPlan, Zenon
  <2>3. work' \in [Picks -> WorkType] /\ alloc' \in [Picks -> AllocType]
    BY <2>1, <2>2, Zenon DEF WorkInv
  <2> QED
    BY <2>2, <2>3, EachStep
<1>3. ASSUME NEW gone \in SUBSET Cartons, ConfirmDeparture(gone)
      PROVE  WorkInv'
  <2> DEFINE leaving == UNION {Within(c) : c \in gone}
  <2>1. UNCHANGED work /\ alloc' = [p \in Picks |-> IF p \in leaving THEN NoAlloc ELSE alloc[p]]
    BY <1>3, Zenon DEF ConfirmDeparture
  <2>2. \A p \in leaving : alloc[p].stage = "packed"
    BY Zenon DEF Within
  <2> HIDE DEF leaving
  <2>3. NoAlloc \in AllocType
    BY DEF NoAlloc, AllocType
  <2>4. alloc' \in [Picks -> AllocType]
    BY <2>1, <2>3, Zenon DEF WorkInv
  <2> QED
    BY <2>1, <2>2, <2>4, MoveStep, Zenon
<1> QED
  BY <1>1, <1>2, <1>3, Zenon

\* Steps that touch neither tasks nor allocations.
LEMMA OthersKeepWorkInv ==
    ASSUME WorkInv, UNCHANGED <<work, alloc>>
    PROVE  WorkInv'
BY Zenon DEF WorkInv, OneClaimPerPicker, Claims

\* Tasks fit their allocations, and pickers have one task each, in every reachable
\* state of an order (the commands of order_release, order_cancellation, picking,
\* packing and shipping).
THEOREM WorkIsConsistent == Spec => []WorkInv
<1>1. Init => WorkInv
  <2> SUFFICES ASSUME Init PROVE WorkInv
    OBVIOUS
  <2>1. NoWork \in WorkType /\ NoWork.status = "absent"
    BY Zenon DEF NoWork, WorkType
  <2>2. work \in [Picks -> WorkType] /\ \A p \in Picks : work[p].status = "absent"
    BY <2>1, Zenon DEF Init
  <2>3. ASSUME NEW p \in Picks
        PROVE  alloc[p] \in AllocType /\ (alloc[p].stage = "source" => alloc[p].at \in Sources)
    <3>1. CASE p \in Planned
      BY <3>1, RowsAssumption DEF Init, AllocType, Places
    <3>2. CASE p \notin Planned
      BY <3>2 DEF Init, AllocType, NoAlloc
    <3> QED
      BY <3>1, <3>2
  <2>4. alloc \in [Picks -> AllocType]
    BY <2>3, Zenon DEF Init
  <2>5. \A p \in Picks : TaskFits(work[p], alloc[p])
    BY <2>2, <2>3, Zenon DEF TaskFits
  <2>6. OneClaimPerPicker
    BY <2>2 DEF OneClaimPerPicker, Claims
  <2> QED
    BY <2>2, <2>4, <2>5, <2>6, Zenon DEF WorkInv
<1>2. WorkInv /\ [Next]_vars => WorkInv'
  <2> SUFFICES ASSUME WorkInv, [Next]_vars PROVE WorkInv'
    OBVIOUS
  <2>1. CASE ReleaseOrder \/ CancelOrder
    BY <2>1, ReleaseKeepsWorkInv, CancelKeepsWorkInv, Zenon
  <2>2. CASE PickStep
    <3>1. ASSUME NEW p \in Picks, AcceptShortShipment(p) PROVE WorkInv'
      BY <3>1, OthersKeepWorkInv, Zenon DEF AcceptShortShipment
    <3>2. ASSUME NEW p \in Picks, ReallocateShortage(p) PROVE WorkInv'
      BY <3>2, RecoverKeepsWorkInv, Zenon DEF ReallocateShortage
    <3> QED
      BY <2>2, <3>1, <3>2, LeaseKeepsWorkInv, ReverseKeepsWorkInv, ClaimKeepsWorkInv,
         ConfirmKeepsWorkInv, ReportKeepsWorkInv, Zenon DEF PickStep
  <2>3. CASE PackStep
    <3>1. ASSUME NEW c \in Cartons, CreateCarton(c) \/ CloseCarton(c) \/ VoidCarton(c) \/ ReopenCarton(c)
          PROVE  WorkInv'
      BY <3>1, OthersKeepWorkInv DEF CreateCarton, CloseCarton, VoidCarton, ReopenCarton, picking
    <3>2. CASE OpenSession
      BY <3>2, OthersKeepWorkInv DEF OpenSession, picking
    <3> QED
      BY <2>3, <3>1, <3>2, PackingKeepsWorkInv, Zenon DEF PackStep
  <2>4. CASE ShipStep
    <3>1. CASE \/ StartQa \/ CompleteQa \/ CancelQa \/ CreateShipment \/ RecordManifest \/ CancelShipment
               \/ \E c \in Cartons : VerifyCarton(c)
      BY <3>1, OthersKeepWorkInv, Zenon
         DEF StartQa, CompleteQa, CancelQa, CreateShipment, RecordManifest, CancelShipment,
             VerifyCarton, picking
    <3> QED
      BY <2>4, <3>1, PackingKeepsWorkInv, Zenon DEF ShipStep
  <2>5. CASE UNCHANGED vars
    BY <2>5, OthersKeepWorkInv, Zenon DEF vars
  <2> QED
    BY <2>1, <2>2, <2>3, <2>4, <2>5, Zenon DEF Next
<1> QED
  BY <1>1, <1>2, PTL DEF Spec

\* However claims lapse, are released and are taken over, no picker ever has two
\* tasks in hand (release_expired_claims, active_task_for_user).
THEOREM OneTaskInHand == Spec => []OneClaimPerPicker
<1>1. WorkInv => OneClaimPerPicker
  BY Zenon DEF WorkInv
<1> QED
  BY <1>1, WorkIsConsistent, PTL

\* A task is to be executed exactly while the allocation it was made from is live
\* in full, so a confirmation or a shortage report finds what release or recovery
\* reserved (insert_pick_work, persist_recovery_work, reverse_confirmation).
THEOREM TasksHaveStock == Spec => []WorkHasStock
<1>1. WorkInv => WorkHasStock
  BY DEF WorkInv, TaskFits, SourceOf, WorkHasStock
<1> QED
  BY <1>1, WorkIsConsistent, PTL

=============================================================================
