------------------------------ MODULE Outbound ------------------------------
(***************************************************************************)
(* One customer order from its allocation to its departure: release into   *)
(* pick work, claims and leases, picks, shortages and their recovery, pick *)
(* reversal, cancellation, packing, outbound quality checks and shipping.  *)
(* Source: src/crates/api/src/repo/{order_release, order_cancellation,     *)
(* picking, packing, outbound_qa, shipping} and the triggers of the        *)
(* baseline migration those commands run under.                            *)
(*                                                                         *)
(* Every command is one transaction, and those that conflict wait for each *)
(* other: most lock the order row first, a claim locks the task it takes,  *)
(* and verifying or completing a check locks its session.  So a command is *)
(* one step, and one with a stale revision is refused and is no step.      *)
(* What interleaves are the commands of pickers, packers, checkers,        *)
(* supervisors and shippers, and the passing of leases.                    *)
(*                                                                         *)
(* A pick has at most one live allocation at a time: at its source, staged *)
(* in a tote or packed in a carton.  alloc[p] is that row.  A voided       *)
(* carton is never looked at again, so its identity is used again.         *)
(***************************************************************************)
EXTENDS Integers, FiniteSets, FiniteSetsExt

CONSTANTS
    Users,      \* pickers
    Picks,      \* identities of pick tasks, those of the release and spare ones
    Sources,    \* pickable locations
    Totes,      \* license plates a pick is put into
    Cartons,    \* license plates cartons are made of
    Lines,      \* order lines, one item each
    Plan,       \* the allocations the order is released with, by pick
    Stock,      \* units on hand of each line's item in each source at first
    None

Planned == DOMAIN Plan
Places == Sources \cup Totes \cup Cartons

ASSUME RowsAssumption ==
    /\ IsFiniteSet(Picks) /\ IsFiniteSet(Places) /\ IsFiniteSet(Lines)
    /\ None \notin Users \cup Picks \cup Places \cup Lines
    /\ Planned \subseteq Picks
    /\ \A p \in Planned : Plan[p] \in [line : Lines, at : Sources, qty : Nat \ {0}]

\* Every line is allocated, and no location beyond its stock.
ASSUME PlanAssumption ==
    /\ Stock \in [Sources \X Lines -> Nat]
    /\ \A l \in Lines : \E p \in Planned : Plan[p].line = l
    /\ \A s \in Sources, l \in Lines :
         MapThenSumSet(LAMBDA p : IF Plan[p].line = l /\ Plan[p].at = s THEN Plan[p].qty ELSE 0,
                       Planned) <= Stock[<<s, l>>]

VARIABLES
    order,    \* orders.status
    work,     \* pick_tasks with their one content row and its confirmation
    alloc,    \* the live inventory_allocations row of each pick
    bal,      \* inventory_balances
    bound,    \* totes with an unreleased outbound_order_containers row
    short,    \* pick_shortages, by the pick that came up short
    sess,     \* the order's latest packing session
    carton,   \* cartons of that session
    qa,       \* the latest outbound QA session
    ship,     \* the latest shipment
    left      \* units of each line that left with a departure

vars == <<order, work, alloc, bal, bound, short, sess, carton, qa, ship, left>>
picking == <<work, alloc, bal, bound, short>>
packing == <<sess, carton>>
shipping == <<qa, ship, left>>

NoWork == [status |-> "absent", line |-> None, from |-> None, qty |-> 0,
           by |-> None, lease |-> FALSE, parent |-> None, tote |-> None, pick |-> "none"]
NoAlloc == [stage |-> "none", line |-> None, at |-> None, qty |-> 0]
NoShort == [status |-> "none", qty |-> 0, realloc |-> 0, terminal |-> 0, accepted |-> 0]
NoSession == [state |-> "none", expected |-> 0, packed |-> 0, open |-> 0, closed |-> 0, ahead |-> 0]
NothingIn == [c \in Cartons |-> {}]
NoQa == [required |-> FALSE, state |-> "none", expected |-> 0, seen |-> NothingIn]
NoShip == [state |-> "none", rev |-> 0, due |-> NothingIn, gone |-> {}]

-----------------------------------------------------------------------------
(* Sums over rows.                                                         *)

Units(a, S) == MapThenSumSet(LAMBDA p : a[p].qty, S)
UnitsAt(a, x) == Units(a, {p \in Picks : a[p].at = x[1] /\ a[p].line = x[2]})
UnitsIn(a, stage, l) == Units(a, {p \in Picks : a[p].stage = stage /\ a[p].line = l})

\* outbound_effective_demand: what was ordered less what was accepted short.
Ordered(l) == MapThenSumSet(LAMBDA p : IF Plan[p].line = l THEN Plan[p].qty ELSE 0, Planned)
Accepted(s, l) == MapThenSumSet(LAMBDA p : IF work[p].line = l THEN s[p].accepted ELSE 0, Picks)
Effective(s, l) == Ordered(l) - Accepted(s, l)
TotalDemand(s) == MapThenSumSet(LAMBDA l : Effective(s, l), Lines)

\* The rows of a carton; a command that records their number and quantity is
\* modelled as recording the rows.
Within(c) == {p \in Picks : alloc[p].stage = "packed" /\ alloc[p].at = c}
Closed == {c \in Cartons : carton[c] = "closed"}
Remaining(p) == short[p].qty - short[p].realloc

\* OrderPickReadiness::is_ready_to_pack, of the rows as a command leaves them.
ReadyToPack(w, a, s) ==
    /\ \A p \in Picks : w[p].status \notin {"open", "in_progress"}
    /\ \A p \in Picks : s[p].status \in {"none", "resolved"}
    /\ \A l \in Lines : Effective(s, l) = UnitsIn(a, "staged", l)
    /\ \E l \in Lines : Effective(s, l) > 0

AfterPick(w, a, s) == IF ReadyToPack(w, a, s) THEN "awaiting_packing" ELSE "processing"

\* A mutant of Carry: the upsert of the destination replaces what was there.
CarryReplaces(b, from, to, l, n) ==
    [b EXCEPT ![<<from, l>>].hand = @ - n, ![<<from, l>>].reserved = @ - n,
              ![<<to, l>>].hand = n, ![<<to, l>>].reserved = n]

\* A fulfilled allocation, its units moved, and the allocation that replaces it.
Carry(b, from, to, l, n) ==
    [b EXCEPT ![<<from, l>>].hand = @ - n, ![<<from, l>>].reserved = @ - n,
              ![<<to, l>>].hand = @ + n, ![<<to, l>>].reserved = @ + n]

\* A mutant of Freed: allocations are closed and the projection is not told.
FreedNothing(b, a) == b

\* No unit of the order's live allocations is reserved any more.
Freed(b, a) ==
    [x \in Places \X Lines |->
       [b[x] EXCEPT !.reserved = @ - UnitsAt(a, x)]]

-----------------------------------------------------------------------------
Init ==
    /\ order = "open"
    /\ work = [p \in Picks |-> NoWork]
    /\ alloc = [p \in Picks |->
                  IF p \in Planned
                  THEN [stage |-> "source", line |-> Plan[p].line, at |-> Plan[p].at, qty |-> Plan[p].qty]
                  ELSE NoAlloc]
    /\ bal = [x \in Places \X Lines |->
                [hand |-> IF x[1] \in Sources THEN Stock[x] ELSE 0, reserved |-> UnitsAt(alloc, x), held |-> 0]]
    /\ bound = {}
    /\ short = [p \in Picks |-> NoShort]
    /\ sess = NoSession
    /\ carton = [c \in Cartons |-> "none"]
    /\ \E required \in BOOLEAN : qa = [NoQa EXCEPT !.required = required]
    /\ ship = NoShip
    /\ left = [l \in Lines |-> 0]

-----------------------------------------------------------------------------
(* Release and cancellation.                                               *)

OpenTask(a, p, parent) ==
    [NoWork EXCEPT !.status = "open", !.line = a[p].line, !.from = a[p].at,
                   !.qty = a[p].qty, !.parent = parent]

\* release_order: an open order whose live allocations cover every line exactly
\* becomes one pick task per allocation.
ReleaseOrder ==
    /\ order = "open"
    /\ \A l \in Lines : UnitsIn(alloc, "source", l) = Effective(short, l)
    /\ work' = [p \in Picks |-> IF alloc[p].stage = "source" THEN OpenTask(alloc, p, None) ELSE work[p]]
    /\ order' = "processing"
    /\ UNCHANGED <<alloc, bal, bound, short, packing, shipping>>

\* A mutant of WorkIsPending: a task that came up short with nothing picked does
\* not count as begun.
PendingDespiteShortage ==
    /\ \E p \in Picks : work[p].status # "absent"
    /\ \A p \in Picks : work[p].status \in {"absent", "open", "shorted"} /\ work[p].pick = "none"
    /\ sess.state \in {"none", "abandoned"}
    /\ \A t \in bound, l \in Lines : bal[<<t, l>>].hand = 0 /\ bal[<<t, l>>].reserved = 0

\* cancel_pending_pick_work: the evidence that nothing physical has happened, or
\* that all of it was undone.
WorkIsPending ==
    /\ \E p \in Picks : work[p].status # "absent"
    /\ \A p \in Picks : work[p].status \in {"absent", "open"} /\ work[p].pick = "none"
    /\ \A p \in Picks : short[p].status = "none"
    /\ sess.state \in {"none", "abandoned"}
    /\ \A t \in bound, l \in Lines : bal[<<t, l>>].hand = 0 /\ bal[<<t, l>>].reserved = 0

\* cancel_order: commitments are released, pending work is cancelled and the
\* order's totes are free again.
CancelOrder ==
    /\ \/ order = "open" /\ \A p \in Picks : work[p].status = "absent"
       \/ order = "processing" /\ WorkIsPending
    /\ order' = "cancelled"
    /\ bal' = Freed(bal, alloc)
    /\ alloc' = [p \in Picks |-> NoAlloc]
    /\ work' = [p \in Picks |-> IF work[p].status = "open"
                                THEN [work[p] EXCEPT !.status = "cancelled"] ELSE work[p]]
    /\ bound' = {}
    /\ UNCHANGED <<short, packing, shipping>>

-----------------------------------------------------------------------------
(* Claims.  A heartbeat moves the end of a current lease and is no step.   *)

Unclaimed(t) == [t EXCEPT !.status = "open", !.by = None, !.lease = FALSE]

\* release_expired_claims: what every claim does first.
Lapsed == [p \in Picks |-> IF work[p].status = "in_progress" /\ ~work[p].lease
                           THEN Unclaimed(work[p]) ELSE work[p]]

Claims(w, u) == {p \in Picks : w[p].status = "in_progress" /\ w[p].by = u}

\* claim_next and claim_by_id: expired claims are released, and a user with no
\* claim of their own takes an open task under a new lease.
ClaimPick(u, p) ==
    /\ Claims(Lapsed, u) = {}
    /\ Lapsed[p].status = "open"
    /\ work' = [Lapsed EXCEPT ![p].status = "in_progress", ![p].by = u, ![p].lease = TRUE]
    /\ UNCHANGED <<order, alloc, bal, bound, short, packing, shipping>>

\* Time passes the end of a lease; the row itself does not change.
LeaseExpires(p) ==
    /\ work[p].lease
    /\ work' = [work EXCEPT ![p].lease = FALSE]
    /\ UNCHANGED <<order, alloc, bal, bound, short, packing, shipping>>

\* lock_active_claim: the actor holds the task under a lease that is current.
HoldsLease(u, p) == p \in Claims(work, u) /\ work[p].lease

\* release_claim.
ReleaseClaim(u, p) ==
    /\ HoldsLease(u, p)
    /\ work' = [work EXCEPT ![p] = Unclaimed(@)]
    /\ UNCHANGED <<order, alloc, bal, bound, short, packing, shipping>>

-----------------------------------------------------------------------------
(* Picks, shortages and reversals.                                         *)

\* bind: a tote is the order's already, or it holds nothing.
Bindable(t) == t \in bound \/ \A l \in Lines : bal[<<t, l>>].hand = 0

\* lock_pick_target and validate_target_row: the claimed task of an order in
\* execution, its source allocation live and covered by the source balance.
PickTarget(u, p) ==
    LET source == bal[<<work[p].from, work[p].line>>]
    IN /\ order = "processing"
       /\ HoldsLease(u, p)
       /\ alloc[p] = [stage |-> "source", line |-> work[p].line, at |-> work[p].from, qty |-> work[p].qty]
       /\ source.hand >= work[p].qty /\ source.reserved >= work[p].qty

\* A mutant of AdvanceParent: a shortage recovered in full is not resolved.
AdvanceNeverResolves(s, p) ==
    LET m == work[p].parent
        done == s[m].terminal + work[p].qty
    IN IF m = None \/ s[m].status = "resolved" THEN s
       ELSE [s EXCEPT ![m].terminal = done,
                      ![m].status = IF done = s[m].realloc THEN "awaiting_inventory"
                                    ELSE "recovery_in_progress"]

\* advance_parent_shortage_for_terminal_work: work that recovers a shortage and
\* is over, picked or short, counts toward the shortage it recovers.
AdvanceParent(s, p) ==
    LET m == work[p].parent
        done == s[m].terminal + work[p].qty
    IN IF m = None \/ s[m].status = "resolved" THEN s
       ELSE [s EXCEPT ![m].terminal = done,
                      ![m].status = IF done = s[m].realloc
                                    THEN IF s[m].realloc = s[m].qty THEN "resolved" ELSE "awaiting_inventory"
                                    ELSE "recovery_in_progress"]

Finished(t, status) == [t EXCEPT !.status = status, !.by = None, !.lease = FALSE]

\* confirm_content: the planned units go from the source to a tote, the task is
\* complete, and the order awaits packing when that was the last of its work.
ConfirmPick(u, p, t) ==
    /\ PickTarget(u, p)
    /\ Bindable(t)
    /\ work' = [work EXCEPT ![p] = [Finished(@, "completed") EXCEPT !.tote = t, !.pick = "picked"]]
    /\ alloc' = [alloc EXCEPT ![p].stage = "staged", ![p].at = t]
    /\ bal' = Carry(bal, work[p].from, t, work[p].line, work[p].qty)
    /\ bound' = bound \cup {t}
    /\ short' = AdvanceParent(short, p)
    /\ order' = AfterPick(work', alloc', short')
    /\ UNCHANGED <<packing, shipping>>

\* A mutant of Owed: the units picked are forgotten.
OwedInFull(p, n) == work[p].qty

\* What a report of n picked units leaves owed.
Owed(p, n) == work[p].qty - n

\* report_shortage: n units, fewer than planned, are picked as a confirmation
\* would; the rest are held where they were not found, and are owed.
ReportShortage(u, p, n, t) ==
    LET src == <<work[p].from, work[p].line>>
        owed == Owed(p, n)
        picked == IF n = 0 THEN bal ELSE Carry(bal, work[p].from, t, work[p].line, n)
    IN /\ PickTarget(u, p)
       /\ n < work[p].qty
       /\ IF n = 0 THEN t = None ELSE t \in Totes /\ Bindable(t)
       /\ bal' = [picked EXCEPT ![src].reserved = @ - owed, ![src].held = @ + owed]
       /\ alloc' = [alloc EXCEPT ![p] = IF n = 0 THEN NoAlloc
                                        ELSE [@ EXCEPT !.stage = "staged", !.at = t, !.qty = n]]
       /\ work' = [work EXCEPT ![p] = [Finished(@, "shorted") EXCEPT
                                         !.tote = t, !.pick = IF n = 0 THEN "none" ELSE "picked"]]
       /\ bound' = IF n = 0 THEN bound ELSE bound \cup {t}
       /\ short' = [AdvanceParent(short, p) EXCEPT
                      ![p] = [NoShort EXCEPT !.status = "awaiting_inventory", !.qty = owed]]
       /\ UNCHANGED <<order, packing, shipping>>

\* lock_candidates: the free units of every balance but the one found short.
Free(p, s) == IF s = work[p].from THEN 0
              ELSE LET b == bal[<<s, work[p].line>>] IN b.hand - b.reserved - b.held

Total(plan) == MapThenSumSet(LAMBDA s : plan[s], Sources)

\* The splits of a shortage over free stock: as much of it as there is.
RecoveryPlans(p) ==
    {plan \in [Sources -> 0 .. Remaining(p)] :
       /\ \A s \in Sources : plan[s] <= Free(p, s)
       /\ Total(plan) \in 1 .. Remaining(p)
       /\ Total(plan) < Remaining(p) => \A s \in Sources : plan[s] = Free(p, s)}

\* Allocations and open tasks for what a plan finds, one per source, with spare
\* picks for identities.
Recover(p, plan) ==
    LET chosen == {s \in Sources : plan[s] > 0}
        spare == {q \in Picks : work[q].status = "absent"}
    IN /\ Cardinality(chosen) <= Cardinality(spare)
       /\ LET id == CHOOSE f \in [chosen -> spare] : \A s, r \in chosen : f[s] = f[r] => s = r
              of(q) == CHOOSE s \in chosen : id[s] = q
              new == {id[s] : s \in chosen}
          IN /\ alloc' = [q \in Picks |->
                            IF q \in new
                            THEN [stage |-> "source", line |-> work[p].line, at |-> of(q), qty |-> plan[of(q)]]
                            ELSE alloc[q]]
             /\ work' = [q \in Picks |-> IF q \in new THEN OpenTask(alloc', q, p) ELSE work[q]]
       /\ bal' = [x \in Places \X Lines |->
                    IF x[1] \in chosen /\ x[2] = work[p].line
                    THEN [bal[x] EXCEPT !.reserved = @ + plan[x[1]]] ELSE bal[x]]
       /\ short' = [short EXCEPT ![p].realloc = @ + Total(plan),
                                 ![p].status = IF short[p].realloc + Total(plan) = short[p].terminal
                                               THEN "awaiting_inventory" ELSE "recovery_in_progress"]
       /\ UNCHANGED <<order, bound, packing, shipping>>

\* reallocate_shortage, when it finds something: a plan that a policy clears, or
\* that is empty, changes no row the model keeps.
ReallocateShortage(p) ==
    /\ order = "processing"
    /\ short[p].status \notin {"none", "resolved"}
    /\ \E plan \in RecoveryPlans(p) : Recover(p, plan)

\* What accept_short_shipment asks: no recovery under way, no packing ever begun,
\* and some demand left when what is still owed is taken off it.
CanAccept(p) ==
    /\ order = "processing"
    /\ sess.state = "none" /\ ship.state = "none"
    /\ short[p].status = "awaiting_inventory"
    /\ Remaining(p) > 0 /\ short[p].realloc = short[p].terminal
    /\ TotalDemand(short) > Remaining(p)

\* A mutant of AcceptShortShipment: the order's readiness is not looked at again.
AcceptLeavesOrder(p) ==
    /\ CanAccept(p)
    /\ short' = [short EXCEPT ![p].status = "resolved", ![p].accepted = Remaining(p)]
    /\ UNCHANGED <<order, work, alloc, bal, bound, packing, shipping>>

\* accept_short_shipment: what is still owed is taken off the demand.
AcceptShortShipment(p) ==
    /\ CanAccept(p)
    /\ short' = [short EXCEPT ![p].status = "resolved", ![p].accepted = Remaining(p)]
    /\ order' = AfterPick(work, alloc, short')
    /\ UNCHANGED <<work, alloc, bal, bound, packing, shipping>>

\* reverse_pick_before_packing.
ReversibleStatus == order \in {"processing", "awaiting_packing"}

\* reverse_confirmation, with require_pick_shortage_consistency: the trigger
\* refuses to reopen work a shortage already counted as over.
CanReverse(p) ==
    /\ ReversibleStatus
    /\ sess.state \in {"none", "abandoned"}
    /\ work[p].status = "completed" /\ work[p].pick # "none"
    /\ short[p].status = "none" /\ work[p].parent = None
    /\ alloc[p].stage = "staged"

\* A mutant of ReversePick: the source allocation is not reactivated.
ReverseDropsSource(p) ==
    /\ CanReverse(p)
    /\ bal' = Carry(bal, alloc[p].at, work[p].from, work[p].line, alloc[p].qty)
    /\ alloc' = [alloc EXCEPT ![p] = NoAlloc]
    /\ work' = [work EXCEPT ![p].status = "open", ![p].tote = None, ![p].pick = "none"]
    /\ order' = "processing"
    /\ UNCHANGED <<bound, short, packing, shipping>>

\* The units go back to the source, whose allocation and task are open again.
ReversePick(p) ==
    /\ CanReverse(p)
    /\ bal' = Carry(bal, alloc[p].at, work[p].from, work[p].line, alloc[p].qty)
    /\ alloc' = [alloc EXCEPT ![p].stage = "source", ![p].at = work[p].from]
    /\ work' = [work EXCEPT ![p].status = "open", ![p].tote = None, ![p].pick = "none"]
    /\ order' = "processing"
    /\ UNCHANGED <<bound, short, packing, shipping>>

-----------------------------------------------------------------------------
(* Packing.  sess.ahead is the order's revision less the session's: zero   *)
(* is what require_revision asks of every packing command.                 *)

StagedPicks == {p \in Picks : alloc[p].stage = "staged"}

\* open_session: every staged pick, none of them restored by a session that was
\* abandoned, is what the session expects to pack.
OpenSession ==
    /\ order = "awaiting_packing"
    /\ sess.state \in {"none", "abandoned"}
    /\ ReadyToPack(work, alloc, short)
    /\ \A p \in StagedPicks : work[p].pick = "picked"
    /\ sess' = [NoSession EXCEPT !.state = "open", !.expected = Cardinality(StagedPicks)]
    /\ order' = "packing"
    /\ UNCHANGED <<picking, carton, shipping>>

PackingNow == order = "packing" /\ sess.state = "open" /\ sess.ahead = 0

\* create_carton: one carton is open at a time.
CreateCarton(c) ==
    /\ PackingNow
    /\ sess.open = 0
    /\ carton[c] = "none"
    /\ carton' = [carton EXCEPT ![c] = "open"]
    /\ sess' = [sess EXCEPT !.open = @ + 1]
    /\ UNCHANGED <<order, picking, shipping>>

\* pack_picked_allocation: a staged pick goes whole into the open carton.
PackAllocation(p, c) ==
    /\ PackingNow
    /\ carton[c] = "open"
    /\ alloc[p].stage = "staged"
    /\ bal' = Carry(bal, alloc[p].at, c, alloc[p].line, alloc[p].qty)
    /\ alloc' = [alloc EXCEPT ![p].stage = "packed", ![p].at = c]
    /\ sess' = [sess EXCEPT !.packed = @ + 1]
    /\ UNCHANGED <<order, work, bound, short, carton, shipping>>

\* remove_packed_content: back from the open carton to the tote it came from.
RemoveContent(p, c) ==
    /\ PackingNow
    /\ carton[c] = "open"
    /\ p \in Within(c)
    /\ bal' = Carry(bal, c, work[p].tote, alloc[p].line, alloc[p].qty)
    /\ alloc' = [alloc EXCEPT ![p].stage = "staged", ![p].at = work[p].tote]
    /\ sess' = [sess EXCEPT !.packed = @ - 1]
    /\ UNCHANGED <<order, work, bound, short, carton, shipping>>

\* PackingProgress::ready_to_manifest.
ReadyToManifest(s) == s.packed = s.expected /\ s.open = 0 /\ s.closed > 0

\* close_carton: the last carton of a complete session makes it ready.
CloseCarton(c) ==
    LET next == [sess EXCEPT !.open = @ - 1, !.closed = @ + 1]
        done == ReadyToManifest(next)
    IN /\ PackingNow
       /\ carton[c] = "open" /\ Within(c) # {}
       /\ carton' = [carton EXCEPT ![c] = "closed"]
       /\ sess' = [next EXCEPT !.state = IF done THEN "ready_to_manifest" ELSE "open"]
       /\ order' = IF done THEN "awaiting_shipment" ELSE order
       /\ UNCHANGED <<picking, shipping>>

\* void_carton.
VoidCarton(c) ==
    /\ PackingNow
    /\ carton[c] = "open" /\ Within(c) = {}
    /\ carton' = [carton EXCEPT ![c] = "none"]
    /\ sess' = [sess EXCEPT !.open = @ - 1]
    /\ UNCHANGED <<order, picking, shipping>>

\* A mutant of CanReopen: a check that passed does not stand in the way.
CanReopenChecked(c) ==
    /\ <<order, sess.state>> \in {<<"packing", "open">>, <<"awaiting_shipment", "ready_to_manifest">>}
    /\ sess.ahead = 0 /\ sess.open = 0
    /\ carton[c] = "closed" /\ Within(c) # {}
    /\ ship.state \in {"none", "cancelled"}

\* reopen_carton_command: no carton is open, and no check or shipment of the
\* session is other than cancelled.
CanReopen(c) ==
    /\ <<order, sess.state>> \in {<<"packing", "open">>, <<"awaiting_shipment", "ready_to_manifest">>}
    /\ sess.ahead = 0 /\ sess.open = 0
    /\ carton[c] = "closed" /\ Within(c) # {}
    /\ qa.state \in {"none", "cancelled"} /\ ship.state \in {"none", "cancelled"}

ReopenCarton(c) ==
    /\ CanReopen(c)
    /\ carton' = [carton EXCEPT ![c] = "open"]
    /\ sess' = [sess EXCEPT !.state = "open", !.open = 1, !.closed = @ - 1]
    /\ order' = "packing"
    /\ UNCHANGED <<picking, shipping>>

\* abandon_session: nothing packed, every carton voided, no check or shipment
\* ever.  The session's picks are restored: they cannot be packed as they are.
AbandonSession ==
    /\ PackingNow
    /\ sess.packed = 0 /\ sess.open = 0 /\ sess.closed = 0
    /\ \A c \in Cartons : carton[c] = "none"
    /\ qa.state = "none" /\ ship.state = "none"
    /\ sess' = [sess EXCEPT !.state = "abandoned"]
    /\ work' = [p \in Picks |-> IF p \in StagedPicks THEN [work[p] EXCEPT !.pick = "restored"] ELSE work[p]]
    /\ order' = "awaiting_packing"
    /\ UNCHANGED <<alloc, bal, bound, short, carton, shipping>>

-----------------------------------------------------------------------------
(* Outbound quality checks.                                                *)

ReadyToShip == order = "awaiting_shipment" /\ sess.state = "ready_to_manifest"

\* start: the policy asks for a check, and none is open or passed.
StartQa ==
    /\ ReadyToShip /\ sess.ahead = 0
    /\ qa.required /\ qa.state \in {"none", "cancelled"}
    /\ qa' = [qa EXCEPT !.state = "open", !.expected = sess.closed, !.seen = NothingIn]
    /\ UNCHANGED <<order, picking, packing, ship, left>>

Verified == {c \in Cartons : qa.seen[c] # {}}

\* verify_carton: a closed carton, scanned once; what it holds is recorded.
VerifyCarton(c) ==
    /\ qa.state = "open"
    /\ c \in Closed /\ qa.seen[c] = {} /\ Within(c) # {}
    /\ Cardinality(Verified) < qa.expected
    /\ qa' = [qa EXCEPT !.seen[c] = Within(c)]
    /\ UNCHANGED <<order, picking, packing, ship, left>>

\* complete: as many cartons verified as the session had when the check began.
CompleteQa ==
    /\ qa.state = "open"
    /\ Cardinality(Verified) = qa.expected
    /\ qa' = [qa EXCEPT !.state = "passed"]
    /\ UNCHANGED <<order, picking, packing, ship, left>>

\* cancel: refused once the order has had a shipment, of whatever state.
CancelQa ==
    /\ ReadyToShip
    /\ ship.state = "none" /\ qa.state \in {"open", "passed"}
    /\ qa' = [qa EXCEPT !.state = "cancelled"]
    /\ UNCHANGED <<order, picking, packing, ship, left>>

-----------------------------------------------------------------------------
(* Shipping.                                                               *)

\* A mutant of Snapshot: a new attempt takes over the cancelled one's cartons.
OldSnapshot == IF ship.state = "cancelled" THEN ship.due
               ELSE [c \in Cartons |-> IF c \in Closed THEN Within(c) ELSE {}]

\* lock_carton_snapshots.
Snapshot == [c \in Cartons |-> IF c \in Closed THEN Within(c) ELSE {}]

\* create_shipment: the check the policy asks for has passed, every carton has
\* content, and the session packed what the order still demands.  The order's
\* revision moves on and the session's does not.
CreateShipment ==
    /\ ReadyToShip /\ sess.ahead = 0
    /\ ship.state \in {"none", "cancelled"}
    /\ qa.required => qa.state = "passed" /\ Cardinality(Verified) = qa.expected
    /\ Cardinality(Closed) = sess.closed
    /\ \A c \in Closed : Within(c) # {}
    /\ LET packed == UNION {Within(c) : c \in Closed}
       IN Cardinality(packed) = sess.packed /\ Units(alloc, packed) = TotalDemand(short)
    /\ ship' = [state |-> "awaiting_manifest", rev |-> 1, due |-> Snapshot, gone |-> {}]
    /\ sess' = [sess EXCEPT !.ahead = @ + 1]
    /\ UNCHANGED <<order, picking, carton, qa, left>>

\* record_manual_manifest.
RecordManifest ==
    /\ order = "awaiting_shipment" /\ ship.state = "awaiting_manifest"
    /\ ship' = [ship EXCEPT !.state = "manifested", !.rev = @ + 1]
    /\ UNCHANGED <<order, picking, packing, qa, left>>

\* A mutant of CancelShipment: the session's revision stays behind the order's.
CancelLeavesBehind ==
    /\ ReadyToShip /\ sess.ahead = 1
    /\ ship.state \in {"awaiting_manifest", "manifested"}
    /\ ship' = [ship EXCEPT !.state = "cancelled", !.rev = @ + 1]
    /\ UNCHANGED <<order, picking, packing, qa, left>>

\* cancel_shipment: before any departure; the session catches up with the order.
CancelShipment ==
    /\ ReadyToShip /\ sess.ahead = 1
    /\ ship.state \in {"awaiting_manifest", "manifested"}
    /\ ship' = [ship EXCEPT !.state = "cancelled", !.rev = @ + 1]
    /\ sess' = [sess EXCEPT !.ahead = 0]
    /\ UNCHANGED <<order, picking, carton, qa, left>>

DueCartons == {c \in Cartons : ship.due[c] # {}} \ ship.gone

\* A mutant of IsLast: the cartons that left before count as still to come.
IsAll(gone) == gone = {c \in Cartons : ship.due[c] # {}}

\* confirm_shipment_departure: nothing stays behind.
IsLast(gone) == gone = DueCartons

\* confirm_departure: some of the cartons still due leave with all they hold;
\* with the last of them the order is shipped.
ConfirmDeparture(gone) ==
    LET leaving == UNION {Within(c) : c \in gone}
    IN /\ order = "awaiting_shipment"
       /\ ship.state \in {"manifested", "partially_departed"}
       /\ gone # {} /\ gone \subseteq DueCartons
       /\ \A c \in gone : Within(c) = ship.due[c]
       /\ \A x \in gone \X Lines : bal[x].hand = UnitsAt(alloc, x) /\ bal[x].reserved = UnitsAt(alloc, x)
       /\ alloc' = [p \in Picks |-> IF p \in leaving THEN NoAlloc ELSE alloc[p]]
       /\ bal' = [x \in Places \X Lines |->
                    IF x[1] \in gone THEN [bal[x] EXCEPT !.hand = 0, !.reserved = 0] ELSE bal[x]]
       /\ left' = [l \in Lines |-> left[l] + Units(alloc, {p \in leaving : alloc[p].line = l})]
       /\ ship' = [ship EXCEPT !.state = IF IsLast(gone) THEN "departed" ELSE "partially_departed",
                               !.rev = @ + 1, !.gone = @ \cup gone]
       /\ sess' = [sess EXCEPT !.ahead = @ + 1]
       /\ order' = IF IsLast(gone) THEN "shipped" ELSE order
       /\ UNCHANGED <<work, bound, short, carton, qa>>

-----------------------------------------------------------------------------
PickStep ==
    \E p \in Picks :
      \/ LeaseExpires(p)
      \/ ReversePick(p)
      \/ AcceptShortShipment(p)
      \/ ReallocateShortage(p)
      \/ \E u \in Users :
           \/ ClaimPick(u, p)
           \/ ReleaseClaim(u, p)
           \/ \E t \in Totes : ConfirmPick(u, p, t)
           \/ \E n \in 0 .. (work[p].qty - 1), t \in Totes \cup {None} : ReportShortage(u, p, n, t)

PackStep ==
    \/ OpenSession
    \/ AbandonSession
    \/ \E c \in Cartons :
         \/ CreateCarton(c)
         \/ CloseCarton(c)
         \/ VoidCarton(c)
         \/ ReopenCarton(c)
         \/ \E p \in Picks : PackAllocation(p, c) \/ RemoveContent(p, c)

ShipStep ==
    \/ StartQa
    \/ CompleteQa
    \/ CancelQa
    \/ \E c \in Cartons : VerifyCarton(c)
    \/ CreateShipment
    \/ RecordManifest
    \/ CancelShipment
    \/ \E gone \in SUBSET Cartons : ConfirmDeparture(gone)

Next == ReleaseOrder \/ CancelOrder \/ PickStep \/ PackStep \/ ShipStep

Spec == Init /\ [][Next]_vars

-----------------------------------------------------------------------------
(* Properties.                                                             *)

Statuses == {"open", "processing", "awaiting_packing", "packing", "awaiting_shipment",
             "shipped", "cancelled"}
WorkType == [status : {"absent", "open", "in_progress", "completed", "shorted", "cancelled"},
             line : Lines \cup {None}, from : Sources \cup {None}, qty : Nat,
             by : Users \cup {None}, lease : BOOLEAN, parent : Picks \cup {None},
             tote : Totes \cup {None}, pick : {"none", "picked", "restored"}]
AllocType == [stage : {"none", "source", "staged", "packed"}, line : Lines \cup {None},
              at : Places \cup {None}, qty : Nat]
\* No sequence of picks, partial picks, reversals, packing, removals and partial
\* departures makes or loses a unit: what is on hand anywhere and what departed
\* is what there was.
StockConserved ==
    \A l \in Lines :
      MapThenSumSet(LAMBDA s : bal[<<s, l>>].hand, Places) + left[l]
        = MapThenSumSet(LAMBDA s : Stock[<<s, l>>], Sources)

\* Every balance reserves exactly its live allocations, and never more than it
\* has beside its holds: the projections of the baseline triggers hold through
\* every hand-over of an allocation from source to tote to carton and back.
ReservedIsLive ==
    \A x \in Places \X Lines :
      /\ bal[x].reserved = UnitsAt(alloc, x)
      /\ bal[x].reserved + bal[x].held <= bal[x].hand

\* Until it is cancelled, every ordered unit of a line is accounted for once:
\* allocated somewhere, departed, or owed by a shortage that did not reallocate
\* it, whether still awaited or accepted short.
DemandAccounted ==
    order # "cancelled" =>
      \A l \in Lines :
        Ordered(l) = Units(alloc, {p \in Picks : alloc[p].line = l}) + left[l]
                       + MapThenSumSet(LAMBDA p : IF work[p].line = l THEN Remaining(p) ELSE 0, Picks)

\* A pick task is to be executed exactly while its source allocation is live, for
\* its whole planned quantity, so no confirmation or shortage report of a claimed
\* task can be refused for want of what release or recovery reserved for it.
WorkHasStock ==
    \A p \in Picks :
      work[p].status # "absent" =>
        (work[p].status \in {"open", "in_progress"}
           <=> alloc[p] = [stage |-> "source", line |-> work[p].line,
                           at |-> work[p].from, qty |-> work[p].qty])

\* However claims lapse and are taken over, a picker has one task in hand at most.
OneClaimPerPicker ==
    \A u \in Users : \A p, q \in Claims(work, u) : p = q

Over(p) == work[p].status \in {"completed", "shorted"}

\* require_pick_shortage_consistency: what a shortage says was reallocated and is
\* over is what its recovery work says, through recoveries that come up short
\* themselves, and its status follows from the counts.
RecoveryCounts ==
    \A m \in Picks :
      LET recovery == {p \in Picks : work[p].parent = m}
          s == short[m]
      IN /\ s.realloc = MapThenSumSet(LAMBDA p : work[p].qty, recovery)
         /\ s.terminal = MapThenSumSet(LAMBDA p : work[p].qty, {p \in recovery : Over(p)})
         /\ s.terminal <= s.realloc /\ s.realloc <= s.qty
         /\ s.status = "awaiting_inventory" => s.terminal = s.realloc /\ s.realloc < s.qty
         /\ s.status = "recovery_in_progress" => s.terminal < s.realloc
         /\ s.status = "resolved" => s.terminal = s.realloc /\ s.qty = s.realloc + s.accepted

\* validate_packing_session_consistency: the session's counters are its rows, and
\* its state, the shipment's and both revisions fit the order's status.
SessionReconciles ==
    /\ sess.state \in {"open", "ready_to_manifest"} /\ ship.gone = {} =>
         /\ sess.packed = Cardinality({p \in Picks : alloc[p].stage = "packed"})
         /\ sess.expected = Cardinality({p \in Picks : alloc[p].stage \in {"staged", "packed"}})
         /\ sess.open = Cardinality({c \in Cartons : carton[c] = "open"})
         /\ sess.closed = Cardinality(Closed)
    /\ sess.state = "open" <=> order = "packing"
    /\ sess.state = "ready_to_manifest" <=> order \in {"awaiting_shipment", "shipped"}
    /\ sess.state = "abandoned" => \A p \in Picks : alloc[p].stage # "packed"
    /\ ship.state \in {"none", "cancelled"} => sess.ahead = 0 /\ order # "shipped"
    /\ ship.state = "awaiting_manifest" => sess.ahead = 1 /\ order = "awaiting_shipment"
    /\ ship.state \in {"manifested", "partially_departed"} =>
         sess.ahead = ship.rev - 1 /\ order = "awaiting_shipment"
    /\ ship.state = "departed" <=> order = "shipped"

\* Of an order that passed its check every carton was seen, and what was seen is
\* still in it until it leaves: no reopening, removal or cancelled shipment lets
\* a carton ship with content the check did not cover.
QaStands ==
    qa.state = "passed" =>
      /\ Verified = Closed
      /\ \A c \in Closed \ ship.gone : qa.seen[c] = Within(c)

\* A shipment departs with the cartons and the content it was created with.
ShipmentHolds ==
    ship.state \in {"awaiting_manifest", "manifested", "partially_departed"} =>
      /\ {c \in Cartons : ship.due[c] # {}} = Closed
      /\ \A c \in DueCartons : Within(c) = ship.due[c]
      /\ DueCartons # {}

\* A cancelled order leaves the warehouse as it found it: every unit where it was
\* before release, nothing reserved and no tote taken.
CancelLeavesNoTrace ==
    order = "cancelled" =>
      /\ bound = {}
      /\ \A x \in Places \X Lines :
           bal[x] = [hand |-> IF x[1] \in Sources THEN Stock[x] ELSE 0, reserved |-> 0, held |-> 0]

Phase == CASE order = "open" -> "taken"
           [] order \in {"shipped", "cancelled"} -> order
           [] ship.state = "partially_departed" -> "leaving"
           [] OTHER -> "worked"

Promise == INSTANCE OrderPromise WITH
    Demand <- [l \in Lines |-> Ordered(l)],
    phase <- Phase,
    owed <- [l \in Lines |-> Effective(short, l)],
    gone <- left

\* The order keeps its promise: demand shrinks only by accepted shortages before
\* packing, no more than it leaves, and it is shipped exactly when all of it left.
KeepsPromise == Promise!PromiseSpec

-----------------------------------------------------------------------------
(* Ways on *)

NeverShort == \A p \in Picks : short[p].status = "none"

Unresolved(p) == short[p].status \notin {"none", "resolved"}

\* A task to execute, stock free for a shortage, or a shortage that can be
\* accepted.  (Cancelling the order takes a task that is still open.)
PickingGoesOn ==
    \/ \E p \in Picks : work[p].status \in {"open", "in_progress"}
    \/ \E p \in Picks : Unresolved(p) /\ RecoveryPlans(p) # {}
    \/ \E p \in Picks : CanAccept(p)

\* One shortage owes all the demand there is: accepting it would leave none.
AllIsOwed == \E p \in Picks : Unresolved(p) /\ Remaining(p) = TotalDemand(short)

\* A pick reversed after its session was abandoned came up short: packing had
\* begun, so the shortage can no longer be accepted.
ShortAfterPacking == sess.state = "abandoned" /\ \E p \in Picks : Unresolved(p)

\* Every staged pick can be packed in a fresh session, or reversed.
StagedGoesOn ==
    \/ \A p \in StagedPicks : work[p].pick = "picked"
    \/ \A p \in StagedPicks : CanReverse(p)

\* Something is still to be packed, or a carton is open whose closing completes
\* the session.
PackingGoesOn ==
    \/ sess.packed # sess.expected
    \/ \E c \in Cartons : carton[c] = "open" /\ Within(c) # {}

\* No sequence of commands leaves an order where nothing moves it: not the
\* confirmation, recovery or accepted short shipment that comes last in picking;
\* not an abandoned session, whose restored picks a new one refuses; not voiding,
\* removing and reopening around a complete session; not a cancelled shipment,
\* after any number of attempts.  Four cases in which the code falls short of that
\* are left out: a shortage that owes the whole demand, which may be neither
\* accepted nor, with the order, cancelled; a shortage after packing was abandoned,
\* likewise; other picks of a shortage once their session is abandoned, which
\* nothing moves; and an order whose check has passed, whose cartons stay closed
\* after a cancelled shipment.
OrderGoesOn ==
    /\ order = "processing" => PickingGoesOn \/ AllIsOwed \/ ShortAfterPacking
    /\ order = "awaiting_packing" /\ NeverShort => StagedGoesOn
    /\ order = "packing" => PackingGoesOn
    /\ ReadyToShip /\ ship.state = "cancelled" /\ ~qa.required =>
         \E c \in Cartons : CanReopen(c)

=============================================================================
