----------------------------- MODULE StockLedger -----------------------------
(***************************************************************************)
(* The loose-stock ledger: inventory balances, the journal, reservations,  *)
(* allocations, holds and batch recalls, changed by concurrent database    *)
(* transactions (crates/api/src/repo/inventory*.rs and the triggers of     *)
(* migrations/postgres/0001_baseline.sql).                                 *)
(*                                                                         *)
(* A session runs one command as one READ COMMITTED transaction.  The      *)
(* command is a program of statements: row locks (FOR UPDATE, FOR SHARE),  *)
(* advisory locks, the replay lookup of the idempotency record, the checks *)
(* the Rust code makes on what it has read, and the locks its writes take  *)
(* through triggers.  Its writes become visible together at the commit.    *)
(*                                                                         *)
(* A reservation, an allocation, a hold and a recall are named by the      *)
(* command that creates them; "open" is the set of those that are active.  *)
(* Triggers that only repeat a check of the command are not guards here:   *)
(* what they assert is stated as invariants, and so shown never to fire.   *)
(***************************************************************************)
EXTENDS Integers, Sequences, FiniteSets, Functions

CONSTANTS
  Session,      \* concurrent database transactions
  Location, Batch, Status, Facility, Item, Lot,
  Position,     \* the places where stock of a batch may be, by status
  FacilityOf,   \* facility of each location
  ItemOf,       \* item of each batch
  LotOf,        \* lot and expiration of each batch
  Line,         \* order lines
  DemandOf,     \* ordered quantity of each line
  LineItem,     \* item of each line
  Cmd,          \* the commands clients submit: a function from their
                \* idempotency keys to requests
  Workload,     \* sets of commands that clients may be sending
  NoCmd,
  Opening,      \* stock of earlier receipts
  OpeningRows   \* its balance rows, in id order

Movers == {"move", "split_move", "status_change"}

Op == Movers \union
      {"receive", "hold", "release", "reserve", "allocate", "deallocate",
       "unreserve", "recall", "unrecall", "delete_batch", "restore_batch"}

\* pos: the position read or written first; to, give: where a mover puts its
\* quantity; ref: the command that created what this one refers to.
Request == [op : Op, pos : Position, qty : Nat \ {0}, to : Seq(Position),
            give : [Position -> Nat], ref : DOMAIN Cmd, line : Line]

Command == DOMAIN Cmd
RecallCase == {c \in Command : Cmd[c].op = "recall"}

ASSUME StockConstants ==
  /\ NoCmd \notin Command
  /\ Position \subseteq [loc : Location, batch : Batch, status : Status]
  /\ FacilityOf \in [Location -> Facility]
  /\ ItemOf \in [Batch -> Item]
  /\ LotOf \in [Batch -> Lot]
  /\ DemandOf \in [Line -> Nat]
  /\ LineItem \in [Line -> Item]
  /\ "available" \in Status
  /\ Cmd \in [Command -> Request]
  /\ Workload \subseteq SUBSET Command
  /\ Opening \in [Position -> Nat]
  /\ OpeningRows \in Seq(Position)
  /\ \A p \in Position : Opening[p] > 0 => p \in Range(OpeningRows)
  /\ \A p, q \in Position :
       /\ Opening[p] > 0 /\ Opening[q] > 0
       /\ p.loc = q.loc /\ ItemOf[p.batch] = ItemOf[q.batch]
       => LotOf[p.batch] = LotOf[q.batch]

\* Movers keep the batch; a move and a status change have one destination.
ASSUME MoversAssumption ==
  \A c \in Command : Cmd[c].op \in Movers =>
    /\ \A d \in Range(Cmd[c].to) : d.batch = Cmd[c].pos.batch
    /\ Cmd[c].op \in {"move", "status_change"} => Len(Cmd[c].to) = 1

VARIABLES
  onHand, reserved, held,  \* inventory_balances, by position
  rows,       \* positions that have a balance row, in id order
  posted,     \* sum of the journal entries of each position
  open,       \* active reservations, allocations, holds and recall cases
  cover,      \* quantity a recall case recorded for each position
  deleted,    \* soft-deleted batches
  done,       \* commands with a stored idempotency result
  sent,       \* commands clients send, once or again
  sess,       \* what each session is running
  locks       \* locks each session holds

balance == <<onHand, reserved, held, rows>>
ledger == <<balance, posted, open, cover, deleted, done, sent>>
vars == <<ledger, sess, locks>>

Fac(p) == FacilityOf[p.loc]

Available(p) == onHand[p] - reserved[p] - held[p]

-----------------------------------------------------------------------------
(***************************************************************************)
(* Locks.  A lock is a kind and an object; only a batch row is ever taken  *)
(* in share mode.                                                          *)
(***************************************************************************)
Shelf(p) == <<"shelf", <<p.loc, ItemOf[p.batch]>>>>   \* inventory-location-item
Fence(p) == <<"fence", <<Fac(p), p.batch>>>>          \* recall natural key
Row(p) == <<"row", p>>
BatchRow(b) == <<"batch", b>>
Key(c) == <<"key", c>>                                \* command-idempotency
Entity(c) == <<"entity", c>>          \* reservation, allocation, recall case
HoldRow(c, p) == <<"hold", <<c, p>>>>

Lock(l) == <<"lock", l>>
Share(l) == <<"share", l>>

OtherHolds(s, l, modes) ==
  \E t \in Session \ {s}, m \in modes : <<m, l>> \in locks[t]

Blocked(s, step) ==
  \/ step[1] = "lock" /\ OtherHolds(s, step[2], {"lock", "share"})
  \/ step[1] = "share" /\ OtherHolds(s, step[2], {"lock"})

-----------------------------------------------------------------------------
(***************************************************************************)
(* The programs: the statements of each command up to its commit.          *)
(***************************************************************************)
Dest(c) == Range(Cmd[c].to)
ReplayStep(c) == <<"replay", c>>
CheckStep(c) == <<"check", c>>

\* Mutant: the replay lookup is not serialised.
ReceiveStepsNoKey(c) ==
  LET p == Cmd[c].pos
  IN  << ReplayStep(c), Share(BatchRow(p.batch)), CheckStep(c), <<"live", p.batch>>, Lock(Shelf(p)),
         <<"accepts", p>>, Lock(Fence(p)), Lock(Row(p)) >>

\* Mutant: the batch is read without FOR SHARE.
ReceiveStepsNoShare(c) ==
  LET p == Cmd[c].pos
  IN  << Lock(Key(c)), ReplayStep(c), CheckStep(c), <<"live", p.batch>>, Lock(Shelf(p)),
         <<"accepts", p>>, Lock(Fence(p)), Lock(Row(p)) >>

\* Mutant: the advisory lock of the location and item is not taken.
ReceiveStepsNoShelf(c) ==
  LET p == Cmd[c].pos
  IN  << Lock(Key(c)), ReplayStep(c), Share(BatchRow(p.batch)), CheckStep(c), <<"live", p.batch>>,
         <<"accepts", p>>, Lock(Fence(p)), Lock(Row(p)) >>

\* Mutant: a balance is written without the recall key.
ReceiveStepsNoFence(c) ==
  LET p == Cmd[c].pos
  IN  << Lock(Key(c)), ReplayStep(c), Share(BatchRow(p.batch)), CheckStep(c), <<"live", p.batch>>,
         Lock(Shelf(p)), <<"accepts", p>>, Lock(Row(p)) >>

\* receive_inventory: the upsert of the balance row fires the recall fence
\* before it waits for the row it conflicts with.
ReceiveSteps(c) ==
  LET p == Cmd[c].pos
  IN  << Lock(Key(c)), ReplayStep(c), Share(BatchRow(p.batch)), CheckStep(c),
         <<"live", p.batch>>, Lock(Shelf(p)), <<"accepts", p>>, Lock(Fence(p)),
         Lock(Row(p)) >>

\* Mutant: the source row is locked before the destination, whatever their ids.
MoveStepsSourceFirst(c) ==
  LET p == Cmd[c].pos
      d == Cmd[c].to[1]
  IN  << Lock(Key(c)), ReplayStep(c), Lock(Row(p)), Lock(Row(d)), CheckStep(c),
         <<"live", d.batch>>, Lock(Shelf(d)), <<"accepts", d>>, Lock(Fence(p)) >>

\* move_inventory
MoveSteps(c) ==
  LET p == Cmd[c].pos
      d == Cmd[c].to[1]
  IN  << Lock(Key(c)), ReplayStep(c), <<"rows", {p, d}>>, CheckStep(c),
         <<"live", d.batch>>, Lock(Shelf(d)), <<"accepts", d>>, Lock(Fence(p)),
         Lock(Row(d)) >>

\* One destination of a split move after the other.
PutSteps(q) ==
  [i \in 1..(4 * Len(q)) |->
     LET d == q[(i + 3) \div 4]
     IN  CASE i % 4 = 1 -> <<"live", d.batch>>
           [] i % 4 = 2 -> Lock(Shelf(d))
           [] i % 4 = 3 -> <<"accepts", d>>
           [] OTHER -> Lock(Row(d))]

\* split_move_inventory: the source row is written first, then the destinations
\* in location order.
SplitMoveSteps(c) ==
  LET p == Cmd[c].pos
  IN  << Lock(Key(c)), ReplayStep(c), <<"rows", {p} \union Dest(c)>>, CheckStep(c),
         Lock(Fence(p)) >> \o PutSteps(Cmd[c].to)

\* change_inventory_status: the target status of the same place.
StatusChangeSteps(c) ==
  LET p == Cmd[c].pos
      d == Cmd[c].to[1]
  IN  << <<"rows", {p, d}>>, Lock(Key(c)), ReplayStep(c), CheckStep(c),
         Lock(Fence(p)), Lock(Shelf(d)), Lock(Row(d)) >>

\* Mutant: the balance is read without a lock.
HoldStepsUnlocked(c) == << Lock(Key(c)), ReplayStep(c), CheckStep(c), Lock(Fence(Cmd[c].pos)) >>

\* place_inventory_hold
HoldSteps(c) ==
  LET p == Cmd[c].pos
  IN  << Lock(Row(p)), Lock(Key(c)), ReplayStep(c), CheckStep(c), Lock(Fence(p)) >>

\* release_inventory_hold
ReleaseSteps(c) ==
  LET p == Cmd[c].pos
  IN  << Lock(Row(p)), Lock(HoldRow(Cmd[c].ref, p)), Lock(Key(c)), ReplayStep(c),
         CheckStep(c), Lock(Fence(p)) >>

\* Mutant: the order line is read without a lock.
ReserveStepsUnlocked(c) ==
  << Lock(Key(c)), ReplayStep(c), CheckStep(c),
     Lock(<<"index", <<Cmd[c].line, Fac(Cmd[c].pos)>>>>) >>

\* create_inventory_reservation: an insert waits for a concurrent one of the
\* same line and facility, which the index makes unique.
ReserveSteps(c) ==
  << Lock(<<"line", Cmd[c].line>>), Lock(Key(c)), ReplayStep(c), CheckStep(c),
     Lock(<<"index", <<Cmd[c].line, Fac(Cmd[c].pos)>>>>) >>

\* allocate_inventory
AllocateSteps(c) ==
  LET p == Cmd[c].pos
  IN  << Lock(Entity(Cmd[c].ref)), Lock(Row(p)), Lock(Key(c)), ReplayStep(c),
         CheckStep(c), Lock(Fence(p)) >>

\* cancel_inventory_allocation: the reservation, the allocation, its balance.
DeallocateSteps(c) ==
  LET a == Cmd[c].ref
      p == Cmd[a].pos
  IN  << Lock(Entity(Cmd[a].ref)), Lock(Entity(a)), Lock(Row(p)), Lock(Key(c)),
         ReplayStep(c), CheckStep(c), Lock(Fence(p)) >>

\* cancel_inventory_reservation.  Whoever locks an allocation has locked its
\* reservation, so the allocation rows add no waiting here.
UnreserveSteps(c) ==
  << Lock(Entity(Cmd[c].ref)), Lock(Key(c)), ReplayStep(c), CheckStep(c),
     <<"allocated", Cmd[c].ref>> >>

\* create_inventory_recall: the positions with stock, then the case, whose
\* insertion takes the fence.
RecallSteps(c) ==
  LET p == Cmd[c].pos
  IN  << Share(BatchRow(p.batch)), <<"live", p.batch>>, Lock(Key(c)), ReplayStep(c),
         <<"stock", p>>, CheckStep(c), Lock(Fence(p)) >>

\* release_inventory_recall: the case, then hold after hold; releasing a hold
\* locks its balance and takes the fence, as does closing the case.
UnrecallSteps(c) ==
  << Lock(Entity(Cmd[c].ref)), Lock(Key(c)), ReplayStep(c), CheckStep(c),
     <<"evidence", Cmd[c].ref>>, Lock(Fence(Cmd[c].pos)) >>

\* set_item_batch_deleted
BatchSteps(c) == << Lock(BatchRow(Cmd[c].pos.batch)), CheckStep(c) >>

Program(c) ==
  CASE Cmd[c].op = "receive" -> ReceiveSteps(c)
    [] Cmd[c].op = "move" -> MoveSteps(c)
    [] Cmd[c].op = "split_move" -> SplitMoveSteps(c)
    [] Cmd[c].op = "status_change" -> StatusChangeSteps(c)
    [] Cmd[c].op = "hold" -> HoldSteps(c)
    [] Cmd[c].op = "release" -> ReleaseSteps(c)
    [] Cmd[c].op = "reserve" -> ReserveSteps(c)
    [] Cmd[c].op = "allocate" -> AllocateSteps(c)
    [] Cmd[c].op = "deallocate" -> DeallocateSteps(c)
    [] Cmd[c].op = "unreserve" -> UnreserveSteps(c)
    [] Cmd[c].op = "recall" -> RecallSteps(c)
    [] Cmd[c].op = "unrecall" -> UnrecallSteps(c)
    [] OTHER -> BatchSteps(c)

OpenOf(op) == {c \in open : Cmd[c].op = op}
AllocationsOf(r) == {a \in OpenOf("allocate") : Cmd[a].ref = r}

\* The elements of q that are in S, in their order.
Among(q, S) ==
  LET found == {i \in DOMAIN q : q[i] \in S}
      Nth(k) == CHOOSE i \in found : Cardinality({j \in found : j <= i}) = k
  IN  [k \in 1..Cardinality(found) |-> q[Nth(k)]]

InRowOrder(S) == Among(rows, S)
LockEach(q) == [i \in DOMAIN q |-> Lock(Row(q[i]))]

\* Hold after hold: its row, its balance and the fence.
FreeSteps(r, q) ==
  [i \in 1..(3 * Len(q)) |->
     LET p == q[(i + 2) \div 3]
     IN  CASE i % 3 = 1 -> Lock(HoldRow(r, p))
           [] i % 3 = 2 -> Lock(Row(p))
           [] OTHER -> Lock(Fence(p))]

BatchStock(p) ==
  {q \in Position : q.batch = p.batch /\ Fac(q) = Fac(p) /\ onHand[q] > 0}

\* What a statement over several rows does next, by the rows it finds.
Unfold(step) ==
  LET arg == step[2]
  IN  CASE step[1] = "rows" -> LockEach(InRowOrder(arg))
        [] step[1] = "stock" -> LockEach(InRowOrder(BatchStock(arg)))
        [] step[1] = "allocated" ->
             LET q == InRowOrder({Cmd[a].pos : a \in AllocationsOf(arg)})
             IN  LockEach(q) \o [i \in DOMAIN q |-> Lock(Fence(q[i]))]
        [] step[1] = "evidence" ->
             FreeSteps(arg, InRowOrder({p \in Position : cover[arg][p] > 0}))

Unfolds == {"rows", "stock", "allocated", "evidence"}

-----------------------------------------------------------------------------
(***************************************************************************)
(* The checks of the commands.                                             *)
(***************************************************************************)
Qty == [c \in Command |-> Cmd[c].qty]
QtyOf(S) == SumFunctionOnSet(Qty, S)
LineReservations(x) == {r \in OpenOf("reserve") : Cmd[r].line = x}

\* Stock a recall has found and locked.
Seen(s, p) == {q \in BatchStock(p) : Lock(Row(q)) \in locks[s]}

\* The checks each command makes on what it has locked and read.
Admissible(s, c) ==
  LET p == Cmd[c].pos
      q == Cmd[c].qty
      r == Cmd[c].ref
  IN  CASE Cmd[c].op = "receive" -> p.batch \notin deleted
        [] Cmd[c].op \in Movers ->
             /\ Lock(Row(p)) \in locks[s]      \* the source was found
             /\ p \notin Dest(c)
             /\ Available(p) >= q
             /\ \A d \in Dest(c) : Fac(d) = Fac(p)
        [] Cmd[c].op = "hold" -> q <= Available(p)
        [] Cmd[c].op = "release" -> Cmd[r].op = "hold" /\ r \in open
        [] Cmd[c].op = "reserve" ->
             QtyOf(LineReservations(Cmd[c].line)) + q <= DemandOf[Cmd[c].line]
        [] Cmd[c].op = "allocate" ->
             /\ r \in open
             /\ p.status = "available"
             /\ Fac(p) = Fac(Cmd[r].pos)
             /\ ItemOf[p.batch] = LineItem[Cmd[r].line]
             /\ QtyOf(AllocationsOf(r)) + q <= Cmd[r].qty
             /\ Available(p) >= q
        [] Cmd[c].op \in {"deallocate", "unreserve", "unrecall"} -> r \in open
        [] Cmd[c].op = "recall" ->
             /\ Seen(s, p) # {}
             /\ \A x \in Seen(s, p) : reserved[x] = 0 /\ held[x] = 0
        [] Cmd[c].op = "delete_batch" ->
             \A x \in Position : x.batch = p.batch =>
                onHand[x] = 0 /\ reserved[x] = 0 /\ held[x] = 0
        [] OTHER -> TRUE

\* What must exist for the command to find its balance, hold, reservation,
\* allocation or recall; otherwise it answers 404 and changes nothing.
Known(c) ==
  LET p == Cmd[c].pos
      r == Cmd[c].ref
  IN  /\ Cmd[c].op \in {"split_move", "status_change", "hold", "release", "allocate"}
           => p \in Range(rows)
      /\ Cmd[c].op = "release" =>
           /\ r \in done
           /\ (Cmd[r].op = "hold" /\ Cmd[r].pos = p) \/ (r \in RecallCase /\ cover[r][p] > 0)
      /\ Cmd[c].op = "allocate" => r \in done /\ Cmd[r].op = "reserve"
      /\ Cmd[c].op = "deallocate" => r \in done /\ Cmd[r].op = "allocate"
      /\ Cmd[c].op = "unreserve" => r \in done /\ Cmd[r].op = "reserve"
      /\ Cmd[c].op = "unrecall" => r \in done /\ Cmd[r].op = "recall"

\* Balances at the same place and item with another lot or expiration.
Clashes(p) ==
  {x \in Position : /\ x.loc = p.loc
                    /\ ItemOf[x.batch] = ItemOf[p.batch]
                    /\ LotOf[x.batch] # LotOf[p.batch]
                    /\ onHand[x] > 0}

-----------------------------------------------------------------------------
(***************************************************************************)
(* The writes of the commands.                                             *)
(***************************************************************************)
Moves(c) == Cmd[c].op \in Movers
Own(c, p) == p = Cmd[c].pos

\* The upserts and the source update.
OnHandAfter(c) ==
  [p \in Position |->
     CASE Cmd[c].op = "receive" /\ Own(c, p) -> onHand[p] + Cmd[c].qty
       [] Moves(c) /\ Own(c, p) -> onHand[p] - Cmd[c].qty
       [] Moves(c) /\ p \in Dest(c) -> onHand[p] + Cmd[c].give[p]
       [] OTHER -> onHand[p]]

\* Mutant: the destination gets no entry.
EntryOmitsDestination(c, p) ==
  CASE Cmd[c].op = "receive" /\ Own(c, p) -> Cmd[c].qty
    [] Moves(c) /\ Own(c, p) -> -Cmd[c].qty
    [] OTHER -> 0

\* append_entry, once per position the command touched.
Entry(c, p) ==
  CASE Cmd[c].op = "receive" /\ Own(c, p) -> Cmd[c].qty
    [] Moves(c) /\ Own(c, p) -> -Cmd[c].qty
    [] Moves(c) /\ p \in Dest(c) -> Cmd[c].give[p]
    [] OTHER -> 0

RowsAfter(c) ==
  LET written == CASE Cmd[c].op = "receive" -> <<Cmd[c].pos>>
                   [] Moves(c) -> Cmd[c].to
                   [] OTHER -> <<>>
  IN  rows \o Among(written, Position \ Range(rows))

\* apply_inventory_allocation_projection
Freed(c, p) ==
  CASE Cmd[c].op = "deallocate" ->
         IF p = Cmd[Cmd[c].ref].pos THEN Cmd[Cmd[c].ref].qty ELSE 0
    [] Cmd[c].op = "unreserve" ->
         QtyOf({a \in AllocationsOf(Cmd[c].ref) : Cmd[a].pos = p})
    [] OTHER -> 0

ReservedAfter(c) ==
  [p \in Position |->
     IF Cmd[c].op = "allocate" /\ Own(c, p) THEN reserved[p] + Cmd[c].qty
     ELSE reserved[p] - Freed(c, p)]

\* apply_inventory_hold_projection
HeldAfter(s, c) ==
  [p \in Position |->
     CASE Cmd[c].op = "hold" /\ Own(c, p) -> held[p] + Cmd[c].qty
       [] Cmd[c].op = "release" /\ Own(c, p) -> held[p] - Cmd[Cmd[c].ref].qty
       [] Cmd[c].op = "recall" /\ p \in Seen(s, Cmd[c].pos) -> held[p] + onHand[p]
       [] Cmd[c].op = "unrecall" -> held[p] - cover[Cmd[c].ref][p]
       [] OTHER -> held[p]]

CoverAfter(s, c) ==
  IF Cmd[c].op = "recall"
  THEN [cover EXCEPT ![c] = [p \in Position |->
                               IF p \in Seen(s, Cmd[c].pos) THEN onHand[p] ELSE 0]]
  ELSE cover

OpenAfter(c) ==
  CASE Cmd[c].op \in {"hold", "reserve", "allocate", "recall"} -> open \union {c}
    [] Cmd[c].op \in {"release", "deallocate", "unrecall"} -> open \ {Cmd[c].ref}
    [] Cmd[c].op = "unreserve" ->
         open \ ({Cmd[c].ref} \union AllocationsOf(Cmd[c].ref))
    [] OTHER -> open

\* The conditions in the WHERE clauses of the writes, and the index that
\* allows one active reservation for an order line at a facility.
Fits(s, c) ==
  LET p == Cmd[c].pos
  IN  /\ Moves(c) => Available(p) >= Cmd[c].qty
      /\ Cmd[c].op = "allocate" => ReservedAfter(c)[p] <= onHand[p]
      /\ Cmd[c].op = "hold" => reserved[p] + HeldAfter(s, c)[p] <= onHand[p]
      /\ Cmd[c].op = "recall" =>
           \A x \in Seen(s, p) : reserved[x] + HeldAfter(s, c)[x] <= onHand[x]
      /\ \A x \in Position : ReservedAfter(c)[x] >= 0 /\ HeldAfter(s, c)[x] >= 0

OneReservation(c) ==
  Cmd[c].op = "reserve" =>
    \A r \in LineReservations(Cmd[c].line) : Fac(Cmd[r].pos) # Fac(Cmd[c].pos)

\* prevent_mixed_item_lot_expiration_per_location, the only lot check of a
\* status change.
Unmixed(c) ==
  Cmd[c].op = "status_change" => \A d \in Dest(c) : Clashes(d) = {}

\* require_inventory_recall_consistency, run at the commit: an active case
\* covers exactly the stock its batch has at the facility.
Covers(on, res, hld, opn, cov) ==
  \A r \in opn : Cmd[r].op = "recall" =>
    \A p \in Position :
      p.batch = Cmd[r].pos.batch /\ Fac(p) = Fac(Cmd[r].pos) =>
        cov[r][p] = on[p] /\ hld[p] = on[p] /\ res[p] = 0

Commits(s, c) ==
  /\ Fits(s, c)
  /\ OneReservation(c)
  /\ Unmixed(c)
  /\ Covers(OnHandAfter(c), ReservedAfter(c), HeldAfter(s, c), OpenAfter(c),
            CoverAfter(s, c))

Apply(s, c) ==
  /\ onHand' = OnHandAfter(c)
  /\ reserved' = ReservedAfter(c)
  /\ held' = HeldAfter(s, c)
  /\ rows' = RowsAfter(c)
  /\ posted' = [p \in Position |-> posted[p] + Entry(c, p)]
  /\ open' = OpenAfter(c)
  /\ cover' = CoverAfter(s, c)
  /\ deleted' = CASE Cmd[c].op = "delete_batch" -> deleted \union {Cmd[c].pos.batch}
                  [] Cmd[c].op = "restore_batch" -> deleted \ {Cmd[c].pos.batch}
                  [] OTHER -> deleted
  /\ done' = IF Cmd[c].op \in {"delete_batch", "restore_batch"} THEN done
             ELSE done \union {c}
  /\ UNCHANGED sent

-----------------------------------------------------------------------------
(***************************************************************************)
(* The sessions.  prog is the program of the command and pc its next       *)
(* statement; sub holds what remains of a statement over several rows.     *)
(***************************************************************************)
Idle == [cmd |-> NoCmd, prog |-> <<>>, pc |-> 1, sub |-> <<>>, stage |-> "begun"]
Running(s) == sess[s].cmd # NoCmd
Ahead(s) == sess[s].sub # <<>> \/ sess[s].pc <= Len(sess[s].prog)
Now(s) == IF sess[s].sub # <<>> THEN Head(sess[s].sub)
          ELSE sess[s].prog[sess[s].pc]
At(s, verbs) == Running(s) /\ Ahead(s) /\ Now(s)[1] \in verbs

Init ==
  /\ onHand = Opening
  /\ reserved = [p \in Position |-> 0]
  /\ held = [p \in Position |-> 0]
  /\ rows = OpeningRows
  /\ posted = Opening
  /\ open = {}
  /\ cover = [c \in RecallCase |-> [p \in Position |-> 0]]
  /\ deleted = {}
  /\ done = {}
  /\ sent \in Workload
  /\ sess = [s \in Session |-> Idle]
  /\ locks = [s \in Session |-> {}]

\* Mutant: advisory locks outlive the transaction.
EndKeepsAdvisory(s) ==
  /\ sess' = [sess EXCEPT ![s] = Idle]
  /\ locks' = [locks EXCEPT ![s] = {l \in @ : l[2][1] \in {"key", "shelf"}}]

\* The transaction ends and gives up its locks.
End(s) ==
  /\ sess' = [sess EXCEPT ![s] = Idle]
  /\ locks' = [locks EXCEPT ![s] = {}]

\* The session as it is after its current statement.
Past(s) == IF sess[s].sub # <<>> THEN [sess[s] EXCEPT !.sub = Tail(@)]
           ELSE [sess[s] EXCEPT !.pc = @ + 1]
Proceed(s) == sess' = [sess EXCEPT ![s] = Past(s)]

\* A client submits a command, or submits it again.
Begin(s, c) ==
  /\ ~Running(s)
  /\ c \in sent /\ Known(c)
  /\ sess' = [sess EXCEPT ![s] = [Idle EXCEPT !.cmd = c, !.prog = Program(c)]]
  /\ UNCHANGED <<ledger, locks>>

Acquire(s) ==
  /\ At(s, {"lock", "share"})
  /\ ~Blocked(s, Now(s))
  /\ locks' = [locks EXCEPT ![s] = @ \union {Now(s)}]
  /\ Proceed(s)
  /\ UNCHANGED ledger

Select(s) ==
  /\ At(s, Unfolds)
  /\ sess' = [sess EXCEPT ![s] = [Past(s) EXCEPT !.sub = Unfold(Now(s)) \o @]]
  /\ UNCHANGED <<ledger, locks>>

\* load_stored_result: a stored result answers the command.
Replay(s) ==
  /\ At(s, {"replay"})
  /\ \/ sess[s].cmd \in done /\ End(s)
     \/ sess[s].cmd \notin done /\ Proceed(s) /\ UNCHANGED locks
  /\ UNCHANGED ledger

Live(s) ==
  /\ At(s, {"live"})
  /\ \/ Now(s)[2] \in deleted /\ End(s)
     \/ Now(s)[2] \notin deleted /\ Proceed(s) /\ UNCHANGED locks
  /\ UNCHANGED ledger

Check(s) ==
  /\ At(s, {"check"})
  /\ \/ ~Admissible(s, sess[s].cmd) /\ End(s)
     \/ /\ Admissible(s, sess[s].cmd)
        /\ sess' = [sess EXCEPT ![s] = [Past(s) EXCEPT !.stage = "checked"]]
        /\ UNCHANGED locks
  /\ UNCHANGED ledger

\* ensure_location_accepts_batch_tx: a clashing balance is locked before it
\* counts, so its last writer has finished.
Accepts(s) ==
  /\ At(s, {"accepts"})
  /\ LET p == Now(s)[2]
         found == {x \in Clashes(p) : Lock(Row(x)) \in locks[s]}
     IN  \/ found # {} /\ End(s)
         \/ /\ found = {}
            /\ \E x \in Clashes(p) :
                 sess' = [sess EXCEPT ![s].sub = <<Lock(Row(x))>> \o @]
            /\ UNCHANGED locks
         \/ Clashes(p) = {} /\ Proceed(s) /\ UNCHANGED locks
  /\ UNCHANGED ledger

\* The writes and the deferred constraints: a write that matches no row, or a
\* constraint that fails, aborts the transaction.
Seal(s) ==
  /\ Running(s) /\ ~Ahead(s) /\ sess[s].stage = "checked"
  /\ \/ ~Commits(s, sess[s].cmd) /\ End(s)
     \/ /\ Commits(s, sess[s].cmd)
        /\ sess' = [sess EXCEPT ![s].stage = "sealed"]
        /\ UNCHANGED locks
  /\ UNCHANGED ledger

\* The commit makes the writes visible to the other sessions.
Commit(s) ==
  /\ Running(s) /\ sess[s].stage = "sealed"
  /\ Apply(s, sess[s].cmd)
  /\ End(s)

\* PostgreSQL's deadlock detector.
WaitsFor(s, t) ==
  /\ t # s
  /\ \/ /\ At(s, {"lock"})
        /\ \E m \in {"lock", "share"} : <<m, Now(s)[2]>> \in locks[t]
     \/ At(s, {"share"}) /\ <<"lock", Now(s)[2]>> \in locks[t]

Entangled(S) ==
  \A s \in S : (\E t \in S : WaitsFor(s, t)) /\ (\E t \in S : WaitsFor(t, s))

BreakDeadlock(s) ==
  /\ Running(s)
  /\ \E S \in SUBSET Session : s \in S /\ Entangled(S)
  /\ End(s)
  /\ UNCHANGED ledger

\* The connection is lost before the commit.
Crash(s) ==
  /\ Running(s)
  /\ End(s)
  /\ UNCHANGED ledger

Step(s) ==
  \/ Acquire(s) \/ Select(s) \/ Replay(s) \/ Live(s) \/ Check(s) \/ Accepts(s)
  \/ Seal(s) \/ Commit(s)

Next ==
  \E s \in Session :
    \/ \E c \in Command : Begin(s, c)
    \/ Step(s)
    \/ BreakDeadlock(s)
    \/ Crash(s)

Spec == Init /\ [][Next]_vars

\* PostgreSQL grants a contended lock in the order it was asked for, and its
\* deadlock detector always runs.
FairSpec ==
  Spec /\ \A s \in Session : SF_vars(Step(s)) /\ WF_vars(BreakDeadlock(s))

-----------------------------------------------------------------------------
(***************************************************************************)
(* Properties                                                              *)
(***************************************************************************)
\* The figures on a balance are the sums of the rows they summarise: journal
\* entries (the inventory_reconciliation view), active allocations, and active
\* holds with those of recall cases.
ProjectionsAgree ==
  \A p \in Position :
    /\ onHand[p] = posted[p]
    /\ reserved[p] = QtyOf({a \in OpenOf("allocate") : Cmd[a].pos = p})
    /\ held[p] = QtyOf({h \in OpenOf("hold") : Cmd[h].pos = p})
                   + SumFunctionOnSet([r \in RecallCase |-> cover[r][p]], OpenOf("recall"))

\* A location never holds one item in two lots or expirations, even when two
\* commands bring different lots to it at once (ensure_location_accepts_batch_tx).
OneLotPerLocation ==
  \A p \in Position : onHand[p] > 0 => Clashes(p) = {}

\* While a recall is active every unit of the batch at the facility is held by
\* it and none is reserved, even stock that arrived while it was being created.
RecallIsTotal == Covers(onHand, reserved, held, open, cover)

\* A deleted batch has no stock, even when a receipt races the deletion.
DeletedBatchIsEmpty ==
  \A p \in Position : p.batch \in deleted => onHand[p] = 0

\* Active reservations stay within the demand of their order line, and active
\* allocations within their reservation, which is itself active.
DemandRespected ==
  /\ \A x \in Line : QtyOf(LineReservations(x)) <= DemandOf[x]
  /\ \A a \in OpenOf("allocate") :
       Cmd[a].ref \in open /\ QtyOf(AllocationsOf(Cmd[a].ref)) <= Cmd[Cmd[a].ref].qty

\* What a command checked under its locks is still so when it writes: the
\* branches for "rows_affected() == 0" after a successful check are never taken,
\* and what the deferred constraints saw is still so when the commit is visible.
ChecksStillHold ==
  \A s \in Session :
    /\ sess[s].stage = "checked" => Fits(s, sess[s].cmd)
    /\ sess[s].stage = "sealed" => Commits(s, sess[s].cmd)

Deltas == [c \in Command |-> [p \in Position |-> Entry(c, p)]]

BookOf ==
  INSTANCE StockBook WITH
    Delta <- Deltas,
    stock <- onHand,
    promised <- [p \in Position |-> reserved[p] + held[p]],
    entered <- done

\* The sessions keep one book: whatever interleaves, repeats or crashes, each
\* command takes effect once and as a whole, or not at all.
KeepsBook == BookOf!Book

\* No transactions ever wait for one another in a circle.
NoDeadlock == \A S \in SUBSET Session : S # {} => ~Entangled(S)

\* ensure_location_accepts_batch_tx has found stock of another lot and locks it.
AtClash(s) == sess[s].sub # <<>> /\ sess[s].prog[sess[s].pc][1] = "accepts"

\* The rows a command works on never make transactions wait in a circle, however
\* moves, split moves and status changes oppose one another: they are locked in the
\* order of their ids (lock_loose_balance_positions_tx, lock_status_balances).  Where
\* transactions do wait in a circle, one of them waits for the recall key, which
\* triggers take at different points of a command, or for another lot's stock,
\* which is locked out of that order.
CirclesHaveCause ==
  \A S \in SUBSET Session : S # {} /\ Entangled(S) =>
    \E s \in S : Now(s)[2][1] = "fence" \/ AtClash(s)

\* Every transaction ends: it commits, is refused, or is aborted.
Settles == \A s \in Session : Running(s) ~> ~Running(s)

=============================================================================
