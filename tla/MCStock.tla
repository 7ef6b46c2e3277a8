------------------------------- MODULE MCStock -------------------------------
(***************************************************************************)
(* Instances of StockLedger: one item in two lots, three shelves of one    *)
(* facility and one of another.  Commands are named by their idempotency   *)
(* keys.                                                                   *)
(***************************************************************************)
EXTENDS StockLedger, TLC

Loc == {"l1", "l2", "l3", "l4"}

\* Batch b1 at each shelf, damaged at the first; batch b2 at the first two.
A(l) == [loc |-> l, batch |-> "b1", status |-> "available"]
B(l) == [loc |-> l, batch |-> "b2", status |-> "available"]
D(l) == [loc |-> l, batch |-> "b1", status |-> "damaged"]
Places == {A(l) : l \in Loc} \union {B(l) : l \in {"l1", "l2"}} \union {D("l1")}

\* Three shelves, the first with stock in three states, the second lot elsewhere.
Q(l) == [loc |-> l, batch |-> "b1", status |-> "quarantine"]
OpposedPlaces == {A("l1"), A("l2"), A("l3"), B("l1"), B("l3"), D("l1"), Q("l1")}

TwoFacilities == [l \in Loc |-> IF l = "l4" THEN "g" ELSE "f"]
OneItem == [b \in {"b1", "b2"} |-> "i"]
TwoLots == [b \in {"b1", "b2"} |-> b]
Demand2 == [x \in {"x"} |-> 2]
ItemI == [x \in {"x"} |-> "i"]

\* Requests from rows of operation, position, quantity, destinations (which
\* share it equally) and the command referred to.
RequestsOf(table, places) ==
  [c \in DOMAIN table |->
     [op |-> table[c][1], pos |-> table[c][2], qty |-> table[c][3], to |-> table[c][4],
      give |-> [p \in places |-> IF p \in Range(table[c][4])
                                 THEN table[c][3] \div Len(table[c][4]) ELSE 0],
      ref |-> table[c][5], line |-> "x"]]

Requests == RequestsOf(
  [recv1 |-> <<"receive", A("l1"), 1, <<>>, "recv1">>,
   recv2 |-> <<"receive", A("l1"), 2, <<>>, "recv1">>,
   recvA2 |-> <<"receive", A("l2"), 1, <<>>, "recv1">>,
   recvB2 |-> <<"receive", B("l2"), 1, <<>>, "recv1">>,
   move |-> <<"move", A("l1"), 1, <<A("l2")>>, "recv1">>,
   moveB |-> <<"move", B("l2"), 1, <<B("l1")>>, "recv1">>,
   status |-> <<"status_change", A("l1"), 2, <<D("l1")>>, "recv1">>,
   split |-> <<"split_move", A("l1"), 2, <<A("l2"), A("l3")>>, "recv1">>,
   hold1 |-> <<"hold", A("l1"), 1, <<>>, "recv1">>,
   hold2 |-> <<"hold", A("l1"), 2, <<>>, "recv1">>,
   release |-> <<"release", A("l1"), 1, <<>>, "hold2">>,
   delete |-> <<"delete_batch", A("l1"), 1, <<>>, "recv1">>,
   restore |-> <<"restore_batch", A("l1"), 1, <<>>, "recv1">>,
   recall |-> <<"recall", A("l1"), 1, <<>>, "recv1">>,
   unrecall |-> <<"unrecall", A("l1"), 1, <<>>, "recall">>,
   freeOne |-> <<"release", A("l1"), 1, <<>>, "recall">>,
   reserve |-> <<"reserve", A("l1"), 2, <<>>, "recv1">>,
   elsewhere |-> <<"reserve", A("l4"), 1, <<>>, "recv1">>,
   alloc1 |-> <<"allocate", A("l1"), 1, <<>>, "reserve">>,
   alloc2 |-> <<"allocate", A("l1"), 2, <<>>, "reserve">>,
   dealloc |-> <<"deallocate", A("l1"), 1, <<>>, "alloc1">>,
   unreserve |-> <<"unreserve", A("l1"), 1, <<>>, "reserve">>], Places)

\* Commands compete for one position.
Floor == {"recv1", "recv2", "move", "status", "split", "hold2", "release"}

\* Two lots of an item are received at, moved to and deleted around the same two
\* shelves, one of which is recalled.
Lots == {"recv1", "recvB2", "move", "moveB", "delete", "restore", "recall"}

\* An order line of two units is reserved at two facilities and allocated, while
\* the stock is also wanted by a hold.
Demand == {"recv2", "reserve", "elsewhere", "alloc1", "alloc2", "dealloc", "unreserve",
           "hold1"}

\* A recall of a batch that is being received, moved and held.
Recalled == {"recv1", "recvA2", "recall", "unrecall", "move", "freeOne", "hold1"}

Workloads == {Floor, Lots, Demand, Recalled}

\* Sessions are interchangeable.
Sessions == Permutations(Session)

Empty == [p \in Places |-> 0]
NoRows == <<>>

\* A recall and a second receipt at a position that already has stock.
LateReceipt == {{"recv1", "recv2", "recall"}}

\* Commands over existing stock that go against one another.
Opposed == RequestsOf(
  [there |-> <<"move", A("l1"), 1, <<A("l2")>>, "there">>,
   back |-> <<"move", A("l2"), 1, <<A("l1")>>, "there">>,
   damage |-> <<"status_change", A("l1"), 1, <<D("l1")>>, "there">>,
   repair |-> <<"status_change", D("l1"), 1, <<A("l1")>>, "there">>,
   isolate |-> <<"status_change", D("l1"), 1, <<Q("l1")>>, "there">>,
   spread |-> <<"split_move", A("l2"), 2, <<A("l1"), A("l3")>>, "there">>,
   swapA |-> <<"move", A("l1"), 1, <<A("l3")>>, "there">>,
   swapB |-> <<"move", B("l3"), 1, <<B("l1")>>, "there">>], OpposedPlaces)

\* Moves there and back; moves against status changes of the same and of other rows
\* of a shelf, and both against a split move; two lots that change places.
AllOpposed == {{"there", "back"}, {"damage", "repair"}, {"there", "repair"},
               {"back", "isolate"}, {"spread", "isolate"}, {"spread", "there"},
               {"swapA", "swapB"}}
Stocked == [p \in OpposedPlaces |-> CASE p = A("l2") -> 2
                                      [] p \in {A("l1"), D("l1"), B("l3")} -> 1
                                      [] OTHER -> 0]
StockedRows == <<A("l2"), A("l1"), D("l1"), B("l3")>>
=============================================================================
