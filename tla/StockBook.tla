------------------------------ MODULE StockBook ------------------------------
(***************************************************************************)
(* What the inventory commands promise a client: they keep one book.  Each *)
(* command is entered at most once, as a whole; an entry that changes the  *)
(* stock leaves the promises alone; and no more is promised of a position  *)
(* than it has.                                                            *)
(***************************************************************************)
EXTENDS Integers

CONSTANTS
  Position, Command,
  Delta     \* what each command adds to the stock of each position

VARIABLES
  stock,    \* quantity by position
  promised, \* quantity allocated or held, by position
  entered   \* commands in the book

bookVars == <<stock, promised, entered>>

Open ==
  /\ stock \in [Position -> Nat]
  /\ promised = [p \in Position |-> 0]
  /\ entered = {}

Enter(c) ==
  /\ c \notin entered
  /\ entered' = entered \union {c}
  /\ stock' = [p \in Position |-> stock[p] + Delta[c][p]]
  /\ promised' \in [Position -> Nat]
  /\ \A p \in Position : promised'[p] <= stock'[p]
  /\ (\E p \in Position : Delta[c][p] # 0) => UNCHANGED promised

Book == Open /\ [][\E c \in Command : Enter(c)]_bookVars
=============================================================================
