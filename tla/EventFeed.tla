------------------------------ MODULE EventFeed ------------------------------
(***************************************************************************)
(* What the transactional outbox promises to a receiver that deduplicates  *)
(* by event key: every event it sees was committed, and the events of one  *)
(* ordering key are first seen in commit order, except that an event which *)
(* an operator gave up on no longer holds its successors back.             *)
(***************************************************************************)
EXTENDS Naturals

CONSTANTS Event, Stream, StreamOf

VARIABLES
    place,      \* place of an event in its stream, 0 before its commit
    length,     \* number of events committed in each stream
    delivered,  \* events the receiver has seen
    givenUp     \* events an operator discarded

feedVars == <<place, length, delivered, givenUp>>

Committed == {e \in Event : place[e] > 0}
Before(e) == {p \in Committed : StreamOf[p] = StreamOf[e] /\ place[p] < place[e]}

FeedInit ==
    /\ place = [e \in Event |-> 0] /\ length = [s \in Stream |-> 0]
    /\ delivered = {} /\ givenUp = {}

Commit(e) ==
    /\ e \notin Committed
    /\ place' = [place EXCEPT ![e] = length[StreamOf[e]] + 1]
    /\ length' = [length EXCEPT ![StreamOf[e]] = @ + 1]
    /\ UNCHANGED <<delivered, givenUp>>

See(e) ==
    /\ e \in Committed /\ Before(e) \subseteq delivered \cup givenUp
    /\ delivered' = delivered \cup {e}
    /\ UNCHANGED <<place, length, givenUp>>

GiveUp(e) ==
    /\ e \in Committed
    /\ givenUp' = givenUp \cup {e}
    /\ UNCHANGED <<place, length, delivered>>

FeedNext == \E e \in Event : Commit(e) \/ See(e) \/ GiveUp(e)

FeedSpec == FeedInit /\ [][FeedNext]_feedVars
=============================================================================
