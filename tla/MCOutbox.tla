------------------------------ MODULE MCOutbox -------------------------------
(* Small instances of Outbox. *)
EXTENDS Outbox, TLC

CONSTANTS a1, a2, b1, sa, sb, w1, w2, none

\* One ordering key of one tenant, with one or two events.
OneEvent == {a1}
TwoEvents == {a1, a2}
OneEventOf == [e \in OneEvent |-> sa]
OneStreamOf == [e \in TwoEvents |-> sa]
SameTenant == [s \in {sa} |-> 1]

\* Two events of one ordering key, and one of another tenant.
ThreeEvents == TwoEvents \cup {b1}
ThreeStreamOf == (a1 :> sa) @@ (a2 :> sa) @@ (b1 :> sb)
TwoTenants == (sa :> 1) @@ (sb :> 2)

\* The events of a key are numbered as they are committed: a1 before a2.  Their
\* names mean nothing else, and no fairness is assumed of a producer.
Numbered == row'[a2].state # "absent" => row[a1].state # "absent"

\* Workers are interchangeable, and so are events of one ordering key.
Workers == Permutations({w1, w2})
WorkersAndEvents == Permutations({w1, w2}) \cup Permutations({a1, a2})
=============================================================================
