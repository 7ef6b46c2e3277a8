---------------------------- MODULE MCEdgeCloud ----------------------------
(* Instances of EdgeCloud for TLC: one device, one or two commands on it. *)
EXTENDS EdgeCloud, TLC

CONSTANT d1

MCDeviceOf == [c \in Command |-> d1]

Symm == Permutations(Agent)

\* What is followed where two agents compete.  The states a step beyond it leads to
\* are checked, not followed.

\* A row is entered and changed once more, and what the cloud does not take of it is
\* never taken.
FewEdits == \A a \in Agent, c \in Command : edge[a][c].edits <= 2 /\ edge[a][c].flaw # "unfit"

\* While there are commands the cloud keeps the device automatic and hears from it.
DeviceInUse ==
    \A c \in Command : cloud[c].status # "absent" =>
        device[d1].mode = "automatic" /\ device[d1].fresh

\* The agent has taken no part yet.
Untouched(a) == /\ pc[a] = "idle"
                /\ mode[a][d1] = "restricted"
                /\ \A c \in Command : edge[a][c] = NoRow

\* Two agents compete for one command, or one agent works on two.
FewCompete ==
    (\E c \in Command : c > 1 /\ cloud[c].status # "absent") =>
        /\ cloud[1].revision <= 4
        /\ \E a \in Agent : \A b \in Agent \ {a} : Untouched(b)

Followed == FewEdits /\ DeviceInUse /\ FewCompete
=============================================================================
