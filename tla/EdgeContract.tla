---------------------------- MODULE EdgeContract ----------------------------
(***************************************************************************)
(* What the edge agent promises about a device command, without leases,    *)
(* attempts, probes or runners.  A command is open (automation may work on *)
(* it), in review (an operator must look at it) or closed.  A submission   *)
(* and every operator retry each grant one physical effect; the controller *)
(* never acts without an unused grant, a success is only claimed after the *)
(* effect, and only an operator takes a command out of review.             *)
(***************************************************************************)
EXTENDS Naturals

CONSTANT Command

VARIABLES status, effect, grants

contractVars == <<status, effect, grants>>

Closed == {"succeeded", "failed", "resolved_manually", "cancelled"}
Status == {"absent", "open", "review"} \cup Closed

ContractInit ==
    /\ status = [c \in Command |-> "absent"]
    /\ effect = [c \in Command |-> 0]
    /\ grants = [c \in Command |-> 1]

Arrive(c) ==
    /\ status[c] = "absent"
    /\ \E s \in {"open", "review"} : status' = [status EXCEPT ![c] = s]
    /\ UNCHANGED <<effect, grants>>

\* A stale execution may still reach the controller after its command was taken
\* away from it, so the effect is not tied to the command being open.
Act(c) ==
    /\ status[c] # "absent"
    /\ effect[c] < grants[c]
    /\ effect' = [effect EXCEPT ![c] = @ + 1]
    /\ UNCHANGED <<status, grants>>

Close(c) ==
    /\ \/ status[c] = "open" /\ effect[c] > 0 /\ status' = [status EXCEPT ![c] = "succeeded"]
       \/ status[c] = "open" /\ status' = [status EXCEPT ![c] = "failed"]
       \/ status[c] \in {"open", "review"} /\ status' = [status EXCEPT ![c] = "cancelled"]
       \/ status[c] = "review" /\ status' = [status EXCEPT ![c] = "resolved_manually"]
    /\ UNCHANGED <<effect, grants>>

\* Restricting a device puts all its open commands in review in one step.
Escalate(S) ==
    /\ \A c \in S : status[c] = "open"
    /\ status' = [c \in Command |-> IF c \in S THEN "review" ELSE status[c]]
    /\ UNCHANGED <<effect, grants>>

Grant(c) ==
    /\ status[c] = "review"
    /\ status' = [status EXCEPT ![c] = "open"]
    /\ grants' = [grants EXCEPT ![c] = @ + 1]
    /\ UNCHANGED effect

ContractNext ==
    \/ \E c \in Command : Arrive(c) \/ Act(c) \/ Close(c) \/ Grant(c)
    \/ \E S \in SUBSET Command : Escalate(S)

ContractSpec == ContractInit /\ [][ContractNext]_contractVars
=============================================================================
