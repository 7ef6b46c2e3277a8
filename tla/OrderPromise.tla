---------------------------- MODULE OrderPromise ----------------------------
(***************************************************************************)
(* What an order promises its owner, with no word of how it is worked: the *)
(* demand only ever shrinks, and only before anything left; what leaves is *)
(* never more than the demand; the order is shipped exactly when all of it *)
(* has left; and an order can be cancelled only while nothing has.         *)
(***************************************************************************)
EXTENDS Integers

CONSTANTS Lines, Demand   \* Demand[l] units of each line were ordered

VARIABLES phase, owed, gone

promiseVars == <<phase, owed, gone>>

PromiseInit ==
    /\ phase = "taken"
    /\ owed = Demand
    /\ gone = [l \in Lines |-> 0]

Begin ==
    /\ phase = "taken"
    /\ phase' = "worked"
    /\ UNCHANGED <<owed, gone>>

\* Part of one line is given up, and something is still owed.
Relax ==
    /\ phase = "worked"
    /\ \E l \in Lines : \E n \in 1 .. owed[l] : owed' = [owed EXCEPT ![l] = @ - n]
    /\ \E l \in Lines : owed'[l] > 0
    /\ UNCHANGED <<phase, gone>>

GiveUp ==
    /\ phase \in {"taken", "worked"}
    /\ phase' = "cancelled"
    /\ UNCHANGED <<owed, gone>>

\* Units leave, none beyond the demand, and the last of them ends the order.
Deliver ==
    /\ phase \in {"worked", "leaving"}
    /\ gone' \in [Lines -> Nat]
    /\ \A l \in Lines : gone'[l] \in gone[l] .. owed[l]
    /\ gone' # gone
    /\ phase' = IF gone' = owed THEN "shipped" ELSE "leaving"
    /\ UNCHANGED owed

PromiseNext == Begin \/ Relax \/ GiveUp \/ Deliver

PromiseSpec == PromiseInit /\ [][PromiseNext]_promiseVars
=============================================================================
