---------------------------- MODULE MCOutbound ----------------------------
(* An instance of Outbound: an order of two lines picked by two pickers.   *)
EXTENDS Outbound, TLC

CONSTANTS p1, p2, s1, s2, s3, l1, l2

\* Two units of one item and one of another, both allocated in one location.
TwoLines == [p \in {p1, p2} |-> IF p = p1 THEN [line |-> l1, at |-> s1, qty |-> 2]
                                ELSE [line |-> l2, at |-> s1, qty |-> 1]]

\* A unit of the first item in each of two other locations: a shortage of both
\* units is recovered by two tasks, each of which can come up short again.
ThreeSources == [x \in Sources \X Lines |->
                   CASE x = <<s1, l1>> -> 2
                     [] x \in {<<s1, l2>>, <<s2, l1>>, <<s3, l1>>} -> 1
                     [] OTHER -> 0]

\* Pickers are interchangeable, and so are totes and cartons.
Symm == Permutations(Users) \cup Permutations(Totes) \cup Permutations(Cartons)
===========================================================================
