------------------------------ MODULE MCPoller ------------------------------
(***************************************************************************)
(* Values of the poller's constants for TLC.  Day 31 is the first of a     *)
(* month, and a new half month begins with it.                             *)
(***************************************************************************)
EXTENDS Poller, TLC

At(day, hour) == (day * 24 + hour) * 60

FirstDay == {31}

(* Two ends on one day, a third on the next day, less than 24 hours later. *)
Evening == At(30, 22)
Midnight == At(31, 2)
NextDay == At(31, 23)

AroundFirst == {Evening, Midnight, NextDay}
AcrossFirst == {Evening, NextDay}
OneTime == {NextDay}

MCHalfOf == [t \in Times |-> IF t < At(31, 0) THEN 2 ELSE 3]

OneCluster == [w \in Workloads |-> CHOOSE k \in Clusters : TRUE]

Symmetry == Permutations(Pollers)
=============================================================================
