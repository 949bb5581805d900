---------------------------- MODULE MCPartitions ----------------------------
(***************************************************************************)
(* October to April of a common year.                                      *)
(***************************************************************************)
EXTENDS Partitions

Lengths == <<31, 30, 31, 31, 28, 31, 30>>

Sum[n \in 0 .. 7] == IF n = 0 THEN 0 ELSE Sum[n - 1] + Lengths[n]

CommonYear == [m \in 0 .. 7 |-> Sum[m]]
=============================================================================
