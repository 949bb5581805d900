------------------------------ MODULE MCIngest ------------------------------
(***************************************************************************)
(* Reports and settings for TLC.                                           *)
(***************************************************************************)
EXTENDS Ingest, TLC

CONSTANTS e, f, a, b

G(exp, ends) == [exp |-> exp, ends |-> ends, dropped |-> {}]
R(alias, list) == [alias |-> alias, files |-> list]

(* One group with one interval.                                            *)
Small(alias) == R(alias, <<{G(e, <<1>>)}>>)

(* Three intervals, which take two chunks of two and are out of order,     *)
(* then a file in which no result is made for the last end.                *)
Partial == [G(f, <<1>>) EXCEPT !.dropped = {2}]
Long == R(a, <<{G(e, <<2, 1, 3>>)}, {Partial}>>)

(* A file with two groups.                                                 *)
Wide == R(a, <<{G(e, <<2>>), Partial}>>)

(* A quiet setting, in which only processors crash.                        *)
Quiet == [uploads |-> {Small(a), Poison}, msgs |-> 1, offset |-> 0,
          crashes |-> TRUE, outlast |-> FALSE, restarts |-> FALSE,
          destroys |-> FALSE]

(* A log of two, of a group that has committed before and of a new one; a  *)
(* report that two handlers process while the housekeeper deletes the      *)
(* cluster; a cluster that changes its alias and is deleted.               *)
Queue == [Quiet EXCEPT !.msgs = 2, !.outlast = TRUE]
NewGroup == [Queue EXCEPT !.offset = NoOffset]
Race == [Quiet EXCEPT !.outlast = TRUE, !.destroys = TRUE]
Renamed == [Quiet EXCEPT !.uploads = {Small(a), Small(b)}, !.msgs = 2,
                         !.crashes = FALSE, !.destroys = TRUE]
Disturbed == {Queue, NewGroup, Race, Renamed}

(* A report of several files, chunks or groups, with Kruize restarting.    *)
Restarting ==
    {[Quiet EXCEPT !.uploads = {report, Poison}, !.offset = o,
                   !.restarts = TRUE] : report \in {Long, Wide},
                                        o \in {NoOffset, 0}}

MCExps == {e, f}

Symmetry == Permutations(Processors)
=============================================================================
