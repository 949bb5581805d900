----------------------------- MODULE Partitions -----------------------------
(***************************************************************************)
(* The half-month partitions of workload_metrics and of the container      *)
(* history: the insert trigger of table workloads creates them, the daily  *)
(* partition job drops them.                                               *)
(*                                                                         *)
(* Days are numbered; Start gives the first day of each month.  The half   *)
(* months are numbered too: 2m is the 1st to the 15th of month m, 2m + 1   *)
(* the rest of it.  One row of a partitioned table is followed from its    *)
(* insertion on; rows do not depend on each other.                         *)
(***************************************************************************)
EXTENDS Integers

CONSTANTS
    LastMonth,  \* the months are 0 .. LastMonth
    Start,      \* first day of each month, and of the one after the last
    Retention,  \* DATA_RETENTION_PERIOD, in days
    FirstNow,   \* the days the clock runs through
    LastNow,
    Lags,       \* how old the end of a report may be when it arrives
    Spans,      \* how many days before its end a report may begin
    None        \* no report, no row

Months == 0 .. LastMonth
Days == Start[0] .. Start[LastMonth + 1] - 1

(* Months follow each other without gaps and have 28 to 31 days.           *)
ASSUME CalendarAssumption ==
    /\ LastMonth \in Nat
    /\ Start \in [0 .. LastMonth + 1 -> Int]
    /\ \A m \in Months : Start[m + 1] - Start[m] \in 28 .. 31
    /\ \A m, k \in Months : m < k => Start[m + 1] <= Start[k]
    /\ \A n \in Days : \E m \in Months : Start[m] <= n /\ n < Start[m + 1]

(* The clock starts late enough that the dates it looks back on exist.     *)
ASSUME BoundsAssumption ==
    /\ Retention \in Nat /\ Lags \subseteq Nat /\ Spans \subseteq Nat
    /\ FirstNow \in Int /\ LastNow \in Int /\ FirstNow <= LastNow
    /\ LastMonth > 0 /\ FirstNow >= Start[1]
    /\ FirstNow - Retention >= Start[0]
    /\ \A lag \in Lags, span \in Spans : FirstNow - lag - span >= Start[0]
    /\ LastNow < Start[LastMonth + 1]

ASSUME NoneAssumption == None \notin Int /\ None \notin [lo : Int, t : Int]

MonthOf == [n \in Days |->
               CHOOSE m \in Months : Start[m] <= n /\ n < Start[m + 1]]
DayOf == [n \in Days |-> n - Start[MonthOf[n]] + 1]
Half == [n \in Days |-> 2 * MonthOf[n] + (IF DayOf[n] > 15 THEN 1 ELSE 0)]

(* create_monthly_partitions: the half month of the upload time and the    *)
(* one before it.                                                          *)
Created_one(t) == {Half[t]}

Created(t) == {Half[t], Half[t] - 1}

(* DeletePartitions: the first half month that is kept.  Past the 14th the *)
(* code counts from the month of the current day, not of the threshold.    *)
PartitionTableDate_late(n) == Half[n]

PartitionTableDate_never(n) == 2 * MonthOf[n - Retention] - 1

PartitionTableDate(n) ==
    IF DayOf[n - Retention] < 15
    THEN 2 * MonthOf[n - Retention]
    ELSE 2 * (MonthOf[n] - 1) + 1

-----------------------------------------------------------------------------
VARIABLES
    now,      \* the current day
    parts,    \* the half months that have a partition
    pending,  \* a report whose workload is upserted: it covers lo .. t
    row       \* the day of the row that is followed, once it is inserted

vars == <<now, parts, pending, row>>

Init ==
    /\ now = FirstNow
    /\ parts = {}
    /\ pending = None
    /\ row = None

(* CreateWorkload for a report that covers lo .. t fires the trigger.      *)
CreateWorkload(lo, t) ==
    /\ pending = None
    /\ parts' = parts \cup Created(t)
    /\ pending' = [lo |-> lo, t |-> t]
    /\ UNCHANGED <<now, row>>

(* BatchInsertWorkloadMetrics: all rows of the report or, if one of them   *)
(* has no partition, none.                                                 *)
BatchInsert ==
    /\ pending # None
    /\ \/ /\ Half[pending.lo] \in parts
          /\ Half[pending.t] \in parts
          /\ row = None
          /\ row' \in {pending.lo, pending.t}
       \/ UNCHANGED row
    /\ pending' = None
    /\ UNCHANGED <<now, parts>>

(* The partition job, at any time of any day.                              *)
DeletePartitions_detach ==
    /\ parts' = {h \in parts : h >= PartitionTableDate(now)}
    /\ UNCHANGED <<now, pending, row>>

DeletePartitions ==
    /\ parts' = {h \in parts : h >= PartitionTableDate(now)}
    /\ row' = IF row # None /\ Half[row] < PartitionTableDate(now)
              THEN None ELSE row
    /\ UNCHANGED <<now, pending>>

Tick ==
    /\ now < LastNow
    /\ now' = now + 1
    /\ UNCHANGED <<parts, pending, row>>

Next ==
    \/ \E lag \in Lags, span \in Spans :
          CreateWorkload(now - lag - span, now - lag)
    \/ BatchInsert
    \/ DeletePartitions
    \/ Tick

Spec == Init /\ [][Next]_vars

-----------------------------------------------------------------------------
(* The followed row is in a partition that exists; days are in range.      *)
TypeOK ==
    /\ now \in FirstNow .. LastNow
    /\ parts \subseteq Int
    /\ pending \in [lo : Days, t : Days] \cup {None}
    /\ pending # None => pending.lo <= pending.t /\ pending.t <= now
    /\ row \in Days \cup {None}
    /\ row # None => row <= now /\ Half[row] \in parts

(* Between the upsert of the workload and the insert of the metrics, the   *)
(* partitions the insert needs stay there, whatever the job does, while    *)
(* the report is younger than the retention period and no longer than the  *)
(* shortest half month.                                                    *)
ReportsFit ==
    (pending # None /\ now - pending.lo < Retention
                    /\ pending.t - pending.lo <= 13) =>
       Half[pending.lo] \in parts /\ Half[pending.t] \in parts

(* The job drops no row that is younger than the retention period.         *)
YoungKept == [][row # None /\ row' = None => now - row >= Retention]_vars

(* The job leaves no row behind that is older than what the longest pair   *)
(* of months explains: on a 31st, the 16th of the month before.            *)
OldGone == [][DeletePartitions => row' = None \/ now - row' <= 46]_vars
=============================================================================
