------------------------------- MODULE Tables -------------------------------
(***************************************************************************)
(* The tables of the database that hold recommendations, as the statements *)
(* of the poller read and write them:                                      *)
(*   recommendation_sets            one row per (workload, container)      *)
(*   namespace_recommendation_sets  one row per workload                   *)
(*   historical_*                   one row per name and end time          *)
(* and the rule by which the poller decides that a stored row is old       *)
(* enough to ask Kruize for a new recommendation.                          *)
(*                                                                         *)
(* Times are minutes; the zero value of Go's time.Time is 0.               *)
(***************************************************************************)
EXTENDS Integers

CONSTANTS
    Workloads,           \* ids of table workloads (BIGSERIAL: never reused)
    NamespaceWorkloads,  \* the ones whose workload_type is namespace
    Containers,          \* container names
    Namespace,           \* stands for the one name a namespace row has
    Times,               \* interval end times reports can carry
    HalfOf,              \* the half month a time falls in, counted from 1
    Vals,                \* contents Kruize can answer with
    RowIds,              \* uuids of the rows of one workload, in key order
    PollInterval,        \* RECOMMENDATION_POLL_INTERVAL_HOURS
    FirstDays,           \* the day numbers that are a first of a month
    OmitEnd,             \* may Kruize leave monitoring_end_time out?
    Null                 \* no row, no item

ZeroTime == 0
NoRec == -1
Ends == Times \cup {ZeroTime}
Names == Containers \cup {Namespace}

(* A row of the current table, an item of a batch about to be saved, and a *)
(* row of the history table (whose key includes its end time).             *)
Row == [id : RowIds, end : Ends, val : Vals]
Item == [end : Ends, val : Vals]
HistRow == [c : Names, end : Ends, val : Vals]

Rows == [Names -> Row \cup {Null}]
Batches == [Names -> Item \cup {Null}]
EmptyRows == [c \in Names |-> Null]
EmptyBatch == [c \in Names |-> Null]

ASSUME TimesAssumption == Times \subseteq Nat \ {ZeroTime}
ASSUME HalfAssumption == HalfOf \in [Times -> Nat \ {0}]
ASSUME RowIdsAssumption == RowIds \subseteq Nat
ASSUME PollIntervalAssumption == PollInterval \in Nat \ {0}
ASSUME NullAssumption == Null \notin Row /\ Null \notin Item
ASSUME NamesAssumption == Namespace \notin Containers
ASSUME FlagAssumption == OmitEnd \in BOOLEAN

NamesOf(w) == IF w \in NamespaceWorkloads THEN {Namespace} ELSE Containers

-----------------------------------------------------------------------------
(* int(duration.Hours()): whole hours, truncated towards zero.             *)
Hours(d) == IF d >= 0 THEN d \div 60 ELSE -((-d) \div 60)

Day(t) == t \div 1440

NeedRecommOnFirstOfMonth(dbDate, maxEndTime) ==
    /\ Day(maxEndTime) \in FirstDays
    /\ Day(maxEndTime) > Day(dbDate)

(* Is a recommendation stored for end time `last' due for renewal by a     *)
(* report that ends at t?  A row that carries the zero time never is.      *)
NeedsPoll_abs(last, t) ==
    /\ last # ZeroTime
    /\ \/ Hours(t - last) >= PollInterval
       \/ Hours(last - t) >= PollInterval
       \/ NeedRecommOnFirstOfMonth(last, t)

NeedsPoll(last, t) ==
    /\ last # ZeroTime
    /\ \/ Hours(t - last) >= PollInterval
       \/ NeedRecommOnFirstOfMonth(last, t)

-----------------------------------------------------------------------------
(* First(&recommendationSets) orders by primary key: c's row has the       *)
(* smallest id among the rows of one workload.                             *)
IsFirst(rows, c) ==
    /\ rows[c] # Null
    /\ \A d \in Names : rows[d] # Null => rows[c].id <= rows[d].id

(* INSERT ... ON CONFLICT (key) DO UPDATE: a row that exists keeps its id. *)
Upsert(rows, batch, ids) ==
    [c \in Names |->
        IF batch[c] = Null THEN rows[c]
        ELSE [id  |-> IF rows[c] = Null THEN ids[c] ELSE rows[c].id,
              end |-> batch[c].end,
              val |-> batch[c].val]]

(* gen_random_uuid: a fresh id for every name that gets its first row, in  *)
(* no order; only the order within one workload is ever looked at.         *)
FreshIds(rows, batch) ==
    LET new == {c \in Names : batch[c] # Null /\ rows[c] = Null}
    IN {ids \in [new -> RowIds] :
           /\ \A c, d \in new : c # d => ids[c] # ids[d]
           /\ \A c \in new, d \in Names :
                 rows[d] # Null => ids[c] # rows[d].id}

Items(batch) ==
    {h \in HistRow : batch[h.c] # Null /\ batch[h.c].end = h.end
                                       /\ batch[h.c].val = h.val}

(* The history of a container workload is upserted, the history of a       *)
(* namespace workload is inserted with ON CONFLICT DO NOTHING.             *)
HistoryAfter_skip(w, old, batch) ==
    old \cup {h \in Items(batch) : \A o \in old : o.end # h.end}

HistoryAfter(w, old, batch) ==
    IF w \in NamespaceWorkloads
    THEN old \cup {h \in Items(batch) : \A o \in old : o.end # h.end}
    ELSE {o \in old : \A h \in Items(batch) : o.c # h.c \/ o.end # h.end}
         \cup Items(batch)

(* The container history is partitioned by half month of its end time; an  *)
(* insert whose end time no partition covers fails.  The namespace history *)
(* is one plain table.                                                     *)
HasPartition(w, end, parts) ==
    \/ w \in NamespaceWorkloads
    \/ end \in Times /\ HalfOf[end] \in parts

(* DROP TABLE of every partition that starts before half month h.          *)
KeptHistory(w, old, h) ==
    IF w \in NamespaceWorkloads THEN old
    ELSE {o \in old : o.end \in Times /\ HalfOf[o.end] >= h}

(* What Kruize can say of one name when it is asked for end time t: one    *)
(* data point, whose monitoring_end_time is t unless Kruize leaves it out. *)
AnswerEnds(t) == IF OmitEnd THEN {t, ZeroTime} ELSE {t}

(* The valid recommendations of an answer, by name.                        *)
Answers(w, t) ==
    {[c \in Names |-> IF c \in NamesOf(w) THEN f[c] ELSE Null] :
        f \in [NamesOf(w) -> [end : AnswerEnds(t), val : Vals] \cup {Null}]}
=============================================================================
