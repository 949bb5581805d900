----------------------------- MODULE Aggregation -----------------------------
(***************************************************************************)
(* From the rows of a CSV file to what Kruize and the metrics table get of *)
(* them: validation, the object a pod belongs to, aggregation, grouping by *)
(* experiment, one result per interval end.  Every call succeeds here;     *)
(* failures are Ingest's.  Groups of a data frame come in any order, and   *)
(* so do the rows of a group.                                              *)
(*                                                                         *)
(* use stands for the usage columns, all of which are validated, request   *)
(* for the requests and limits, which may be missing.                      *)
(***************************************************************************)
EXTENDS Integers, FiniteSets, FiniteSetsExt, Functions

CONSTANTS Files,     \* CSV files
          Lower,     \* strings.ToLower on the names that are not lower case
          Missing,   \* a number that is absent (NaN)
          BadTime    \* a time that does not parse

Nameless == {"", "<none>"}

(* A file is of either kind, has its columns or not, and has finitely many *)
(* rows.  Numbers may be negative, and absent.                             *)
ASSUME FilesAssumption ==
    /\ {Missing, BadTime} \cap Int = {}
    /\ \A f \in Files :
          /\ f.kind \in {"container", "namespace"} /\ f.complete \in BOOLEAN
          /\ IsFiniteSet(DOMAIN f.rows)
          /\ \A i \in DOMAIN f.rows :
                /\ {f.rows[i].use, f.rows[i].request} \subseteq Int \cup {Missing}
                /\ {f.rows[i].start, f.rows[i].end} \subseteq Int \cup {BadTime}

WorkloadTypes == {"daemonset", "deployment", "deploymentconfig", "replicaset",
                  "replicationcontroller", "statefulset"}

VARIABLES file,      \* the file in hand
          pc,        \* "load", "aggregate" or "send"
          groups,    \* aggregated rows not yet sent, by experiment
          results,   \* results sent to Kruize
          metrics,   \* rows of workload_metrics
          requests   \* requests for a recommendation

vars == <<file, pc, groups, results, metrics, requests>>

ToLower(s) == IF s \in DOMAIN Lower THEN Lower[s] ELSE s
-----------------------------------------------------------------------------
(***************************************************************************)
(* Aggregate_data.                                                         *)
(***************************************************************************)
Valid(kind, r) ==
    /\ r.use # Missing /\ r.use >= 0
    /\ IF kind = "namespace"
       THEN r.namespace \notin Nameless
       ELSE /\ {r.owner_kind, r.owner_name, r.workload_type} \cap Nameless = {}
            /\ ToLower(r.workload_type) \in WorkloadTypes

ValidRows(f) == {i \in DOMAIN f.rows : Valid(f.kind, f.rows[i])}

(* A pod of a bare ReplicaSet or ReplicationController belongs to it, any  *)
(* other pod to its workload.                                              *)
determine_k8s_object_type_workload(r) ==
    <<ToLower(r.workload_type), r.workload>>
determine_k8s_object_type(r) ==
    LET owner == ToLower(r.owner_kind)
    IN  IF /\ owner \in {"replicaset", "replicationcontroller"}
           /\ r.workload \in Nameless
        THEN <<owner, r.owner_name>>
        ELSE <<ToLower(r.workload_type), r.workload>>

Experiment(kind, r) ==
    LET object == determine_k8s_object_type(r)
    IN  IF kind = "namespace" THEN <<"namespace", r.namespace>>
                              ELSE <<r.namespace, object[1], object[2]>>

(* The columns a file is grouped by.                                       *)
Key_pod(kind, r) ==
    [experiment |-> Experiment(kind, r), start |-> r.start, end |-> r.end,
     workload |-> "", container |-> "", image |-> ""]
Key(kind, r) ==
    [experiment |-> Experiment(kind, r), start |-> r.start, end |-> r.end,
     workload |-> IF kind = "namespace" THEN "" ELSE r.workload,
     container |-> IF kind = "namespace" THEN "" ELSE r.container,
     image |-> IF kind = "namespace" THEN "" ELSE r.image]

(* SUM and MEAN of values one of which is missing are missing.             *)
TotalRequest_some(f, rows) ==
    LET some == {i \in rows : f.rows[i].request # Missing}
    IN  SumFunction([i \in some |-> f.rows[i].request])
TotalRequest(f, rows) ==
    IF \E i \in rows : f.rows[i].request = Missing THEN Missing
    ELSE SumFunction([i \in rows |-> f.rows[i].request])

Aggregated(f, key) ==
    LET rows == {i \in ValidRows(f) : Key(f.kind, f.rows[i]) = key}
        uses == {f.rows[i].use : i \in rows}
    IN  [key |-> key, sum |-> SumFunction([i \in rows |-> f.rows[i].use]),
         count |-> Cardinality(rows), max |-> Max(uses), min |-> Min(uses),
         request |-> TotalRequest(f, rows)]

Aggregate_data(f) ==
    {Aggregated(f, key) : key \in {Key(f.kind, f.rows[i]) : i \in ValidRows(f)}}
-----------------------------------------------------------------------------
(***************************************************************************)
(* The payloads.                                                           *)
(***************************************************************************)
(* A metric without a value is left out (makeNamespaceMetrics, and the     *)
(* loop of make_container_data).  The mean is the pair of sum and count.   *)
MetricsOf(x) ==
    [usage |-> [sum |-> x.sum, count |-> x.count, max |-> x.max, min |-> x.min],
     request |-> IF x.request = Missing THEN <<>> ELSE [request |-> x.request]]

(* make_container_data; for a namespace both names are empty.  from is not *)
(* sent: entries are in a list, and it tells those apart that are equal.   *)
Entry(x) ==
    [from |-> x.key, container |-> x.key.container, image |-> x.key.image,
     usage |-> MetricsOf(x).usage, request |-> MetricsOf(x).request]

Ends(group) == {x.key.end : x \in group}

Parses(time) == time # BadTime

MaxIntervalEndTime_min(group) == Min(Ends(group))
MaxIntervalEndTime(group) == Max(Ends(group))

(* One result for each end that occurs, with the start of the row that     *)
(* comes first; a namespace takes the values of that row alone.            *)
Result_start(kind, experiment, group, first) ==
    LET same == {x \in group : <<x.key.start, x.key.end>> =
                                <<first.key.start, first.key.end>>}
    IN  [experiment |-> experiment, start |-> first.key.start,
         end |-> first.key.end,
         entries |-> {Entry(x) : x \in IF kind = "namespace" THEN {first} ELSE same}]
Result(kind, experiment, group, first) ==
    LET same == {x \in group : x.key.end = first.key.end}
    IN  [experiment |-> experiment, start |-> first.key.start,
         end |-> first.key.end,
         entries |-> {Entry(x) : x \in IF kind = "namespace" THEN {first} ELSE same}]

Payload_unparsed(kind, experiment, group, first) ==
    {Result(kind, experiment, group, first[t]) : t \in Ends(group)}
Payload(kind, experiment, group, first) ==
    {Result(kind, experiment, group, first[t]) :
        t \in {u \in Ends(group) : Parses(first[u].key.start)}}

(* The unique key of workload_metrics.                                     *)
Place_interval(result, entry) ==
    [experiment |-> result.experiment, container |-> "",
     start |-> result.start, end |-> result.end]
Place(result, entry) ==
    [experiment |-> result.experiment, container |-> entry.container,
     start |-> result.start, end |-> result.end]

(* The insert keeps the first row of each key (DO NOTHING on conflict).    *)
Inserts(sent) ==
    LET offered == UNION {{[place |-> Place(x, y), entry |-> y] : y \in x.entries} :
                             x \in sent}
        places == {m.place : m \in offered}
    IN  {kept \in SUBSET offered :
            \A p \in places : Cardinality({m \in kept : m.place = p}) = 1}
-----------------------------------------------------------------------------
Init ==
    /\ file \in Files
    /\ pc = "aggregate"
    /\ groups = {} /\ results = {} /\ metrics = {} /\ requests = {}

(* Another file of the report.                                             *)
Load ==
    /\ pc = "load"
    /\ file' \in Files
    /\ pc' = "aggregate"
    /\ results' = {} /\ metrics' = {} /\ requests' = {}
    /\ UNCHANGED groups

(* With the last group sent the next file is read; a file with a column    *)
(* missing or without a valid row has no group and is skipped.             *)
After(left) == IF left = {} THEN "load" ELSE "send"

hasMissingColumnsCSV(f) == ~f.complete

Aggregate ==
    /\ pc = "aggregate"
    /\ LET rows == IF hasMissingColumnsCSV(file) THEN {} ELSE Aggregate_data(file)
           Of(e) == {x \in rows : x.key.experiment = e}
       IN  groups' = {Of(e) : e \in {x.key.experiment : x \in rows}}
    /\ pc' = After(groups')
    /\ UNCHANGED <<file, results, metrics, requests>>

Finish(group) ==
    /\ groups' = groups \ {group}
    /\ pc' = After(groups')

(* An end that does not parse costs the experiment the whole group.        *)
Skip(group) ==
    /\ pc = "send" /\ group \in groups
    /\ \E t \in Ends(group) : ~Parses(t)
    /\ Finish(group)
    /\ UNCHANGED <<file, results, metrics, requests>>

Send(group) ==
    /\ pc = "send" /\ group \in groups
    /\ \A t \in Ends(group) : Parses(t)
    /\ \E first \in [Ends(group) -> group] :
         LET experiment == (CHOOSE x \in group : TRUE).key.experiment
             sent == Payload(file.kind, experiment, group, first)
         IN  /\ \A t \in Ends(group) : first[t].key.end = t
             /\ results' = results \union sent
             /\ \E kept \in Inserts(sent) : metrics' = metrics \union kept
             /\ requests' = requests \union
                  {[experiment |-> experiment, end |-> MaxIntervalEndTime(group)]}
    /\ Finish(group)
    /\ UNCHANGED file

Next == Load \/ Aggregate \/ \E group \in groups : Skip(group) \/ Send(group)

Spec == Init /\ [][Next]_vars
-----------------------------------------------------------------------------
(***************************************************************************)
(* Properties, against the rows of the file.                               *)
(***************************************************************************)
Rows == {i \in ValidRows(file) : file.complete}
OfExperiment(e) == {i \in Rows : Experiment(file.kind, file.rows[i]) = e}
Experiments == {Experiment(file.kind, file.rows[i]) : i \in Rows}
ContainerOf(i) == IF file.kind = "namespace" THEN "" ELSE file.rows[i].container

(* All times of an experiment parse, and its intervals do not overlap in   *)
(* such a way that two have the same end.                                  *)
Regular(e) ==
    /\ \A i \in OfExperiment(e) :
         Parses(file.rows[i].start) /\ Parses(file.rows[i].end)
    /\ \A i, j \in OfExperiment(e) :
         file.rows[i].end = file.rows[j].end => file.rows[i].start = file.rows[j].start

Entries(e, c, start, end) ==
    UNION {{y \in x.entries : y.container = c} :
              x \in {z \in results : <<z.experiment, z.start, z.end>> = <<e, start, end>>}}

(* The object a pod belongs to, stated apart from the code: the bare owner *)
(* of a pod without a workload, otherwise the workload.                    *)
ObjectOf(r) ==
    IF r.workload \in Nameless /\ ToLower(r.owner_kind) \in
           {"replicaset", "replicationcontroller"}
    THEN <<r.namespace, ToLower(r.owner_kind), r.owner_name>>
    ELSE <<r.namespace, ToLower(r.workload_type), r.workload>>
Owner(i) == IF file.kind = "namespace" THEN file.rows[i].namespace
                                       ELSE ObjectOf(file.rows[i])

(* For regular times, when a file is done, Kruize was given for each       *)
(* object, container and interval the usage of exactly the valid rows that *)
(* belong to them, whatever the order of groups and rows: pods of two      *)
(* owners are never added up, and no row is left out or counted twice.     *)
(* The recommendation asked for is that of the latest of these intervals.  *)
Accounted ==
    pc = "load" =>
        /\ \A x \in results : x.experiment \in Experiments
        /\ \A i \in Rows :
             LET r == file.rows[i]
                 e == Experiment(file.kind, r)
                 own == {j \in Rows :
                           <<Owner(j), ContainerOf(j), file.rows[j].start, file.rows[j].end>> =
                           <<Owner(i), ContainerOf(i), r.start, r.end>>}
                 sent == Entries(e, ContainerOf(i), r.start, r.end)
                 last == Max({file.rows[j].end : j \in {k \in Rows : Owner(k) = Owner(i)}})
             IN  Regular(e) =>
                   /\ Cardinality(own) = SumFunction([y \in sent |-> y.usage.count])
                   /\ SumFunction([j \in own |-> file.rows[j].use]) =
                      SumFunction([y \in sent |-> y.usage.sum])
                   /\ Max({file.rows[j].use : j \in own}) = Max({y.usage.max : y \in sent})
                   /\ Min({file.rows[j].use : j \in own}) = Min({y.usage.min : y \in sent})
                   /\ {q.end : q \in {z \in requests : z.experiment = e}} = {last}

(* The rows a result is made of: those with its end, of a namespace only   *)
(* those that also have its start.                                         *)
Behind(x) ==
    {i \in OfExperiment(x.experiment) :
        /\ file.rows[i].end = x.end
        /\ file.kind = "namespace" => file.rows[i].start = x.start}

(* Pods aggregated together have their requests and limits given as one    *)
(* total, or not at all when one of them lacks it.  So a container of a    *)
(* result is given the total of those pods whose whole lot has one, and    *)
(* every entry of the container carries a request if and only if all its   *)
(* pods have one: the total of some pods never passes for that of all.     *)
RequestsWhole ==
    \A x \in results : \A y \in x.entries :
        LET Asked(i) == file.rows[i].request
            own == {i \in Behind(x) : ContainerOf(i) = y.container}
            Columns(i) == <<file.rows[i].workload, file.rows[i].image, file.rows[i].start>>
            Lot(i) == {j \in own : file.kind = "container" => Columns(j) = Columns(i)}
            whole == {i \in own : \A j \in Lot(i) : Asked(j) # Missing}
            sent == {z \in x.entries : z.container = y.container}
            given == {z \in sent : z.request # <<>>}
        IN  /\ SumFunction([i \in whole |-> Asked(i)]) =
               SumFunction([z \in given |-> z.request.request])
            /\ given = sent <=> \A i \in own : Asked(i) # Missing

(* What times that do not parse, or do not fit together, cost when a file  *)
(* is done.  An end that does not parse costs the experiment the file.     *)
(* Otherwise each end has one result, or none if a start does not parse;   *)
(* the start is that of one of its rows, and a container keeps the usage   *)
(* of every row with that end, a namespace that of the rows with that      *)
(* start.  The recommendation asked for is that of the latest end, with or *)
(* without a result.                                                       *)
TimesCost ==
    pc = "load" => \A e \in Experiments :
        LET sent == {x \in results : x.experiment = e}
            asked == {q.end : q \in {z \in requests : z.experiment = e}}
            ends == {file.rows[i].end : i \in OfExperiment(e)}
        IN  IF BadTime \in ends
            THEN sent = {} /\ asked = {}
            ELSE /\ asked = {Max(ends)}
                 /\ \A x \in sent :
                      /\ x.end \in ends
                      /\ \A z \in sent : z.end = x.end => z = x
                      /\ Parses(x.start)
                      /\ \E i \in Behind(x) : file.rows[i].start = x.start
                      /\ Cardinality(Behind(x)) =
                         SumFunction([y \in x.entries |-> y.usage.count])
                      /\ SumFunction([i \in Behind(x) |-> file.rows[i].use]) =
                         SumFunction([y \in x.entries |-> y.usage.sum])
                 /\ \A i \in OfExperiment(e) :
                      \/ \E x \in sent : x.end = file.rows[i].end
                      \/ \E j \in OfExperiment(e) :
                            /\ file.rows[j].end = file.rows[i].end
                            /\ ~Parses(file.rows[j].start)

(* The metrics table has one row for every container of every result, with *)
(* what Kruize was sent, or with a part of it where the pods of one        *)
(* container differ in image or workload.                                  *)
MetricsFollowResults ==
    /\ \A x \in results : \A y \in x.entries :
         LET kept == {m \in metrics : m.place = Place(x, y)}
             all == {z \in x.entries : z.container = y.container}
         IN  /\ Cardinality(kept) = 1
             /\ \A m \in kept : m.entry \in all
    /\ \A m \in metrics : \E x \in results : \E y \in x.entries :
         m.entry = y /\ m.place.experiment = x.experiment /\ m.place.end = x.end
=============================================================================
