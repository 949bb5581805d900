---------------------------- MODULE MCAggregation ----------------------------
(***************************************************************************)
(* Files for TLC: rows that differ from a common one in what the code      *)
(* tells apart.                                                            *)
(***************************************************************************)
EXTENDS Aggregation, TLC

MCLower == "ReplicaSet" :> "replicaset" @@ "Deployment" :> "deployment" @@
           "Job" :> "job"

Pod == [namespace |-> "n", owner_kind |-> "ReplicaSet", owner_name |-> "o",
        workload |-> "w", workload_type |-> "deployment", container |-> "c",
        image |-> "i", start |-> 0, end |-> 1, use |-> 5, request |-> 2]

Bare == [Pod EXCEPT !.workload = "<none>"]

ContainerRows ==
    {Pod, Bare,
     [Pod EXCEPT !.workload_type = "Deployment", !.use = 3],
     [Pod EXCEPT !.workload_type = "Job"],
     [Pod EXCEPT !.use = Missing],
     [Pod EXCEPT !.request = Missing],
     [Pod EXCEPT !.container = "d", !.request = 0],
     [Pod EXCEPT !.image = "", !.use = 2],
     [Pod EXCEPT !.namespace = "m"],
     [Pod EXCEPT !.start = 1, !.end = 2],
     [Pod EXCEPT !.start = BadTime, !.end = 2],
     [Pod EXCEPT !.end = BadTime],
     [Bare EXCEPT !.workload = ""],
     [Bare EXCEPT !.request = Missing],
     [Bare EXCEPT !.owner_name = "p"],
     [Bare EXCEPT !.owner_kind = "Job"],
     [Pod EXCEPT !.owner_name = "<none>"]}

NamespaceRows ==
    {Pod,
     [Pod EXCEPT !.use = 0],
     [Pod EXCEPT !.use = Missing],
     [Pod EXCEPT !.request = Missing],
     [Pod EXCEPT !.namespace = "m"],
     [Pod EXCEPT !.namespace = "<none>"],
     [Pod EXCEPT !.start = 1, !.end = 2],
     [Pod EXCEPT !.start = BadTime, !.end = 2],
     [Pod EXCEPT !.start = -2],
     [Pod EXCEPT !.end = BadTime]}

Sized(S) == UNION {[1 .. n -> S] : n \in {1, 3}}

MCFiles ==
    [kind : {"container"}, complete : {TRUE}, rows : Sized(ContainerRows)] \union
    [kind : {"namespace"}, complete : {TRUE}, rows : Sized(NamespaceRows)] \union
    [kind : {"container", "namespace"}, complete : {FALSE}, rows : {<<Pod>>}]
=============================================================================
