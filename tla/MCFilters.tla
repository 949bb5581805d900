----------------------------- MODULE MCFilters ------------------------------
(***************************************************************************)
(* Small sets of requests: one name occurs in another, lists are longer    *)
(* than MaxCount, dates fall around the first of the month and Now.        *)
(***************************************************************************)
EXTENDS Filters

CONSTANTS u1, u2, web, webserver

Occurs == {<<web, web>>, <<web, webserver>>, <<webserver, webserver>>}

Params == {"cluster", "project", "workload_type"}

ListsOf(S, max) == UNION {[1 .. n -> S] : n \in 0 .. max}

With(params, lists, dates) ==
    [param : params, include : lists, exact : lists, exclude : lists,
     start_date : dates, end_date : dates]

(* Two UUIDs, an empty value and an alias, up to two under one key.        *)
Mixed == ListsOf({u1, u2, web, Empty}, 2)

(* Up to three values under one key.                                       *)
Long == ListsOf({u1, web, webserver}, 3)

Dates == {Empty, Bad, 1, 2, 3, 4}

(* Requests about values, about many values and about dates.               *)
Asked ==
    With(Params, Mixed, {Empty}) \cup With(Params, Long, {Empty})
    \cup With({"project"}, {<<>>, <<web>>}, Dates)

AboutClusters == With({"cluster"}, Mixed, {Empty})
=============================================================================
