------------------------------ MODULE Filters -------------------------------
(***************************************************************************)
(* The filters of the list endpoints: from the query parameters to the     *)
(* WHERE clauses, and the rows they select.                                *)
(*                                                                         *)
(* queryParams maps the text of a clause to its arguments, and that is how *)
(* the code keeps it: two clauses with the same text are one entry.  A     *)
(* text is modelled as the sequence of <<column, operator>> it is joined   *)
(* from; the joining word follows from the operator.                       *)
(*                                                                         *)
(* Values are model values.  A value in Uuids parses as a UUID, Like holds *)
(* the pairs <<v, w>> where v occurs in w, ignoring case.  Time is counted *)
(* in half days: day d is 2d and 2d + 1.  The parameters workload and      *)
(* container are handled like project.                                     *)
(***************************************************************************)
EXTENDS Integers, FiniteSets, SequencesExt

CONSTANTS
    Uuids,        \* values that parse as a UUID
    Names,        \* other values
    Like,         \* which name occurs in which
    TypeNames,    \* the names that are workload types
    Empty,        \* the empty value
    Bad,          \* a date that does not parse
    MaxCount,     \* MAXIMUM_COUNT_PER_QUERY_PARAM
    Requests,     \* the requests: one parameter with its lists, and dates
    Now,          \* the moment of the request
    FirstOfMonth, \* the day its month begins
    Times         \* values of monitoring_end_time

Values == Uuids \cup Names
Columns == {"cluster_uuid", "cluster_alias", "project", "workload_type"}
Ops == {"=", "ILIKE", "!="}

ASSUME FiltersAssumption ==
    /\ Uuids \cap Names = {} /\ TypeNames \subseteq Names
    /\ Like \subseteq Names \X Names
    /\ \A v \in Names : <<v, v>> \in Like
    /\ MaxCount \in Nat
    /\ \A r \in Requests :
          /\ r.param \in {"cluster", "project", "workload_type"}
          /\ {r.include, r.exact, r.exclude} \subseteq Seq(Values \cup {Empty})
          /\ {r.start_date, r.end_date} \subseteq Nat \cup {Empty, Bad}
    /\ Now \in Nat /\ FirstOfMonth \in Nat /\ 2 * FirstOfMonth <= Now
    /\ Times \subseteq Nat

Rows == [cluster_uuid : Uuids, cluster_alias : Names, project : Names,
         workload_type : TypeNames, end : Times]

-----------------------------------------------------------------------------
(* The values that are not among others, in the order they came in: the    *)
(* n-th is the one at the n-th of the places kept.                         *)
Without(vals, others) ==
    LET kept == {i \in DOMAIN vals : vals[i] \notin ToSet(others)}
        place(n) == CHOOSE i \in kept : Cardinality({j \in kept : j <= i}) = n
    IN  [n \in 1 .. Cardinality(kept) |-> vals[place(n)]]

(* FilterModeClause: the operator of each mode.                            *)
Suffix == [include |-> "ILIKE", exact |-> "=", exclude |-> "!="]

(* parseClusterParams: a UUID is compared with the UUID, exactly even for  *)
(* include, another value with the alias.                                  *)
parseClusterParams(v, mode) ==
    IF v \in Uuids
    THEN <<"cluster_uuid", IF mode = "include" THEN "=" ELSE Suffix[mode]>>
    ELSE <<"cluster_alias", Suffix[mode]>>

(* buildModeClause: no entry for an empty list, else one entry.            *)
Part(param, mode, v) ==
    IF param = "cluster" THEN parseClusterParams(v, mode)
    ELSE <<param, Suffix[mode]>>

NoClauses == <<>>

buildModeClause(param, mode, vals) ==
    IF vals = <<>> THEN NoClauses
    ELSE [text \in {[i \in DOMAIN vals |-> Part(param, mode, vals[i])]} |->
             vals]

(* maps.Copy: an entry of src replaces one of dst with the same text.      *)
Copy(dst, src) ==
    [text \in DOMAIN dst \cup DOMAIN src |->
        IF text \in DOMAIN src THEN src[text] ELSE dst[text]]

(* buildSQLClauseWithFilterType: no value may be excluded and asked for.   *)
Contradicts(exclude, exact, include) ==
    ToSet(exclude) \cap (ToSet(exact) \cup ToSet(include)) # {}

(* buildSQLClauseWithFilterType: an include value that is asked for        *)
(* exactly too is left out.                                                *)
Clauses_both(param, exclude, exact, include) ==
    Copy(Copy(buildModeClause(param, "exclude", exclude),
              buildModeClause(param, "exact", exact)),
         buildModeClause(param, "include", include))

Clauses(param, exclude, exact, include) ==
    Copy(Copy(buildModeClause(param, "exclude", exclude),
              buildModeClause(param, "exact", exact)),
         buildModeClause(param, "include", Without(include, exact)))

(* Whether a row meets a part, and a clause: exclusions are joined by AND, *)
(* the others by OR.                                                       *)
Meets(row, part, v) ==
    CASE part[2] = "="     -> row[part[1]] = v
      [] part[2] = "!="    -> row[part[1]] # v
      [] part[2] = "ILIKE" -> <<v, row[part[1]]>> \in Like

Holds(row, text, args) ==
    IF \E i \in DOMAIN text : text[i][2] = "!="
    THEN \A i \in DOMAIN text : Meets(row, text[i], args[i])
    ELSE \E i \in DOMAIN text : Meets(row, text[i], args[i])

-----------------------------------------------------------------------------
VARIABLES
    req,          \* the request
    pc,           \* start, filter, answer or failed
    window,       \* the clauses on monitoring_end_time: from and below
    queryParams   \* the other clauses

vars == <<req, pc, window, queryParams>>

Init ==
    /\ req \in Requests
    /\ pc = "start"
    /\ window = [from |-> 0, below |-> 0]
    /\ queryParams = NoClauses

(* MapQueryParameters: the dates.  The end date is inclusive; without one  *)
(* the window ends now, without a start date it begins with the month.     *)
Below_day(end) == IF end = Empty THEN Now ELSE 2 * end

Below(end) == IF end = Empty THEN Now ELSE 2 * (end + 1)

SetWindow ==
    /\ pc = "start"
    /\ IF Bad \in {req.start_date, req.end_date}
       THEN pc' = "failed" /\ UNCHANGED window
       ELSE /\ pc' = "filter"
            /\ window' = [from |-> IF req.start_date = Empty
                                   THEN 2 * FirstOfMonth
                                   ELSE 2 * req.start_date,
                          below |-> Below(req.end_date)]
    /\ UNCHANGED <<req, queryParams>>

(* applyParamFilter: the values of a key, the empty ones left out.  For    *)
(* workload_type the plain parameter is exact.                             *)
Given(vals) == Without(vals, <<Empty>>)
AsExact == req.param = "workload_type"
includeVals == IF AsExact THEN <<>> ELSE Given(req.include)
exactVals == (IF AsExact THEN Given(req.include) ELSE <<>>) \o Given(req.exact)
excludeVals == Given(req.exclude)

(* validateWorkloadTypeValues looks at the empty values too.               *)
BadType ==
    /\ req.param = "workload_type"
    /\ ~(ToSet(req.include \o req.exact \o req.exclude) \subseteq TypeNames)

TooMany_plain == Len(includeVals) > MaxCount

TooMany ==
    \E vals \in {includeVals, exactVals, excludeVals} : Len(vals) > MaxCount

(* MapQueryParameters: one call of applyParamFilter.  An error leaves no   *)
(* query.                                                                  *)
Filter ==
    /\ pc = "filter"
    /\ IF BadType \/ TooMany \/ Contradicts(excludeVals, exactVals, includeVals)
       THEN pc' = "failed" /\ UNCHANGED queryParams
       ELSE /\ pc' = "answer"
            /\ queryParams' = Copy(queryParams,
                  Clauses(req.param, excludeVals, exactVals, includeVals))
    /\ UNCHANGED <<req, window>>

(* GetRecommendationSets: every entry is one more condition.               *)
Selected(row) ==
    /\ window.from <= row.end /\ row.end < window.below
    /\ \A text \in DOMAIN queryParams : Holds(row, text, queryParams[text])

Terminated == pc \in {"answer", "failed"} /\ UNCHANGED vars

Next == SetWindow \/ Filter \/ Terminated

Spec == Init /\ [][Next]_vars /\ WF_vars(Next)

-----------------------------------------------------------------------------
(* The types of the state.  Every clause has as many arguments as          *)
(* placeholders, and no more than applyParamFilter allows.                 *)
TypeOK ==
    /\ pc \in {"start", "filter", "answer", "failed"}
    /\ window.from \in Nat /\ window.below \in Nat
    /\ \A text \in DOMAIN queryParams :
          /\ text \in Seq(Columns \X Ops)
          /\ queryParams[text] \in Seq(Values)
          /\ Len(text) = Len(queryParams[text])
          /\ Len(text) \in 1 .. MaxCount

(* What the interface documents: a value names a row when it is its UUID,  *)
(* or its name; a plain value also when it is part of the name.            *)
NamesRow(v, row, partly) ==
    IF req.param = "cluster" /\ v \in Uuids THEN row.cluster_uuid = v
    ELSE LET name == IF req.param = "cluster" THEN row.cluster_alias
                     ELSE row[req.param]
         IN  name = v \/ (partly /\ <<v, name>> \in Like)

Wanted(vals, row, partly) ==
    vals = <<>> \/ \E i \in DOMAIN vals : NamesRow(vals[i], row, partly)

(* A cluster is asked for by exact and by plain values, which are all      *)
(* UUIDs, and as many of each: both clauses then have one text.            *)
SameText ==
    LET plain == Without(includeVals, exactVals)
    IN  /\ req.param = "cluster"
        /\ exactVals # <<>>
        /\ Len(plain) = Len(exactVals)
        /\ ToSet(plain) \cup ToSet(exactVals) \subseteq Uuids

(* The answer has the rows the request describes and no other: in the      *)
(* window of dates, none that is excluded, and each list of values that is *)
(* given, less those asked for exactly, has a value that names the row.    *)
SelectsAsked ==
    pc = "answer" /\ ~SameText =>
        \A row \in Rows :
            Selected(row) <=>
                /\ row.end >= (IF req.start_date = Empty THEN 2 * FirstOfMonth
                               ELSE 2 * req.start_date)
                /\ IF req.end_date = Empty THEN row.end < Now
                   ELSE row.end \div 2 <= req.end_date
                /\ \A v \in ToSet(excludeVals) : ~NamesRow(v, row, FALSE)
                /\ Wanted(exactVals, row, FALSE)
                /\ Wanted(Without(includeVals, exactVals), row, TRUE)

(* A row the answer has is one the exact filter names.                     *)
ExactHolds ==
    pc = "answer" =>
        \A row \in Rows : Selected(row) => Wanted(exactVals, row, FALSE)
=============================================================================
