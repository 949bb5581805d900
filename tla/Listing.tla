------------------------------ MODULE Listing -------------------------------
(***************************************************************************)
(* The list endpoints: a client asks for a page and follows the links of   *)
(* the answer while the poller, the processor and the housekeeper go on    *)
(* writing.                                                                *)
(*                                                                         *)
(* Only the rows the query selects are state: rows maps the id of each to  *)
(* its value in the order_by column.  A row that begins to match is saved, *)
(* one that no longer matches is removed.  Ids are ordered like the UUIDs  *)
(* they stand for.  The handler runs two statements outside a transaction, *)
(* a count and a select, so writes come between them.                      *)
(***************************************************************************)
EXTENDS Integers, FiniteSets, SequencesExt

CONSTANTS
    Ids,             \* row ids
    Keys,            \* values of the order_by column
    Null,            \* SQL NULL in that column
    Absent,          \* a parameter that is missing, or an unparsable number
    NoLink,          \* an empty link
    Requests,        \* the requests a client may start from
    DefaultLimit,    \* 10
    RecordLimitCSV,  \* RECORD_LIMIT_CSV
    MaxWrites        \* bound on the writes during a walk

Kinds == {"container", "namespace"}
Hows == {Absent, "asc", "desc", "other"}
Formats == {"json", "csv"}

RawRequests ==
    [kind : Kinds, limit : Int \cup {Absent}, offset : Int \cup {Absent},
     how : Hows, by : {Absent, "allowed", "other"},
     accept : Formats \cup {Absent, "other"},
     format : Formats \cup {Absent, "other"}]

ASSUME ListingAssumption ==
    /\ Ids \subseteq Nat /\ IsFiniteSet(Ids)
    /\ Keys \subseteq Int /\ Null \notin Int
    /\ Absent \notin Int /\ NoLink \notin Int
    /\ DefaultLimit \in Nat /\ RecordLimitCSV \in Nat /\ MaxWrites \in Nat
    /\ \A r \in Requests : r \in RawRequests

-----------------------------------------------------------------------------
(* What the handler makes of a request.                                    *)

(* resolveResponseFormat: a known Accept header wins over the parameter.   *)
resolveResponseFormat(r) ==
    IF r.accept \in Formats THEN r.accept
    ELSE IF r.format = Absent THEN "json" ELSE r.format

parseInt(val, def) == IF val = Absent THEN def ELSE val

(* ListAPIOptions fails on an unknown format, on limit < -1 and on an      *)
(* unknown order_how or order_by.                                          *)
Refused(r) ==
    \/ resolveResponseFormat(r) = "other"
    \/ parseInt(r.limit, DefaultLimit) < -1
    \/ r.how = "other"
    \/ r.by = "other"

ListAPIOptions_raw(r) ==
    [limit  |-> parseInt(r.limit, DefaultLimit),
     offset |-> parseInt(r.offset, 0),
     how    |-> IF r.how = Absent THEN "desc" ELSE r.how,
     format |-> resolveResponseFormat(r)]

(* ListAPIOptions.  A negative offset becomes 0; 0 and -1 are limits.      *)
ListAPIOptions(r) ==
    [limit  |-> parseInt(r.limit, DefaultLimit),
     offset |-> LET o == parseInt(r.offset, 0) IN IF o < 0 THEN 0 ELSE o,
     how    |-> IF r.how = Absent THEN "desc" ELSE r.how,
     format |-> resolveResponseFormat(r)]

(* SQLOrderByFragment, then the id: whether row a comes before row b.      *)
(* PostgreSQL puts NULL last in ascending order, the fragment asks for it  *)
(* in descending order.                                                    *)
Before_key(t, how, a, b) ==
    IF t[a] = t[b] THEN FALSE
    ELSE IF Null \in {t[a], t[b]} THEN t[b] = Null
    ELSE IF how = "asc" THEN t[a] < t[b] ELSE t[a] > t[b]

Before_nulls(t, how, a, b) ==
    IF t[a] = t[b] THEN a < b
    ELSE IF Null \in {t[a], t[b]}
    THEN IF how = "asc" THEN t[b] = Null ELSE t[a] = Null
    ELSE IF how = "asc" THEN t[a] < t[b] ELSE t[a] > t[b]

Before(t, how, a, b) ==
    IF t[a] = t[b] THEN a < b
    ELSE IF Null \in {t[a], t[b]} THEN t[b] = Null
    ELSE IF how = "asc" THEN t[a] < t[b] ELSE t[a] > t[b]

(* The sequences of the selected rows that the ORDER BY clause permits.    *)
Orders(t, how) ==
    {s \in SetToSeqs(DOMAIN t) :
        \A m, n \in DOMAIN s : m < n => ~Before(t, how, s[n], s[m])}

(* OFFSET and LIMIT; a negative limit is no limit.                         *)
Cut(s, offset, limit) ==
    SubSeq(s, offset + 1,
           IF limit \in 0 .. Len(s) - offset THEN offset + limit ELSE Len(s))

CutLimit_dflt(o) == IF o.format = "csv" THEN DefaultLimit ELSE o.limit

(* GetRecommendationSets: a CSV download has a limit of its own.           *)
CutLimit(o) == IF o.format = "csv" THEN RecordLimitCSV ELSE o.limit

(* CollectionResponse: the offset of the next and of the previous link.    *)
NextLink_same(o, n) == IF o.offset + o.limit < n THEN o.offset ELSE NoLink

NextLink_last(o, n) ==
    IF o.offset + o.limit < n - 1 THEN o.offset + o.limit ELSE NoLink

NextLink(o, n) ==
    IF o.offset + o.limit < n THEN o.offset + o.limit ELSE NoLink

PreviousLink(o) ==
    IF o.offset > o.limit THEN o.offset - o.limit ELSE NoLink

-----------------------------------------------------------------------------
VARIABLES
    rows,      \* the rows the query selects
    status,    \* idle, count, scan, page, done or failed
    first,     \* the request the client starts from
    ask,       \* the request in hand
    count,     \* the result of the count statement
    page,      \* the rows of the last answer
    dir,       \* whether the client follows next or previous links
    got,       \* the rows taken on the way forward, page by page
    again,     \* the rows received more than once
    writes,    \* writes so far
    stayed,    \* rows no write touched since the walk began
    setback,   \* a row was removed or moved back since the walk began
    torn       \* the table the last select saw is not the one counted

clientVars == <<first, ask, dir, got, again>>
historyVars == <<writes, stayed, setback>>
vars == <<rows, status, first, ask, count, page, dir, got, again, writes,
          stayed, setback, torn>>

opts == ListAPIOptions(ask)
next == NextLink(opts, count)
previous == PreviousLink(opts)

Tables == UNION {[S -> Keys \cup {Null}] : S \in SUBSET Ids}

Init ==
    /\ rows \in Tables
    /\ status = "idle"
    /\ first \in Requests
    /\ ask = first
    /\ count = 0 /\ page = <<>> /\ got = <<>> /\ again = {}
    /\ dir = "next"
    /\ writes = 0 /\ stayed = DOMAIN rows
    /\ setback = FALSE /\ torn = FALSE

(* The handler gets r: 400, or the options of the query.                   *)
Handle(r) ==
    /\ ask' = r
    /\ UNCHANGED first
    /\ status' = IF Refused(r) THEN "failed" ELSE "count"

(* The client sends its first request.                                     *)
Ask ==
    /\ status = "idle"
    /\ Handle(ask)
    /\ UNCHANGED <<rows, count, page, dir, got, again, historyVars, torn>>

(* GetRecommendationSets, GetNamespaceRecommendationSets: the count.       *)
Count ==
    /\ status = "count"
    /\ status' = "scan"
    /\ count' = Cardinality(DOMAIN rows)
    /\ UNCHANGED <<rows, clientVars, page, historyVars, torn>>

(* The client takes a page with a row it has not seen; on the way back it  *)
(* keeps no account.                                                       *)
Receive(p) ==
    IF dir = "next"
    THEN /\ got' = IF ToSet(p) \subseteq ToSet(got) THEN got ELSE got \o p
         /\ again' = again \cup (ToSet(p) \cap ToSet(got))
    ELSE UNCHANGED <<got, again>>

(* The select, and the answer.  The namespace list has no CSV form and     *)
(* refuses it only after the query.                                        *)
Scan ==
    /\ status = "scan"
    /\ \E s \in Orders(rows, opts.how) :
          page' = Cut(s, opts.offset, CutLimit(opts))
    /\ torn' = (count # Cardinality(DOMAIN rows))
    /\ IF ask.kind = "namespace" /\ opts.format = "csv"
       THEN status' = "failed" /\ UNCHANGED <<got, again>>
       ELSE status' = "page" /\ Receive(page')
    /\ UNCHANGED <<rows, first, ask, count, dir, historyVars>>

(* A statement fails: 503, or an empty object.                             *)
QueryFails ==
    /\ status \in {"count", "scan"}
    /\ status' = "failed"
    /\ UNCHANGED <<rows, clientVars, count, page, historyVars, torn>>

(* The link keeps the other parameters of the request.                     *)
Link(offset) == [ask EXCEPT !.limit = opts.limit, !.offset = offset]

FollowNext ==
    /\ status = "page" /\ opts.format = "json"
    /\ dir = "next" /\ next # NoLink
    /\ Handle(Link(next))
    /\ UNCHANGED <<rows, count, page, dir, got, again, historyVars, torn>>

FollowPrevious ==
    /\ status = "page" /\ opts.format = "json"
    /\ dir = "next" => next = NoLink
    /\ previous # NoLink
    /\ dir' = "previous"
    /\ Handle(Link(previous))
    /\ UNCHANGED <<rows, count, page, got, again, historyVars, torn>>

(* The client stops when the answer has no link in its direction.          *)
Leave ==
    /\ status = "page"
    /\ opts.format = "json" =>
          IF dir = "next" THEN next = NoLink ELSE previous = NoLink
    /\ status' = "done"
    /\ UNCHANGED <<rows, clientVars, count, page, historyVars, torn>>

(* An upsert makes row i match, or gives it another value k to sort by.    *)
Save(i, k) ==
    /\ writes < MaxWrites /\ status \notin {"idle", "done", "failed"}
    /\ i \in DOMAIN rows => rows[i] # k
    /\ rows' = [j \in DOMAIN rows \cup {i} |-> IF j = i THEN k ELSE rows[j]]
    /\ writes' = writes + 1
    /\ stayed' = stayed \ {i}
    /\ setback' = (setback \/ \E j \in DOMAIN rows \ {i} :
                       /\ i \in DOMAIN rows
                       /\ Before(rows, opts.how, i, j)
                       /\ Before(rows', opts.how, j, i))
    /\ UNCHANGED <<status, clientVars, count, page, torn>>

(* Row i is deleted with its cluster, or leaves the window of dates.       *)
Drop(i) ==
    /\ writes < MaxWrites /\ status \notin {"idle", "done", "failed"}
    /\ i \in DOMAIN rows
    /\ rows' = [j \in DOMAIN rows \ {i} |-> rows[j]]
    /\ writes' = writes + 1
    /\ stayed' = stayed \ {i}
    /\ setback' = TRUE
    /\ UNCHANGED <<status, clientVars, count, page, torn>>

Serve == Count \/ Scan
Walk == FollowNext \/ FollowPrevious \/ Leave

Terminated == status \in {"done", "failed"} /\ UNCHANGED vars

Next ==
    \/ Ask \/ Serve \/ QueryFails \/ Walk
    \/ \E i \in Ids, k \in Keys \cup {Null} : Save(i, k)
    \/ \E i \in Ids : Drop(i)
    \/ Terminated

(* The server answers what it is asked; the client follows the links.      *)
Spec == Init /\ [][Next]_vars /\ WF_vars(Serve) /\ WF_vars(Walk)

-----------------------------------------------------------------------------
(* The types of the state.  The options of a query that is under way are   *)
(* ones ListAPIOptions lets through: the offset is never negative.         *)
TypeOK ==
    /\ rows \in Tables
    /\ status \in {"idle", "count", "scan", "page", "done", "failed"}
    /\ first \in Requests /\ ask \in RawRequests
    /\ status \in {"count", "scan", "page", "done"} =>
          opts \in [limit : Int, offset : Nat, how : {"asc", "desc"},
                    format : Formats]
    /\ count \in Nat
    /\ page \in Seq(Ids) /\ got \in Seq(Ids) /\ again \subseteq Ids
    /\ dir \in {"next", "previous"}
    /\ writes \in 0 .. MaxWrites
    /\ stayed \subseteq DOMAIN rows
    /\ setback \in BOOLEAN /\ torn \in BOOLEAN

(* The client has followed the next links of a JSON list from offset 0 to  *)
(* the end.                                                                *)
WalkOver ==
    /\ status = "page" /\ dir = "next"
    /\ opts.format = "json" /\ next = NoLink
    /\ ListAPIOptions(first).offset = 0

(* When nobody writes meanwhile, pages put together give every selected    *)
(* row once, with NULLs last: a row that ties with others in the order_by  *)
(* column does not move from page to page.  A CSV download has every       *)
(* selected row, up to the limit for downloads, whatever limit the request *)
(* gives.                                                                  *)
WalkExact ==
    writes = 0 =>
        /\ WalkOver =>
              /\ again = {} /\ ToSet(got) = DOMAIN rows
              /\ \A m, n \in DOMAIN got :
                    m < n /\ rows[got[m]] = Null => rows[got[n]] = Null
        /\ status = "page" /\ opts.format = "csv" /\ opts.offset = 0 =>
              \/ ToSet(page) = DOMAIN rows
              \/ Len(page) = RecordLimitCSV

(* Rows that appear or move forward during the walk, as every row does     *)
(* when its cluster reports and the list is in its default order, never    *)
(* make the client miss a row that stayed where it was, unless the table   *)
(* changed between the count and the select of the last page.              *)
UnmovedSeen ==
    WalkOver /\ ~setback /\ ~torn => stayed \subseteq ToSet(got)

(* A client that follows the links comes to an end.                        *)
WalkEnds == status = "count" ~> status \in {"done", "failed"}
=============================================================================
