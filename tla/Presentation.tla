---------------------------- MODULE Presentation ----------------------------
(***************************************************************************)
(* What a client is shown of a stored recommendation: the columns the      *)
(* poller computes from Kruize's answer when it saves the row, and the     *)
(* JSON the API makes of the row, with units converted, notifications      *)
(* filtered and variations turned into percentages.  Both tables are       *)
(* written and read by the same code; the model follows one row of one.    *)
(*                                                                         *)
(* Amounts are integers of a fixed scale: CPU in 1/10000 core, cores shown *)
(* in 1/1000, memory in bytes, MiB and GiB shown in 1/100, percentages in  *)
(* 1/1000.  Decimal arithmetic is exact; binary rounding is left out.      *)
(***************************************************************************)
EXTENDS Integers

CONSTANTS Terms,     \* kruizeRecommendationTerms
          Engines,   \* kruizeRecommendationEngines
          Kruize,    \* answers of Kruize about the container or namespace
          MiB, GiB,  \* bytes in a MiB and in a GiB
          MaxPct,    \* the largest magnitude of a NUMERIC(10,4) percentage
          MaxNow,    \* the largest current request of each resource's column
          ToShow,    \* NotificationsToShow
          Null

Res == {"cpu", "memory"}
Sections == {"limits", "requests"}
Kinds == {"container", "namespace"}
Lists == {"recommendationset-list", "namespace-recommendationset-list"}

CpuUnits == {"cores", "millicores"}
MemoryUnits == {"bytes", "MiB", "GiB"}

(* A stored *_pct column: the resource, the term and the engine.           *)
Columns == Res \X Terms \X Engines

(* RecommendationData: an answer of Kruize.  Current amounts are never     *)
(* negative; a term has no engines or all of them.                         *)
Amounts(S) == [Sections -> [Res -> S]]
Answer(d) ==
    /\ DOMAIN d = {"current", "notes", "terms"}
    /\ d.current \in Amounts(Nat)
    /\ \A t \in Terms :
          /\ DOMAIN d.terms[t] = {"engines", "notes", "plots"}
          /\ DOMAIN d.terms[t].engines \in {{}, Engines}
          /\ \A r \in DOMAIN d.terms[t].plots :
                r \in Res /\ d.terms[t].plots[r] \in Int
          /\ \A e \in DOMAIN d.terms[t].engines :
                LET x == d.terms[t].engines[e]
                IN  /\ DOMAIN x = {"config", "variation", "notes"}
                    /\ x.config \in Amounts(Int) /\ x.variation \in Amounts(Int)

ASSUME PresentationAssumption ==
    /\ MiB \in Nat \ {0} /\ GiB \in Nat \ {0}
    /\ MaxPct \in Nat /\ MaxNow \in [Res -> Nat]
    /\ Null \notin Int
    /\ \A d \in Kruize : Answer(d)

VARIABLES kind,   \* the table
          row,    \* the stored row, or NoRow
          reply   \* the answer to a request, until it is delivered

vars == <<kind, row, reply>>

NoRow == [stored |-> FALSE]
NoReply == [status |-> 0, shown |-> FALSE]
-----------------------------------------------------------------------------
(***************************************************************************)
(* utils/conversion.go.                                                    *)
(***************************************************************************)
Abs(n) == IF n < 0 THEN -n ELSE n

(* Division that truncates toward zero (math.Trunc) or rounds half away    *)
(* from zero (math.Round); d is positive.                                  *)
TruncDiv(n, d) == IF n < 0 THEN -(Abs(n) \div d) ELSE n \div d
RoundDiv(n, d) == IF n < 0 THEN -((2 * Abs(n) + d) \div (2 * d))
                           ELSE (2 * n + d) \div (2 * d)

Clamp_low(p, max) == IF p < -max THEN -max ELSE p
Clamp(p, max) == IF p > max THEN max ELSE IF p < -max THEN -max ELSE p

(* A share of d in thousandths of a percent.                               *)
CalculatePercentage(n, d) ==
    IF n = 0 \/ d = 0 THEN 0 ELSE TruncDiv(n * 100000, d)

convertCPUUnit_trunc(unit, v) == TruncDiv(v, 10)
convertCPUUnit(unit, v) ==
    IF unit = "millicores" THEN RoundDiv(v, 10) ELSE TruncDiv(v, 10)

convertMemoryUnit(unit, v) ==
    CASE unit = "MiB"   -> TruncDiv(v * 100, MiB)
      [] unit = "GiB"   -> TruncDiv(v * 100, GiB)
      [] unit = "bytes" -> v

Convert(r, unit, v) ==
    IF r = "cpu" THEN convertCPUUnit(unit, v) ELSE convertMemoryUnit(unit, v)

VariationPercent_raw(r, v, now) == Clamp(CalculatePercentage(v, now), MaxPct)
VariationPercent(r, v, now) ==
    LET unit == IF r = "cpu" THEN "cores" ELSE "MiB"
    IN  Clamp(CalculatePercentage(Convert(r, unit, v), Convert(r, unit, now)),
              MaxPct)
-----------------------------------------------------------------------------
(***************************************************************************)
(* Saving a row.                                                           *)
(***************************************************************************)
(* json.Marshal: an amount of zero is omitted (omitempty).                 *)
MarshalAmount(r, a) ==
    LET format == [format |-> IF r = "cpu" THEN "cores" ELSE "bytes"]
    IN  IF a = 0 THEN format ELSE [amount |-> a, format |-> format.format]

MarshalConfig(c) == [s \in Sections |-> [r \in Res |-> MarshalAmount(r, c[s][r])]]

MapEngines(E, F(_)) == [e \in DOMAIN E |-> F(E[e])]
MapTerms(d, F(_)) == [d EXCEPT !.terms = [t \in Terms |-> F(d.terms[t])]]

(* The blob of the recommendations column.  A term without engines has     *)
(* none of them (a nil pointer); otherwise it has both.                    *)
Marshal(d) ==
    LET Engine(x) == [x EXCEPT !.config = MarshalConfig(@),
                               !.variation = MarshalConfig(@)]
        Term(x) == [x EXCEPT !.engines = MapEngines(@, Engine)]
    IN  MapTerms([d EXCEPT !.current = MarshalConfig(@)], Term)

ExtractRecommendationColumnValues(d) ==
    LET now == [r \in Res |-> Clamp(d.current.requests[r], MaxNow[r])]
    IN  [now |-> now,
         pct |-> [c \in Columns |->
                    LET E == d.terms[c[2]].engines
                    IN  IF c[3] \in DOMAIN E
                        THEN VariationPercent(c[1],
                                 E[c[3]].variation.requests[c[1]], now[c[1]])
                        ELSE Null]]

(* The *_pct columns among the AssignmentColumns of the upsert.            *)
UpdatedColumns_cost == {c \in Columns : c[3] = CHOOSE e \in Engines : TRUE}
UpdatedColumns == Columns

NoPcts == [c \in Columns |-> Null]
NoNow == [r \in Res |-> Null]

(* Insert, or update on conflict.                                          *)
Save(d) ==
    LET new == ExtractRecommendationColumnValues(d)
        old == IF row.stored THEN row.pct ELSE new.pct
    IN  /\ reply = NoReply
        /\ row' = [stored |-> TRUE, blob |-> Marshal(d), now |-> new.now,
                   pct |-> [c \in Columns |->
                              IF c \in UpdatedColumns THEN new.pct[c] ELSE old[c]]]
        /\ UNCHANGED <<kind, reply>>

(* The cluster is deleted, and the row with it.                            *)
Drop ==
    /\ row.stored /\ reply = NoReply
    /\ row' = NoRow
    /\ UNCHANGED <<kind, reply>>
-----------------------------------------------------------------------------
(***************************************************************************)
(* Presenting a row.                                                       *)
(***************************************************************************)
HasAmount(v) == "amount" \in DOMAIN v

k8sUnit(unit) ==
    CASE unit = "millicores" -> "m"
      [] unit = "cores" -> ""
      [] unit = "MiB" -> "Mi"
      [] unit = "GiB" -> "Gi"
      [] unit = "bytes" -> "bytes"

Format(u, r) == IF u.k8s THEN k8sUnit(u[r]) ELSE u[r]

InUnit(u, r, v) ==
    IF HasAmount(v)
    THEN [amount |-> Convert(r, u[r], v.amount), format |-> Format(u, r)]
    ELSE v

ConfigInUnits(u, c) == [s \in Sections |-> [r \in Res |-> InUnit(u, r, c[s][r])]]

transformComponentUnits(u, d) ==
    LET Engine(x) == [x EXCEPT !.config = ConfigInUnits(u, @),
                               !.variation = ConfigInUnits(u, @)]
        Plot(p) == [r \in DOMAIN p |->
                      [amount |-> Convert(r, u[r], p[r]), format |-> Format(u, r)]]
        Term(x) == [x EXCEPT !.engines = MapEngines(@, Engine), !.plots = Plot(@)]
    IN  MapTerms([d EXCEPT !.current = ConfigInUnits(u, @)], Term)

(* One notification that is not listed hides all of its level.             *)
Known(notes) == IF notes \subseteq ToShow THEN notes ELSE {}

filterNotifications_terms(d) ==
    MapTerms(d, LAMBDA x : [x EXCEPT !.notes = Known(@)])
filterNotifications(d) ==
    LET Engine(x) == [x EXCEPT !.notes = Known(@)]
        Term(x) == [x EXCEPT !.notes = Known(@), !.engines = MapEngines(@, Engine)]
    IN  MapTerms([d EXCEPT !.notes = Known(@)], Term)

dropBoxPlotsObject(d) == MapTerms(d, LAMBDA x : [x EXCEPT !.plots = <<>>])

HasValues(pct) == \E c \in Columns : pct[c] # Null

(* The columns that StoredVariationSpecs writes into the blob.             *)
StoredVariationSpecs_one == Res \X Terms \X {CHOOSE e \in Engines : TRUE}
StoredVariationSpecs == Columns

Percent(a) == [amount |-> a, format |-> "percent"]

injectStoredRequestVariationPct(d, pct) ==
    LET Stored(c, v) == IF c \in StoredVariationSpecs /\ pct[c] # Null
                        THEN Percent(pct[c]) ELSE v
        Requests(t, e, old) == [r \in Res |-> Stored(<<r, t, e>>, old[r])]
        Engine(t, e, x) == [x EXCEPT !.variation.requests = Requests(t, e, @)]
        Term(t, x) ==
            [x EXCEPT !.engines = [e \in DOMAIN @ |-> Engine(t, e, @[e])]]
    IN  [d EXCEPT !.terms = [t \in Terms |-> Term(t, @[t])]]

(* Amounts of the variations become shares of the current amounts, as they *)
(* are after the conversion of units.                                      *)
convertVariationToPercentage(d, skipRequests) ==
    LET Now(s, r) == IF HasAmount(d.current[s][r]) THEN d.current[s][r].amount ELSE 0
        Share(s, r, v) == IF HasAmount(v)
                          THEN Percent(CalculatePercentage(v.amount, Now(s, r)))
                          ELSE v
        Section(s, c) == IF s = "requests" /\ skipRequests THEN c
                         ELSE [r \in Res |-> Share(s, r, c[r])]
        Engine(x) == [x EXCEPT !.variation = [s \in Sections |-> Section(s, @[s])]]
    IN  MapTerms(d, LAMBDA x : [x EXCEPT !.engines = MapEngines(@, Engine)])

UpdateRecommendationJSON_early(handler, u, blob, pct) ==
    LET plain == IF handler \in Lists THEN dropBoxPlotsObject(blob) ELSE blob
        set == injectStoredRequestVariationPct(plain, pct)
        clean == filterNotifications(transformComponentUnits(u, set))
    IN  convertVariationToPercentage(clean, HasValues(pct))
UpdateRecommendationJSON(handler, u, blob, pct) ==
    LET plain == IF handler \in Lists THEN dropBoxPlotsObject(blob) ELSE blob
        clean == filterNotifications(transformComponentUnits(u, plain))
        set == IF HasValues(pct)
               THEN injectStoredRequestVariationPct(clean, pct) ELSE clean
    IN  convertVariationToPercentage(set, HasValues(pct))
-----------------------------------------------------------------------------
(***************************************************************************)
(* Requests, one at a time: a row is read by one statement and the answer  *)
(* depends on nothing else.  A parameter is absent, one of its values or   *)
(* something else; true-units=false is like an absent one.                 *)
(***************************************************************************)
Absent == "absent"
Bad == "bad"

Units == [cpu : CpuUnits \union {Absent, Bad},
          memory : MemoryUnits \union {Absent, Bad},
          trueUnits : {Absent, Bad, "true"}]

HandlerName(h) ==
    CASE h = "list" /\ kind = "container" -> "recommendationset-list"
      [] h = "list" /\ kind = "namespace" -> "namespace-recommendationset-list"
      [] h = "detail" /\ kind = "container" -> "recommendationset"
      [] h = "detail" /\ kind = "namespace" -> "namespace-recommendationset"

BadUnits(q) == Bad \in {q.cpu, q.memory, q.trueUnits}

ParseUnitParams(handler, q) ==
    [cpu |-> IF q.cpu = Absent THEN "cores" ELSE q.cpu,
     memory |-> IF q.memory # Absent THEN q.memory
                ELSE IF handler = "list" THEN "bytes" ELSE "MiB",
     k8s |-> q.trueUnits # "true"]

(* The namespace handlers hide their errors (EnableUserAPIErr is false).   *)
Error(status) == [status |-> IF kind = "namespace" THEN 200 ELSE status,
                  shown |-> FALSE]

Present(handler, q) ==
    LET u == ParseUnitParams(handler, q)
    IN  [status |-> 200, shown |-> TRUE, units |-> u, list |-> handler = "list",
         json |-> UpdateRecommendationJSON(HandlerName(handler), u,
                                           row.blob, row.pct)]

(* The list has the row if it is there; Listing has selection and paging.  *)
List(q) ==
    /\ reply = NoReply
    /\ reply' = IF BadUnits(q) THEN Error(400)
                ELSE IF row.stored THEN Present("list", q)
                ELSE [status |-> 200, shown |-> FALSE]
    /\ UNCHANGED <<kind, row>>

(* GetRecommendationSetByID, GetNamespaceRecommendationSetByID.            *)
Found(id) == id = "row" /\ row.stored

(* GetRecommendationSet and GetNamespaceRecommendationSet.                 *)
Detail(id, q) ==
    /\ reply = NoReply
    /\ reply' = IF id = Bad \/ BadUnits(q) THEN Error(400)
                ELSE IF Found(id) THEN Present("detail", q)
                ELSE Error(404)
    /\ UNCHANGED <<kind, row>>

Deliver ==
    /\ reply # NoReply
    /\ reply' = NoReply
    /\ UNCHANGED <<kind, row>>

(* At the start the row may be there from a time before its *_pct columns. *)
Init ==
    /\ kind \in Kinds
    /\ row \in {NoRow} \union
         {[stored |-> TRUE, blob |-> Marshal(d), now |-> NoNow, pct |-> NoPcts] :
            d \in Kruize}
    /\ reply = NoReply

Next ==
    \/ \E d \in Kruize : Save(d)
    \/ Drop
    \/ \E q \in Units : List(q) \/ \E id \in {"row", "other", Bad} : Detail(id, q)
    \/ Deliver

Spec == Init /\ [][Next]_vars
-----------------------------------------------------------------------------
(***************************************************************************)
(* Properties.                                                             *)
(***************************************************************************)
(* A row saved since the columns exist has a value in the columns of       *)
(* exactly the terms its blob has engines for, whatever was saved before:  *)
(* UpdateRecommendationJSON leaves out the conversion of all requests as   *)
(* soon as one column has a value (HasValues).  Every value fits its       *)
(* column; the transaction of Save would fail otherwise.                   *)
ColumnsWhole ==
    row.stored /\ HasValues(row.pct) =>
        \A c \in Columns :
            /\ row.pct[c] # Null <=> c[3] \in DOMAIN row.blob.terms[c[2]].engines
            /\ row.pct[c] # Null => row.pct[c] \in -MaxPct .. MaxPct

(* The current request in the blob is in the range of its column.          *)
CurrentFits(r) ==
    LET now == row.blob.current.requests[r]
    IN  HasAmount(now) => now.amount <= MaxNow[r]

(* A change old of the current amount now is shown as new: a percentage    *)
(* with its direction or zero, the value p of its column if it has one,    *)
(* and no cut of more than 100 percent of what is there.                   *)
ChangeFine(now, old, new, p, s, r) ==
    /\ HasAmount(new) =>
         /\ new.format = "percent"
         /\ new.amount # 0 => HasAmount(old)
         /\ new.amount > 0 => old.amount > 0
         /\ new.amount < 0 => old.amount < 0
         /\ HasAmount(old) /\ HasAmount(now)
               /\ old.amount >= -now.amount
               /\ (s = "requests" => CurrentFits(r))
            => new.amount >= -100000
    /\ s = "requests" /\ p # Null => new = Percent(p)

(* Every change that is shown is a percentage with the direction of the    *)
(* change in the blob or zero, whether it was stored or computed; that of  *)
(* a request is the value of its column, by which the list is sorted, in   *)
(* every unit and handler.  A recommendation to use less is never shown as *)
(* a cut of more than 100 percent, however both amounts are rounded; the   *)
(* column takes a request out of range for the largest that is in range.   *)
ChangesShown ==
    reply.shown =>
        \A t \in Terms : \A e \in DOMAIN row.blob.terms[t].engines :
            \A s \in Sections, r \in Res :
                ChangeFine(row.blob.current[s][r],
                           row.blob.terms[t].engines[e].variation[s][r],
                           reply.json.terms[t].engines[e].variation[s][r],
                           row.pct[<<r, t, e>>], s, r)

(* The column a row was saved with is what the API computes from its blob  *)
(* in cores and MiB (the comment of RecommendationColumnValues), cut to    *)
(* the range of the column; a change of zero has no amount in the blob.    *)
StoredAsRecomputed ==
    row.stored =>
        LET u == [cpu |-> "cores", memory |-> "MiB", k8s |-> TRUE]
            json == UpdateRecommendationJSON("recommendationset", u, row.blob, NoPcts)
        IN  \A c \in Columns : row.pct[c] # Null /\ CurrentFits(c[1]) =>
               LET v == json.terms[c[2]].engines[c[3]].variation.requests[c[1]]
               IN  row.pct[c] = IF HasAmount(v) THEN Clamp(v.amount, MaxPct) ELSE 0

(* a, shown as s in a unit, is off by less than the last digit shown: cut  *)
(* toward zero, or rounded when it is shown in millicores.                 *)
Near(unit, a, s) ==
    LET CutOff(all, step) == /\ all >= step * Abs(s) /\ all < step * (Abs(s) + 1)
                             /\ (a < 0 => s <= 0) /\ (a > 0 => s >= 0)
    IN  CASE unit = "cores"      -> CutOff(Abs(a), 10)
          [] unit = "millicores" -> Abs(a - 10 * s) <= 5
          [] unit = "MiB"        -> CutOff(100 * Abs(a), MiB)
          [] unit = "GiB"        -> CutOff(100 * Abs(a), GiB)
          [] unit = "bytes"      -> a = s

(* Whether the amount a, a configuration, a set of notifications and a     *)
(* term are shown in the units u as they are stored.                       *)
ValueFine(u, r, a, v) == Near(u[r], a, v.amount) /\ v.format = Format(u, r)

ConfigFine(u, old, new) ==
    \A s \in Sections, r \in Res :
        /\ HasAmount(old[s][r]) <=> HasAmount(new[s][r])
        /\ HasAmount(old[s][r]) => ValueFine(u, r, old[s][r].amount, new[s][r])

NotesFine(old, new) ==
    /\ new \subseteq old \cap ToShow
    /\ old \subseteq ToShow => new = old

TermFine(u, list, old, new) ==
    /\ \A e \in DOMAIN old.engines :
          /\ ConfigFine(u, old.engines[e].config, new.engines[e].config)
          /\ NotesFine(old.engines[e].notes, new.engines[e].notes)
    /\ NotesFine(old.notes, new.notes)
    /\ DOMAIN new.plots = IF list THEN {} ELSE DOMAIN old.plots
    /\ \A r \in DOMAIN new.plots : ValueFine(u, r, old.plots[r], new.plots[r])

(* The rest of the blob is shown as it is stored: amounts and plots in the *)
(* units that were asked for, under their names, and off by less than one  *)
(* digit; plots in details only.  At no level is a notification shown that *)
(* is not listed, and where all are listed none is lost.                   *)
BlobShown ==
    reply.shown =>
        /\ ConfigFine(reply.units, row.blob.current, reply.json.current)
        /\ NotesFine(row.blob.notes, reply.json.notes)
        /\ \A t \in Terms :
              TermFine(reply.units, reply.list,
                       row.blob.terms[t], reply.json.terms[t])
=============================================================================
