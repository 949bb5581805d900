# ros-ocp-backend in TLA+

Resource Optimization for OpenShift takes usage reports of clusters, feeds them
to Kruize, fetches recommendations from Kruize, keeps them in PostgreSQL and
serves them over a REST API. This directory holds TLA+ models of the parts that
keep state and act concurrently, the TLC runs that check them on small
instances, and TLAPS proofs of the main properties for instances of any size.

`PROJECT.json` has the machine-readable side: components, runs, the mapping from
definitions to source lines, mutants, findings, hazards and theorems.

## The system

```
 upload topic      +-----------+  createExperiment, updateResults   +--------+
 ----------------> | processor | ---------------------------------> | Kruize |
                   +-----------+                                    +--------+
                      |      | recommendation topic                    ^   ^
             upserts  |      v                                         |   |
                      |   +--------+   updateRecommendations           |   |
                      |   | poller | ----------------------------------+   |
                      v   +--------+                                       |
   +------------------------+  | one transaction                           |
   |      PostgreSQL        |<-+                                           |
   |  (partitioned tables)  |<--------- housekeeper --sources --------------+
   +------------------------+<--------- housekeeper --partitions (cron)
          ^
          | queries
        REST API
```

| Part | State | Operations | What is hard |
|---|---|---|---|
| Report processor (`services/report_processor.go`) | offset of the upload topic, committed on a timer; locals of a nested loop over files, groups, chunks | account, cluster and workload upserts, experiment creation, results, metrics, request to the poller | every call may fail and the loop goes on; the cluster id is read once and used for the whole report; a crash loses the report in hand |
| Recommendation poller (`services/recommendation_poller.go`) | offset of the recommendation topic, committed by hand | read the first stored row, check the workload, decide, ask Kruize, write two tables in one transaction, commit | three remote calls between the read and the write; cumulative commits; redelivery; the housekeeper and a second consumer in between |
| Housekeeper, sources (`housekeeper/sourcesCleaner.go`) | none | on `Application.destroy`: find the cluster, list its workloads, delete their experiments, delete the cluster | not atomic; runs against the processor |
| Housekeeper, partitions (`housekeeper/tablePartitionCleaner.go`, migrations 5, 6, 7, 11) | the partitions of two tables | trigger creates half-month partitions, cron job drops old ones | calendar arithmetic; runs between the upsert that creates a partition and the insert that needs it |
| Tables (`model/*.go`, `migrations/`) | clusters, workloads, metrics, current and historical recommendations | upserts, cascades | different conflict rules for containers and namespaces |
| Kafka wrappers (`kafka/*.go`) | assignment, offsets | consume loop, produce with three attempts | duplicated and lost requests, a consumer that outlasts its lease, a group without a committed offset |
| Kruize client (`utils/kruize/kruize_api.go`) | Kruize's experiments and performance profile | create, results, recommendations, delete | no timeout on the heavy calls, retry without a limit |
| REST API, lists (`api/handlers.go`, `api/utils.go`, `api/listoptions`, `model/common.go`) | none of its own; a client walks from link to link | options, filters, count and select, links, CSV download through a pipe | pages of a table that changes under the client; count and select apart; filter clauses kept in a map by their text; a download that breaks after its status was sent |
| CSV aggregation and payloads (`utils/aggregator.go`, `types/kruizePayload`) | none | validation, owner of a pod, aggregation, grouping, one result per interval end | orders nobody fixes (Go maps, data frame groups), missing numbers, keys of different width in three places, times that do not parse |
| REST API, presentation (`api/utils.go`, `utils/conversion.go`, `model/common.go`) | twelve percentage columns beside the blob they are computed from | columns computed at save time; units, percentages and notifications at read time | two computations that must agree, rounding and clamping, rows from before the columns existed, one column deciding for all |
| RBAC | none | permissions of a caller | not modelled, see below |

What makes the parts correct:

* **poller**: an offset never passes a message that was read and that no handler
  finished; rows of
  a deleted workload never reappear; the current tables and the history agree;
  a decision made on a row that was read earlier is still right when it is acted
  on; a row never gets stuck;
* **processor and housekeeper**: a crash loses at most the report in hand; a
  request names the right row, and only asks for what Kruize was offered; a row
  has its experiment;
* **partitions**: inserts find their partition; retention drops neither too much
  nor too little;
* **lists**: pages put together are the table; a row that nobody touched is not
  missed; links come to an end; a filter selects what it describes; a download is
  the file or a bounded part of it, and its handler returns;
* **aggregation**: every valid row is counted once, for its owner, container and
  interval, in Kruize and in the metrics table;
* **presentation**: what is stored beside the blob is what would be computed from
  it; what is shown says the same as the blob, in the units that were asked for.

## Modules

| Module | What it is |
|---|---|
| `Tables` | rows, batches and histories of the recommendation tables; the decision rule; upsert, history and retention as operators |
| `RecStore` | abstract specification: a store of recommendations whose saves are atomic |
| `Feed` | abstract specification of the interface between the two services: which workload rows there are and were, and which were asked about |
| `Poller` | the poller's consumers, the group, the other writers of the tables |
| `PollerProofs` | theorems about `Poller` |
| `Ingest` | the report processor, Kruize's experiments, the sources housekeeper |
| `IngestProofs` | theorems about `Ingest` |
| `Partitions` | the calendar, the trigger and the retention job |
| `PartitionsProofs` | theorems about `Partitions` |
| `Listing` | a list endpoint, a client that follows its links, and the writers of the table |
| `ListingProofs` | theorems about `Listing` |
| `Filters` | from query parameters to WHERE clauses, and the rows they select |
| `FiltersProofs` | theorems about `Filters` |
| `Export` | the CSV download: goroutine, buffer, pipe, handler, client |
| `ExportProofs` | theorems about `Export` |
| `Aggregation` | from the rows of a CSV file to results, metrics and the request |
| `AggregationProofs` | theorems about `Aggregation` |
| `Presentation` | from Kruize's answer to the stored row, and from the row to the JSON of the API |
| `PresentationProofs` | theorems about `Presentation` |
| `MCPoller`, `MCIngest`, `MCPartitions`, `MCListing`, `MCFilters`, `MCAggregation`, `MCPresentation` | values of the constants for TLC |

Definitions named `X_y` after a definition `X` are mutated forms of `X`, each
with one plausible mistake; they are used only to show that a property notices
the mistake.

### Poller

`log` is one partition of the recommendation topic (requests are keyed by
experiment, so all requests of a workload are in one partition, in order).
Every consumer in `Pollers` has a program counter `pc` and runs
`PollForRecommendations` as the steps

| Action | Code |
|---|---|
| `Receive` | decode and validate; poison and disabled types go straight to the commit |
| `Lookup` | `GetFirst...RecommendationSetsByWorkloadID` into `stored` |
| `Exists` | `WorkloadExistsByID` and the decision (`Due`, `NeedsPoll`) |
| `Fetch` | `fetchRecommendationFromKruize` and the validity check, into `batch` |
| `Save` | the transaction: current rows, then history; all or nothing. An error of the COMMIT itself leaves open whether it took effect; a recovered panic rolls back and counts as success |
| `Commit` | `commitKafkaMsg`; only the owner's commit counts |

The decision has no remote call between `WorkloadExistsByID` and itself, so the two
are one step. `Assign` gives the partition to a consumer, which starts at
`committed`, or at the end of the log as long as the group has committed nothing
(`NoOffset`): the consumer does not set `auto.offset.reset`, whose default is the
latest offset. `start` is a history variable, the end of the log at the last such
start. `log` is what was sent since the model began, when the group had committed
all that came before, or nothing at all. With `Outlast` the partition may be taken
from a consumer whose handler is still running. `Crash` drops a consumer's locals.
`Report` stands for the processor (workload upsert with its trigger, then zero or
more copies of the request, as `Copies` says), `DeleteCluster` for the housekeeper
with the cascade, `LateRequest` for a request whose workload was deleted between its
upsert and the send, `DropPartitions` for the retention job (at any half month:
which one is the subject of `Partitions`). `Hanging` are the replicas whose call to
Kruize may never return: the client has no timeout, the handler stays in `Fetch`,
and only `max.poll.interval.ms` gets the partition to another replica. `settled`,
`failed` and `dropped` are history variables.

Abstractions: a recommendation is a value of `Vals` plus its end time; a uuid is
a number whose order is all that matters; Kruize answers with at most one data
point per name and, with `OmitEnd`, may leave its `monitoring_end_time` out,
which Go decodes as the zero time. Times are minutes, so the truncation of
`int(duration.Hours())` and the first-of-month rule are the code's.

### RecStore

Rows of a workload are registered, replaced and removed. `Save(w, t, ...)` checks
that the row shown first is due *at the moment it replaces it*. `Poller`
implements it with the identity mapping on `wstate`, `recs`, `hist` as long as
no handler outlasts its lease (`Outlast = FALSE`). With `Outlast` it does not:
two handlers can both find the row due and save one after the other.

### Feed

A row of `workloads` is an id and an experiment. `Report` upserts one, which may
be asked about at once; `Ask` sends a request later, even for a row that is gone;
`Remove` deletes the rows of a cluster. An id is never given to another
experiment, a row that is gone does not come back, and nothing is asked about that
was never written. This is what the processor and the housekeeper promise the
poller, and `Ingest` implements it with its tables and topic (`Ingest!FeedSpec`,
run `ingest_race`, theorem `IngestKeepsToFeed`). The poller's own environment
(`Report`, `LateRequest`, `DeleteCluster` of `Poller`) is written after it: a
workload of `Poller` is a row of `Feed`, and a request that comes before, after or
without its row's deletion is possible in both. This correspondence is by reading;
it is not a refinement that is checked.

### Ingest

One cluster of one source and its reports. A report is an alias and a sequence of
files; a file is a set of groups (one experiment each, in the order Go's map
iteration happens to give); a group is the sequence of the interval ends of its
results, and the set `dropped` of the ends it gets no result for, because their
start does not parse. The
handler's steps are `Receive`, `NextFile`, `CreateCluster`, `CreateExperiment`,
`CreateWorkload`, `PostResults` / `PostFailed` / `SetupProfile`, `InsertMetrics`,
`SendRequest`, `EndFile`, `EndReport`; the locals of an iteration are reset when
it ends, as they are in Go. The namespace branch of `ProcessReport` makes the same
calls in the same order. Reading and aggregating the file and finding the account
change nothing the model keeps; they are the ways `NextFile` skips a file.

`AutoCommit` commits what the consumer has *read* at any time (librdkafka stores the
offset when it hands a message out); `Close` is the signal handler, which runs only
between messages. `Assign` and `start` are as in `Poller`; a field of `setting` says
whether the group has committed before. A call of `Update_results` that fails may
have reached Kruize or not (`PostFailed`: a payload that cannot be encoded and a
refused connection never leave the process), so `offered` may or may not have its
results, while the history variable `tried` has them. The housekeeper takes one step
per call: `FindCluster` (`First` by source id), `ListWorkloads`, `DeleteExperiment`
per experiment, `DeleteCluster` with its cascade. There is one housekeeper
(`HOUSEKEEPER_REPLICA_COUNT` is 1).

`setting` is chosen once, from the records of `Settings`: which messages are
uploaded, how many, and which disturbances may happen. One run can so cover
several kinds of trouble without all their combinations. `gone` and `begun` are
history variables: the workload rows that were deleted, and the cluster rows
whose experiments the housekeeper began to delete.

### Partitions

Days and months are numbered; `Start` gives the first day of each month, which are
28 to 31 days long. Half month `2m` is the 1st to the 15th of month `m`, `2m + 1`
the rest. `CreateWorkload` is the upsert that fires the triggers,
`BatchInsert` the insert that needs the partitions, `DeletePartitions` the cron
job with the code's arithmetic, `Tick` the next day. One row is followed; rows do
not influence each other.

### Listing

`rows` holds what the WHERE clauses select: the id of a row and its value in the
`order_by` column, NULL included. `Ask` and `Handle` are the handler up to the query
(`ListAPIOptions` as an operator, `Refused` for its errors), `Count` and `Scan` its
two statements, `QueryFails` an error of either. `FollowNext`, `FollowPrevious` and
`Leave` are the client: forward to the end, then back. `Save` and `Drop` stand for
the poller, the processor and the housekeeper, whose writes may fall between any two
of these steps. An ORDER BY clause that leaves ties open lets the database choose
among them again for every statement (`Orders`). `stayed`, `setback` and `torn` are
history variables: rows no write touched, that a row was removed or moved back, and
that the last page was counted in another table than it was selected from. `got` has
the rows of the pages taken on the way forward; a page without a new row adds
nothing to it. The namespace list and the container list differ in their columns and
in that the former refuses CSV, after the query.

### Filters

A clause is the sequence of column and operator pairs its text is joined from;
`queryParams` maps texts to arguments as the code's map does, so that two clauses of
the same text are one. The reference (`SelectsAsked`) says for each row whether the
request describes it, without clauses. `SameText` is the case of the finding below,
where the two differ: a cluster is asked for by exact and by plain values, all of
them UUIDs and as many of the one as of the other. Requests with exclusions only, or
without any filter, are compared like all others. Days are counted in halves, which
is enough to have times within the day of `end_date`. One parameter is filtered at a
time: their clauses name different columns and do not meet. Length limits and the
character check of a value are left out.

### Export

Text is counted in pieces, two to a row, so that a full buffer may cut a row.
`WritePiece`, `EndRecord`, `Flush`, `Flushed` and `ClosePipe` are the goroutine,
`CopyChunk`, `EndCopy` and `AbortCopy` the handler in `Context.Stream`; a write to
the pipe ends when the chunk has been taken.

### Aggregation

A file is its kind, whether it has all columns, and its rows. Of a row the model
keeps what the code tells apart: the names of pod owner, workload, container and
image, the two times, one usage number (`use`, for the validated columns) and one
for requests and limits. `Missing` (NaN) and `BadTime` (a time `time.Parse` refuses)
are constants that are no numbers; a usage that is missing or negative makes a row
invalid, as the comparisons of the data frame do. `Aggregate` is `Aggregate_data` and
the grouping by experiment, `Send` the iteration for one group with the payload,
the insert and the request, `Skip` the one whose interval ends do not parse. Groups
come in any order; which row of an interval comes first is chosen by `first`, and
which of two metrics rows with one key is kept by `Inserts`. Calls succeed here;
what fails is the subject of `Ingest`. A result has a list of entries, in which two may
be equal; as the model has a set, an entry carries the key it was made of (`from`),
which is not sent. The properties use a reference (`ObjectOf`,
`Owner`) that is stated over the rows, apart from the code's path.

`Accounted` is about experiments whose times parse and whose intervals have one start
each (`Regular`). `TimesCost` is about all of them: what a time that does not parse
costs, and that a result holds the usage of all rows it is made of (`Behind`).
`RequestsWhole` takes the pods of a container in lots, as the code's grouping cuts
them (same workload, image and start): a container is given the total of the lots in
which every pod has a request, and all its entries carry one exactly if all its pods
have one.

### Presentation

One row of either table. `Save` is the poller's upsert: the blob as Go marshals it
(amounts of zero are omitted) and the columns of
`ExtractRecommendationColumnValues`, clamped to their types, of which the upsert
assigns `UpdatedColumns`. `List` and `Detail` are the handlers, with
`ParseUnitParams`, `transformComponentUnits`, `filterNotifications`,
`injectStoredRequestVariationPct` and `convertVariationToPercentage` as operators.
`Init` has rows written before the columns existed. Amounts are integers of a
fixed scale, so that truncation and rounding are those of the code with exact
decimals; rounding of binary fractions is left out. So are durations, which are
cut to one decimal place (`api/utils.go:526-534`), and start times, which pass
unchanged.

## Runs

| Run | Checks | Shows |
|---|---|---|
| `poller_store` | `StoreSpec`, `FirstRowAdvances` | refinement of the atomic store, with two containers, three end times around a first of month and two requests |
| `poller_group` | `TypeOK`, `CommitSettled`, `NoSilentSkip`, `HistoryCoversCurrent`, `NoOrphanRows`, `ContainerEndNeverZero`, `CommittedMonotone` | two consumers, a group with and one without a committed offset, handlers that outlast their lease, crashes, poison, deletion, retention, answers without end time, two contents |
| `poller_live` | `HistoryCoversCurrent`, `EveryMessageHandled` | a container and a namespace workload, one of two replicas with namespaces switched off, the other one possibly waiting for Kruize forever: no request blocks the partition, and what comes after the start of a new group is handled |
| `ingest_race` | `TypeOK`, `OnlyReportInHandLost`, `FeedSpec`, `MetricsAccounted`, `RowsKeepExperiment` | two processors over two messages, in a group that has committed and in a new one; on one report against the housekeeper; on the reports of a cluster that changes its alias |
| `ingest_files` | `ResultsBeforeRequest`, `EveryReportEnds` | two files, two experiments, more than one chunk, an interval without a result, Kruize restarting, a group with and one without a committed offset; every handler ends |
| `partitions` | `TypeOK`, `ReportsFit`, `YoungKept`, `OldGone` | default retention, mid January to mid March of a common year |
| `listing` | `TypeOK`, `WalkExact`, `UnmovedSeen`, `WalkEnds` | walks over every table of up to three rows, alone and with two writes anywhere; downloads |
| `filters` | `TypeOK`, `SelectsAsked` | every combination of up to three include, exact and exclude values, none included, and every window of dates around a first of month |
| `filters_exact` | `ExactHolds` (violated) | a plain cluster UUID replaces the exact one |
| `export` | `TypeOK`, `BodyIsFile`, `LossBounded`, `BothReturn` | five records, any of them broken or without terms, a client that may go away |
| `presentation` | `ColumnsWhole`, `ChangesShown`, `StoredAsRecomputed`, `BlobShown` | 92 answers of Kruize saved in any order, shown in all units by all four handlers |
| `aggregation` | `Accounted`, `RequestsWhole`, `TimesCost`, `MetricsFollowResults` | every file of one or three rows out of seventeen (ten for namespaces), in any order of rows and groups |

**Bounds.** `MaxMsgs` bounds a log; two requests are enough for one to overtake,
repeat or be skipped by another, and the proofs cover any number. Two consumers
are enough for a zombie and its successor. Three end times (an evening, the night
after and the evening after that, across a first of month) make both branches of
the decision differ: less than 24 hours but a new month, and 24 hours or more. Two
contents tell a replaced row from a kept one. `MaxIds` lets a cluster and a
workload be deleted and created once more. In `ingest_race` one message is enough
for two handlers at once, because the offset need not be committed when the
partition moves. The calendar covers the months whose lengths differ most around
a February of 28 days; the proofs cover every calendar. Three rows and limits of
one and two give walks of one to three pages, full and partial last pages; two
values and NULL give ties of all kinds; two writes suffice for one to disturb a
page and another to undo its effect on the count. Filter lists are one longer than
`MaxCount`. A buffer of five pieces cuts rows of two, and a flush every two
records leaves an odd one at the end of five. The switches `Outlast` and
`OmitEnd` and the fields of a setting turn a disturbance off where a run is about
another one. `Copies` has 0, 1 and 2 where duplicates matter: a request that is
lost, sent, or sent again after a failure it survived. In `ingest_race` the four
settings are a log of two messages, the same in a group without a committed offset, a
race with the housekeeper, and a renamed cluster; the last has no crashes.

Three rows of a file are enough for two that are added up and one that must not
be; the rows differ from a common one in one or two of the things the code looks
at. In `presentation` a MiB has 64 bytes and a GiB 64 MiB, which keeps products
within TLC's integers; the largest percentage (`MaxPct`) and the largest current
request are small enough to be exceeded. The three terms are present together,
alone or not at all, and every term and engine has a change of its own, so that a
column that is mistaken for another one shows.

**Fairness.** A handler that can step does (`WF` on its steps): the consumers
are loops without waits other than on the calls they make. Three assumptions are
about the environment, and the code cannot guarantee them: calls of the processor
to Kruize return (`/updateResults` has no timeout), Kruize takes the performance
profile in the end (the retry has no limit), and crashes, reassignments and
restarts stop at some point. A poller in `Hanging` gets no fairness while it waits
for `/updateRecommendations`, which has no timeout either. The broker assigns a
partition that nobody owns, and takes one from a consumer that has not polled for
`max.poll.interval.ms` (`Reassign`); that some replica does get answers is what
`Hanging # Pollers` in the run says. In `Ingest` failing calls get no fairness.
In `Listing` the server answers and the client follows the link it has (a client
that stops by itself shows nothing); writes, whose number is bounded, and failing
statements get no fairness. In `Export` the goroutine and the handler are
scheduled and a client that is there reads; nobody makes a client go. `Export`
stops when both have returned, or when the goroutine is left behind, so its run
does not check for deadlock.

## Proofs

Every safety property that a passing run checks is also a theorem. The theorems hold
for every value of the constants:

| Module | For any |
|---|---|
| `PollerProofs` | pollers, workloads, containers, clusters, times, contents, calendar of half months, poll interval |
| `PartitionsProofs` (retention of 15 days) | calendar of months of 28 to 31 days |
| `IngestProofs` | processors, experiments, aliases, reports, files, groups, intervals, chunk size, settings |
| `ListingProofs` | rows, values to sort by, requests, limits, number of writes |
| `FiltersProofs` | values, lists and their lengths, relation `Like` between names, dates, rows |
| `ExportProofs` | records, terms, rows, buffer size, flush interval |
| `AggregationProofs` | files, number of rows, names, times and values, order of rows and groups |
| `PresentationProofs` | answers of Kruize, amounts, units, ranges of the columns, sizes of MiB and GiB |

The argument is the same everywhere. A property is seldom inductive; an invariant
that is, and that implies it, is named in the proofs module, holds initially, and
is kept by every action (one step of the proof each). Each was also checked with TLC
on the instance of its module's run.

**Assumptions.** They are the `ASSUME`s of the modules, which TLC evaluates on its
runs. Five are worth a word. There is an experiment (`ExpsAssumption` of `Ingest`;
without one there is nothing to process). The ids of rows are finitely many
(`ListingAssumption`; a table is finite). The limits of pages and downloads are
natural numbers. A CSV file has finitely many rows, whose numbers are integers or
missing and whose times are integers or do not parse (`FilesAssumption`). Kruize's
answers have the shape of the Go structs they are decoded into (`Answer` of
`Presentation`): a term has no engines or all of them, since they are one pointer,
and the requests and limits that are set now are not negative, which Kubernetes
guarantees and this code does not check. A recommended amount or a change may be any
number.

`Poller`:

* `TypeCorrect`: inductive with `HandlerOK` (a handler that runs has a message
  that is not poison, and what it stored fits its step).
* `CommitsAreSettled`, `NothingIsSkipped`, `OffsetsOnlyAdvance`: `OffsetInv` adds
  `GroupOK`, which says of the owner that every message below its position is
  settled or failed, or was in the log at the last start without a committed offset,
  and that its position is not behind the committed offset. Without it a commit by a
  consumer that was reassigned could go back.
* `HistoryIsKept`, `DeletedStaysDeleted`, `ContainersNeverStick`: `StoreInv` adds
  that rows belong to the names of their workload and that every history row of a
  container lies in a partition that exists.
* `AtomicSaves`, `FirstRowNeverRegresses` assume `~Outlast`. `AtomicInv` adds
  that at most one handler runs (`OneHandler`), that ids of a workload differ
  (`IdsDiffer`, so the first row is unique) and that what the running handler read
  is still what the table shows first (`Fresh`). The last step maps every action
  of `Poller` to a step of `RecStore` or to a stutter.

`Ingest`:

* `TypeCorrect`: inductive with `HandlerOK` (a handler at work holds a report, and
  at its insert a chunk).
* `NoOtherReportLost`: `OffsetInv` adds `GroupOK`: everything the owner of the
  partition has read was handled, was cut off by a crash, or is in the hands of a
  handler, which may be that of an earlier owner, or was in the log at the last
  start without a committed offset. The property itself speaks of committed messages
  only, and a commit of what was merely read would break it.
* `IngestKeepsToFeed`: `RowsInv` adds that an id was given to one row only, that a
  handler past the upsert holds the id of a row of its experiment, though the row
  may be gone, and that requests name such rows. Every action is then a step of
  `Feed` or a stutter.
* `ResultsPrecedeRequests`, `MetricsAreAccounted`: `ResultsInv` adds `ChunksOK`:
  each interval of the group in hand was tried or is in a chunk that is left, and
  what metrics are about to be inserted of was sent. It needs the fact that the
  slices of a group, of whatever length, contain each of its intervals.
* `RowsKeepTheirExperiment`: `ExpsInv` adds that two clusters differ in id and alias
  and own their workloads, that the housekeeper deletes experiments only for a
  cluster that is recorded in `begun`, and that a handler between the creation of the
  experiment and the upsert has its experiment, or an excuse.

`Partitions` (for `Retention = 15`, which the arithmetic is written for; types for
any retention):

* `TypeCorrect`, `ReportsAlwaysFit`, `YoungRowsAreKept`, `OldRowsGo`. The arithmetic facts
  about months (`MonthOf` is monotone, at most one month lies between two days
  that are 15 apart) are lemmas; the rest is case analysis on the two branches of
  `PartitionTableDate`.

`Listing`:

* What is proved about ORDER BY, OFFSET and LIMIT is put in terms of ranks. The rank
  of a row is the number of rows before it. The id after the order_by column leaves
  no ties (`BeforeTotal`), so every sequence the clause permits is the one in which
  the row in place p has rank p - 1 (`OrdersFacts`, `RankFacts`), and a page is the
  set of rows with ranks in its range, in order (`CutFacts`).
* `TypeCorrect`: with `Accepted` (a query that runs was not refused) and `Fresh`.
  The link repeats the limit it was answered with, so a request made of a link is
  not refused either (`LinkFacts`).
* `UnmovedRowsAreSeen`: `AheadInv` says that a row no write has touched was seen or
  has a rank not below the offset of the page in hand. A write that moves no row
  back can only raise the rank of other rows (`SaveKeepsRank`).
* `WalkIsExact`: `ExactInv` says that after each page the client has exactly the rows
  with ranks below the next offset, in order. Without a limit the walk never gets to
  its end, because its offset stays 0 (`Unlimited`).

`Filters`:

* `TypeCorrect`, `SelectsWhatIsAsked`: `FilterInv` says what the window of dates and
  the clauses are once they have been built. The rest is a lemma for each mode and
  column: a disjunction (or, for exclusions, a conjunction) of comparisons over a
  list holds of a row exactly when the request says so, whatever the length of the
  list; that clauses with the same text overwrite each other matters only in the
  case `SameText` names. A list that is empty makes no clause and needs no case.

`Export`:

* `TypeCorrect`: the writer's buffer never exceeds its size.
* `ClientGetsTheFile`, `LossIsBounded`: `StreamInv` has `NothingLost` (body, pipe and
  buffer put together are what was written), `FlushesArrive` (what was flushed has
  arrived when the next record begins) and `CutShort`. The loss is bounded because
  among `CSVStreamInterval` consecutive numbers one is a multiple of it
  (`MultipleNear`).

`Presentation`:

* `ColumnsAreWhole`, `StoredIsRecomputed`, `ChangesAreShown`, `BlobIsShown`:
  `ShownInv` says that a row is what a save makes of one answer, or a row from before
  the columns, and that a reply was made of the row as it is. What the four
  properties say is then arithmetic: lemmas about truncation and rounding for each
  unit, and one lemma for each transformation of the document that says field by
  field what it changes and that it changes nothing else.
* The proof of `ChangesAreShown` failed at first for a good reason: a current request
  above the range of its column is clamped before the stored percentage is computed,
  and a cut of all of it is then shown as a cut of more than 100 percent. The
  property now excludes such requests (`CurrentFits`), and the run has one.

`Aggregation`:

* `GroupsAccounted`: `FileInv` speaks of one experiment at a time. An experiment whose
  group is still to be sent has left no trace in results, metrics and requests; one
  whose group is done has left exactly one payload of it (for some choice of the row
  that comes first at each end), one metrics row for each key of that payload, and one
  request for the latest end, or nothing if an end does not parse. This is inductive
  because the groups of two experiments differ (`GroupFacts`) and a step touches one.
* `MetricsFollow`: ends tell the results of one payload apart (`OneResult`), so the one
  row kept for a key holds an entry of the result asked about.
* `RowsAreAccounted`: the experiments of two rows are the same exactly when their owners
  are (`OwnerExperiment`), so with regular times the entries sent for a container and
  interval are those made of its own rows (`OwnEntries`). The key divides these rows
  into the ones each entry stands for (`EntryFibre`), and the sum, the count and the
  extremes of all are those of the parts (`SumByParts`, `MaxOfMaxima`, `MinOfMinima`).
* `RequestsAreWhole`: the entries of a container stand for its lots (`ContainerEntries`).
  The request of an entry is the total of its lot, or missing with one of the lot
  (`EntryRequest`), so those given stand for the rows whose whole lot has one
  (`GivenEntries`), and again the sum of all is that of the parts.
* `BadTimesCost`: in `FileInv` a result is one of some choice of first rows
  (`ResultMade`), so its start is that of a row with its end; the rows behind it
  (`BehindRows`) are divided among its entries, and their usage is that of the entries
  (`ResultUsage`).
* The sums are `SumFunction` of the community modules, a fold that is defined by
  recursion over sets. That the fold has a value for every finite set, that the value is
  a number, and that it is the sum of the values of disjoint parts is shown by way of a
  least counterexample: a set of subsets of a finite set that is not empty has a
  smallest member (`SmallestSet`), and taking one element from it gives a smaller one.
  This takes the place of the induction theorems that the provers cannot instantiate.
* The proof attempt found two mistakes in the model, which TLC confirmed on rows that
  the run has since. Two entries of one result that were equal in all they say (two
  spellings of an empty workload with the same usage) were one member of a set and
  counted once, although the code sends both; and the reference of `RequestsWhole` took a
  container without an image for one whose image does not matter.

Only model-checked: liveness (`EveryMessageHandled`, `EveryReportEnds`, `WalkEnds`,
`BothReturn`), which is out of the prover's reach.

## Findings

* **An exact cluster filter is overwritten.** `cluster=<uuid 1>` and
  `filter[exact:cluster]=<uuid 2>` make the same clause text, and the later
  `maps.Copy` (`api/utils.go:365`) replaces the arguments of the earlier one.
  Run `filters_exact`.

## Observations

Met while modelling; no run is about them.

* **Where a new group starts.** `kafka/consumer.go:36-67` does not set
  `auto.offset.reset`. A group without a committed offset starts at the end of the
  log: what was sent before its first consumer came is not delivered, and a crash
  before its first commit loses the message in hand and everything that was in the log
  by the next assignment. `NoSilentSkip`, `OnlyReportInHandLost`, `EveryMessageHandled`
  and `EveryReportEnds` leave these messages out (`start`), and no others.
* **A panic counts as success.** The deferred `recover` of the two transactions
  (`recommendation_poller.go:65-69` and `98-102`) rolls back and the function returns
  nil: the request is committed with nothing saved.
* **Results that never left.** A failed call of `Update_results` is logged and the
  loop goes on (`report_processor.go:185-189`). The request goes out all the same, for
  an end time Kruize may not have been given.

* **No previous link on the second page.** `api/utils.go:45` gives one only if
  `offset > limit`, and its comment says that the link is set for the previous page;
  the second page has `offset = limit`. A client that goes back from the last page
  stops on the second one.
* **Retention other than 15 days.** `tablePartitionCleaner.go:26` counts from the
  month of the current day, not of the threshold date. With `Retention = 30` the
  job of March 1st drops rows of February 15th (`YoungKept` does not hold).
* **`cluster_uuid` is not unique.** `docs/database/db-schema:22` and the gorm tag
  in `model/cluster.go:16` say it is; migration 2 makes four columns unique
  together. A cluster that reports under a second alias gets a second row. Both
  rows own workloads of the same experiments, and the housekeeper deletes the
  experiments and only one of the rows. `RowsKeepExperiment` is stated so that
  only workloads whose experiment the housekeeper began to delete, under whichever
  alias, may be without one.
* **A failed look-up counts as a missing workload.** `WorkloadExistsByID`
  (`model/workload.go:61`) answers no for any error of the database, and the request
  is then committed and lost; the model has the branch (`Exists`).
* **Limits -1 and 0.** Both are accepted. With -1 the query has no limit,
  yet `CollectionResponse` gives every page a next link whose offset is read back
  as 0; with 0 the link leads to the page it is on. A client that follows the links
  does not end, so `WalkEnds` is stated for positive limits (`Requests` of
  `listing`).
* **Count and select.** They are not in one transaction. A row that
  appears between them can push the last row off a page that the stale count calls
  the last; this is what `~torn` in `UnmovedSeen` excludes.
* **Deleted rows and offsets.** A client that is past a row that is deleted skips
  one that stays; this is what `~setback` excludes.
* **Downloads.** When a record fails, the error reaches the log only: the client
  gets a regular end of a file that lacks up to `CSVStreamInterval` records or
  ends in the middle of a row. When the client goes away, nobody closes the reading
  end of the pipe and the goroutine stays in its write.
* **Amounts of zero.** `omitempty` drops them from the blob. Such a value is shown
  with the format Kruize gave it, whatever unit was asked for; a request's change of
  zero gets its percentage from the column, a limit's does not.
* **Percentages and units.** The percentages of limits, and all of rows older than
  the columns, are computed from amounts that were cut in the unit asked for: they
  differ from unit to unit. This is why `StoredAsRecomputed` names cores and MiB.
* **Empty details.** The 404 for a row without recommendations
  (`api/handlers.go:134`) is out of reach, as the column is never empty. The
  namespace handlers answer every error with 200 and an empty object.
* **One end, two starts.** Rows of a file with the same `interval_end` and different
  starts make one result with the start of whichever comes first; for a namespace
  the values of the others are lost. `Regular` excludes it from `Accounted`;
  `TimesCost` says what is kept.
* **Image and workload in the key.** A container whose pods differ in image, or in
  the spelling of an empty workload, is in a result twice, and `workload_metrics`
  keeps one of the two.
* **Times that do not parse.** A bad end drops all intervals of the experiment, a
  bad start, when its row comes first, only its own interval; the request may then
  ask for an end that Kruize was never given. `TimesCost` and `ResultsBeforeRequest`
  allow both. The model's times have no zone: `ConvertDateToISO8601` writes the hour
  it is given and a `Z`, so an offset other than +0000 would be lost.
* **Missing requests.** One pod without a request or limit makes the metric vanish for
  all pods it is aggregated with: those of its container with the same workload, image
  and interval. Where the pods of a container differ in one of these, the container is
  in the result more than once, and may be given the total of some of its pods; one of
  its entries then has no request.
* **Links are unescaped.** `CollectionResponse` encodes the query and unescapes it again
  (`api/utils.go:36-54`): a value with `&`, `%` or `+` is another one in the link.
  `Listing` copies the parameters unchanged.

## Not modelled, and the plan

The parts that keep state and decide are modelled, and their safety properties are
proved. Where the model could go further: the contents of the createExperiment
payloads, and several parameters filtered at once.

Left out for good:

* **RBAC middleware and query filter**: which rows a caller may see is access
  control, decided by another service; the rows its clauses select are the `rows`
  of `Listing`.
* **API server, identity, status**: routing and header decoding by the framework;
  no state.
* **Configuration, logging, metrics, database connection**: set up once; settings
  that matter are constants.
* **Sources client, feature flags**: one call each, whose failure is a skip in
  `Ingest`.
* **Database commands**: developer tools that run alone.
* **createExperiment payloads**: they copy fields.
