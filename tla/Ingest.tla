------------------------------- MODULE Ingest -------------------------------
(***************************************************************************)
(* The report processor and the housekeeper, against the tables and the    *)
(* Kruize experiments they share.                                          *)
(*                                                                         *)
(* The reports are those of one cluster of one source.  A report lists     *)
(* files; a file holds groups of rows, one per Kruize experiment; of the   *)
(* intervals of a group, the ends count: those of its results, in order,   *)
(* and those it makes no result for, because their start does not parse.   *)
(* ProcessReport takes one step per remote call.  The processor's consumer *)
(* commits offsets on a timer (KAFKA_AUTO_COMMIT), whether or not the      *)
(* handler has returned.                                                   *)
(* The housekeeper handles the event that a source was destroyed.          *)
(***************************************************************************)
EXTENDS Integers, Sequences, FiniteSets

CONSTANTS
    Processors,  \* the replicas of rosocp-processor
    NoOwner,     \* the partition is assigned to nobody
    Aliases,     \* the names the cluster reports under
    Exps,        \* experiment names, which do not depend on the alias
    Settings,    \* what a behaviour may meet, see Setting
    Poison,      \* a message that fails JSON, decoding or validation
    ChunkSize,   \* KRUIZE_MAX_BULK_CHUNK_SIZE
    MaxMsgs,     \* bound on the length of a log
    MaxIds       \* bound on the ids each table gives out

Group == {g \in [exp : Exps, ends : Seq(Nat), dropped : SUBSET Nat] :
            g.ends # <<>> \/ g.dropped # {}}
Report == [alias : Aliases, files : Seq(SUBSET Group)]

(* The group has never committed an offset of this partition.              *)
NoOffset == -1

Setting ==
    [uploads  : SUBSET (Report \cup {Poison}),  \* messages of the topic
     msgs     : 0 .. MaxMsgs,  \* bound on the length of the log
     offset   : {NoOffset, 0},  \* what the group has committed before
     crashes  : BOOLEAN,  \* may a processor crash or be stopped?
     outlast  : BOOLEAN,  \* may a handler outlast max.poll.interval.ms?
     restarts : BOOLEAN,  \* may Kruize be restarted?
     destroys : BOOLEAN]  \* may the source be destroyed?

ASSUME OwnerAssumption == NoOwner \notin Processors
ASSUME SettingsAssumption ==
    /\ Poison \notin Report
    /\ \A s \in Settings :
          /\ s = [uploads |-> s.uploads, msgs |-> s.msgs,
                  offset |-> s.offset, crashes |-> s.crashes,
                  outlast |-> s.outlast, restarts |-> s.restarts,
                  destroys |-> s.destroys]
          /\ s.uploads \subseteq Report \cup {Poison} /\ s.msgs \in 0 .. MaxMsgs
          /\ s.offset \in {NoOffset, 0}
          /\ {s.crashes, s.outlast, s.restarts, s.destroys} \subseteq BOOLEAN
ASSUME ExpsAssumption == Exps # {}
ASSUME ChunkSizeAssumption == ChunkSize \in Nat \ {0}
ASSUME LimitsAssumption == MaxMsgs \in Nat /\ MaxIds \in Nat

VARIABLES
    setting,    \* a member of Settings, chosen once
    log,        \* the partition of the upload topic
    committed,  \* offset of the group
    start,      \* history: the end of the log when a consumer was last
                \* assigned the partition without a committed offset
    owner,      \* the consumer the partition is assigned to
    pc,         \* where each processor is in ProcessReport
    pos,        \* how many messages each consumer has read
    files,      \* handler: the files it has not begun
    todo,       \* handler: the groups of its file it has not begun
    grp,        \* handler: its group
    cid,        \* handler: cluster.ID, 0 until clusterCreated
    wid,        \* handler: workload.ID
    chunks,     \* handler: the chunks of its group it has not finished
    clusters,   \* table clusters: ids and aliases
    workloads,  \* table workloads
    metrics,    \* table workload_metrics
    lastIds,    \* the last id of clusters and of workloads
    exps,       \* Kruize: the experiments it has
    profile,    \* Kruize: has it loaded the performance profile?
    offered,    \* Kruize: the results it was ever sent
    requests,   \* recommendation topic: the requests it was ever sent
    hpc,        \* where the housekeeper is in sourcesListener
    hcid,       \* housekeeper: the cluster it deletes
    hexps,      \* housekeeper: the experiments it has not deleted yet
    ended,      \* history: messages some handler ran to its end
    cut,        \* history: messages whose handler was cut off by a crash
    tried,      \* history: results that were sent, or whose call failed,
                \* or that could not be made
    gone,       \* history: rows of workloads that were deleted
    begun       \* history: clusters whose experiments the housekeeper
                \* began to delete

kafkaVars == <<log, committed, start, owner>>
fileVars == <<files, todo, cid>>
groupVars == <<grp, wid, chunks>>
tableVars == <<clusters, workloads, metrics, lastIds>>
kruizeVars == <<exps, profile, offered>>
houseVars == <<hpc, hcid, hexps, begun, gone>>
ghostVars == <<ended, cut, tried>>
vars == <<kafkaVars, pc, pos, fileVars, groupVars, tableVars, kruizeVars,
          requests, houseVars, ghostVars>>

ClusterIds == {k.id : k \in clusters}
WorkloadIds == {w.id : w \in workloads}
NoGroup == [exp |-> CHOOSE e \in Exps : TRUE, ends |-> <<0>>,
            dropped |-> {}]

GoTo(p, label) == pc' = [pc EXCEPT ![p] = label]

(* The log is the part of the partition that the group has not committed:  *)
(* either it has committed all that came before, or nothing yet.           *)
Init ==
    /\ setting \in Settings
    /\ log = <<>> /\ owner = NoOwner
    /\ committed = setting.offset /\ start = 0
    /\ pc = [p \in Processors |-> "idle"]
    /\ pos = [p \in Processors |-> 0]
    /\ files = [p \in Processors |-> <<>>]
    /\ todo = [p \in Processors |-> {}]
    /\ grp = [p \in Processors |-> NoGroup]
    /\ cid = [p \in Processors |-> 0]
    /\ wid = [p \in Processors |-> 0]
    /\ chunks = [p \in Processors |-> <<>>]
    /\ clusters = {} /\ workloads = {} /\ metrics = {}
    /\ lastIds = [clusters |-> 0, workloads |-> 0]
    /\ exps = {} /\ profile = TRUE /\ offered = {}
    /\ requests = {}
    /\ hpc = "idle" /\ hcid = 0 /\ hexps = {}
    /\ ended = {} /\ cut = {} /\ tried = {} /\ begun = {} /\ gone = {}

-----------------------------------------------------------------------------
(* Helpers                                                                 *)

(* SliceMetricsUpdatePayloadToChunks.                                      *)
Slice_short(s) ==
    [i \in 1 .. Len(s) \div ChunkSize |->
        SubSeq(s, (i - 1) * ChunkSize + 1, i * ChunkSize)]

Slice(s) ==
    [i \in 1 .. (Len(s) + ChunkSize - 1) \div ChunkSize |->
        SubSeq(s, (i - 1) * ChunkSize + 1,
               IF i * ChunkSize < Len(s) THEN i * ChunkSize ELSE Len(s))]

ChunksOf(s) == IF Len(s) > ChunkSize THEN Slice(s) ELSE <<s>>

(* MaxIntervalEndTime, over all rows of the group.                         *)
Ends(s) == {s[i] : i \in 1 .. Len(s)}
IntervalEnds(g) == Ends(g.ends) \cup g.dropped
IsMaxEnd(g, t) == t \in IntervalEnds(g) /\ \A u \in IntervalEnds(g) : u <= t

(* The results of experiment e that end at the times T.                    *)
Results(e, T) == {[exp |-> e, end |-> t] : t \in T}
ResultsOf(g, chunk) == Results(g.exp, Ends(chunk))

(* The variables of the loop over groups end with their iteration.         *)
ForgetGroup(p) ==
    /\ grp' = [grp EXCEPT ![p] = NoGroup]
    /\ wid' = [wid EXCEPT ![p] = 0]
    /\ chunks' = [chunks EXCEPT ![p] = <<>>]

ForgetReport(p) ==
    /\ files' = [files EXCEPT ![p] = <<>>]
    /\ todo' = [todo EXCEPT ![p] = {}]
    /\ cid' = [cid EXCEPT ![p] = 0]

EndGroup(p) == GoTo(p, "group") /\ ForgetGroup(p)

-----------------------------------------------------------------------------
(* ProcessReport                                                           *)

(* A poison message is committed explicitly, if the commit succeeds.       *)
Receive(p) ==
    /\ owner = p
    /\ pc[p] = "idle"
    /\ pos[p] < Len(log)
    /\ pos' = [pos EXCEPT ![p] = @ + 1]
    /\ \/ /\ log[pos[p] + 1] = Poison
          /\ committed' \in {committed, pos[p] + 1}
          /\ ended' = ended \cup {pos[p] + 1}
          /\ UNCHANGED <<pc, files>>
       \/ /\ log[pos[p] + 1] # Poison
          /\ GoTo(p, "file")
          /\ files' = [files EXCEPT ![p] = log[pos[p] + 1].files]
          /\ UNCHANGED <<committed, ended>>
    /\ UNCHANGED <<log, start, owner, todo, cid, groupVars, tableVars,
                   kruizeVars, requests, houseVars, cut, tried>>

(* The next file is read, aggregated and its account is found or created;  *)
(* it is skipped if any of that fails or if it is a namespace file and     *)
(* namespace recommendations are off for the organisation.                 *)
NextFile(p) ==
    /\ pc[p] = "file"
    /\ files[p] # <<>>
    /\ files' = [files EXCEPT ![p] = Tail(@)]
    /\ \/ UNCHANGED <<pc, todo>>
       \/ /\ GoTo(p, IF cid[p] = 0 THEN "cluster" ELSE "group")
          /\ todo' = [todo EXCEPT ![p] = Head(files[p])]
    /\ UNCHANGED <<kafkaVars, pos, cid, groupVars, tableVars, kruizeVars,
                   requests, houseVars, ghostVars>>

EndReport(p) ==
    /\ pc[p] = "file"
    /\ files[p] = <<>>
    /\ GoTo(p, "idle")
    /\ ended' = ended \cup {pos[p]}
    /\ ForgetReport(p)
    /\ UNCHANGED <<kafkaVars, pos, groupVars, tableVars, kruizeVars,
                   requests, houseVars, cut, tried>>

(* INSERT ... ON CONFLICT (tenant, source, uuid, alias) DO UPDATE.         *)
CreateCluster(p) ==
    LET alias == log[pos[p]].alias
    IN /\ pc[p] = "cluster"
       /\ \/ /\ \E k \in clusters :
                   /\ k.alias = alias
                   /\ cid' = [cid EXCEPT ![p] = k.id]
             /\ GoTo(p, "group")
             /\ UNCHANGED <<todo, clusters, lastIds>>
          \/ /\ \A k \in clusters : k.alias # alias
             /\ lastIds.clusters < MaxIds
             /\ lastIds' = [lastIds EXCEPT !.clusters = @ + 1]
             /\ clusters' = clusters \cup {[id    |-> lastIds'.clusters,
                                            alias |-> alias]}
             /\ cid' = [cid EXCEPT ![p] = lastIds'.clusters]
             /\ GoTo(p, "group")
             /\ UNCHANGED todo
          \/ /\ GoTo(p, "file")
             /\ todo' = [todo EXCEPT ![p] = {}]
             /\ UNCHANGED <<cid, clusters, lastIds>>
       /\ UNCHANGED <<kafkaVars, pos, files, groupVars, workloads, metrics,
                      kruizeVars, requests, houseVars, ghostVars>>

EndFile(p) ==
    /\ pc[p] = "group"
    /\ todo[p] = {}
    /\ GoTo(p, "file")
    /\ UNCHANGED <<kafkaVars, pos, fileVars, groupVars, tableVars,
                   kruizeVars, requests, houseVars, ghostVars>>

(* Create_kruize_experiments for any of the groups left.  That it exists   *)
(* already is no error.  Kruize refuses while it has no performance        *)
(* profile; the profile is then set up and the request repeated once.  A   *)
(* request that failed on the way back may have been carried out.          *)
CreateExperiment(p) ==
    /\ pc[p] = "group"
    /\ \E g \in todo[p] :
          /\ todo' = [todo EXCEPT ![p] = @ \ {g}]
          /\ \/ /\ exps' = exps \cup {g.exp}
                /\ profile' = TRUE
                /\ grp' = [grp EXCEPT ![p] = g]
                /\ GoTo(p, "workload")
                /\ UNCHANGED <<wid, chunks>>
             \/ /\ exps' \in {exps, exps \cup {g.exp}}
                /\ profile' \in {profile, TRUE}
                /\ EndGroup(p)
    /\ UNCHANGED <<kafkaVars, pos, files, cid, tableVars, offered, requests,
                   houseVars, ghostVars>>

(* GetUpdateResultPayload: no result is made for an interval whose start   *)
(* does not parse.                                                         *)
MakeResults(p) ==
    /\ chunks' = [chunks EXCEPT ![p] = ChunksOf(grp[p].ends)]
    /\ tried' = tried \cup Results(grp[p].exp, grp[p].dropped)

(* INSERT ... ON CONFLICT (org, cluster, experiment) DO UPDATE; it fails   *)
(* when the cluster is gone (foreign key) or for any other reason.         *)
CreateWorkload_nofk(p) ==
    /\ pc[p] = "workload"
    /\ \/ /\ lastIds.workloads < MaxIds
          /\ lastIds' = [lastIds EXCEPT !.workloads = @ + 1]
          /\ workloads' = workloads \cup {[id  |-> lastIds'.workloads,
                                           cid |-> cid[p],
                                           exp |-> grp[p].exp]}
          /\ wid' = [wid EXCEPT ![p] = lastIds'.workloads]
          /\ MakeResults(p)
          /\ GoTo(p, "post")
          /\ UNCHANGED grp
       \/ EndGroup(p) /\ UNCHANGED <<workloads, lastIds, tried>>
    /\ UNCHANGED <<kafkaVars, pos, fileVars, clusters, metrics, kruizeVars,
                   requests, houseVars, ended, cut>>

CreateWorkload_goon(p) ==
    /\ pc[p] = "workload"
    /\ GoTo(p, "post")
    /\ MakeResults(p)
    /\ \/ /\ cid[p] \in ClusterIds
          /\ lastIds.workloads < MaxIds
          /\ lastIds' = [lastIds EXCEPT !.workloads = @ + 1]
          /\ workloads' = workloads \cup {[id  |-> lastIds'.workloads,
                                           cid |-> cid[p],
                                           exp |-> grp[p].exp]}
          /\ wid' = [wid EXCEPT ![p] = lastIds'.workloads]
       \/ UNCHANGED <<wid, workloads, lastIds>>
    /\ UNCHANGED <<kafkaVars, pos, fileVars, grp, clusters, metrics,
                   kruizeVars, requests, houseVars, ended, cut>>

CreateWorkload(p) ==
    /\ pc[p] = "workload"
    /\ \/ /\ cid[p] \in ClusterIds
          /\ \/ /\ \E w \in workloads :
                      /\ w.cid = cid[p] /\ w.exp = grp[p].exp
                      /\ wid' = [wid EXCEPT ![p] = w.id]
                /\ UNCHANGED <<workloads, lastIds>>
             \/ /\ \A w \in workloads : w.cid # cid[p] \/ w.exp # grp[p].exp
                /\ lastIds.workloads < MaxIds
                /\ lastIds' = [lastIds EXCEPT !.workloads = @ + 1]
                /\ workloads' = workloads \cup {[id  |-> lastIds'.workloads,
                                                 cid |-> cid[p],
                                                 exp |-> grp[p].exp]}
                /\ wid' = [wid EXCEPT ![p] = lastIds'.workloads]
          /\ MakeResults(p)
          /\ GoTo(p, "post")
          /\ UNCHANGED grp
       \/ EndGroup(p) /\ UNCHANGED <<workloads, lastIds, tried>>
    /\ UNCHANGED <<kafkaVars, pos, fileVars, clusters, metrics, kruizeVars,
                   requests, houseVars, ended, cut>>

(* Update_results for the next chunk.  An answer with errors in it counts  *)
(* as success; a call that fails drops the chunk, whether Kruize was given *)
(* its results or the call never left.  Without the profile, the profile   *)
(* is set up and the call repeated, as often as it takes.                  *)
NextResults(p) == ResultsOf(grp[p], Head(chunks[p]))

Offer(p) ==
    /\ pc[p] = "post"
    /\ chunks[p] # <<>>
    /\ offered' = offered \cup NextResults(p)
    /\ tried' = tried \cup NextResults(p)

PostResults(p) ==
    /\ Offer(p)
    /\ profile
    /\ GoTo(p, "insert")
    /\ UNCHANGED <<kafkaVars, pos, fileVars, groupVars, tableVars, exps,
                   profile, requests, houseVars, ended, cut>>

PostFailed(p) ==
    /\ pc[p] = "post"
    /\ chunks[p] # <<>>
    /\ offered' \in {offered, offered \cup NextResults(p)}
    /\ tried' = tried \cup NextResults(p)
    /\ chunks' = [chunks EXCEPT ![p] = Tail(@)]
    /\ UNCHANGED <<kafkaVars, pc, pos, fileVars, grp, wid, tableVars, exps,
                   profile, requests, houseVars, ended, cut>>

SetupProfile_fails(p) ==
    /\ Offer(p)
    /\ ~profile
    /\ UNCHANGED <<kafkaVars, pc, pos, fileVars, groupVars, tableVars, exps,
                   profile, requests, houseVars, ended, cut>>

SetupProfile(p) ==
    /\ Offer(p)
    /\ ~profile
    /\ profile' = TRUE
    /\ UNCHANGED <<kafkaVars, pc, pos, fileVars, groupVars, tableVars, exps,
                   requests, houseVars, ended, cut>>

(* BatchInsertWorkloadMetrics: ON CONFLICT DO NOTHING; it fails when the   *)
(* workload is gone, when a partition is missing or for any other reason.  *)
InsertMetrics(p) ==
    /\ pc[p] = "insert"
    /\ \/ /\ wid[p] \in WorkloadIds
          /\ metrics' = metrics \cup {[wid |-> wid[p], end |-> t] :
                                         t \in Ends(Head(chunks[p]))}
       \/ UNCHANGED metrics
    /\ chunks' = [chunks EXCEPT ![p] = Tail(@)]
    /\ GoTo(p, "post")
    /\ UNCHANGED <<kafkaVars, pos, fileVars, grp, wid, clusters, workloads,
                   lastIds, kruizeVars, requests, houseVars, ghostVars>>

(* SendMessage asks for a recommendation; after its retries it gives up.   *)
SendRequest(p) ==
    /\ pc[p] = "post"
    /\ chunks[p] = <<>>
    /\ \/ \E t \in IntervalEnds(grp[p]) :
             /\ IsMaxEnd(grp[p], t)
             /\ requests' = requests \cup {[wid |-> wid[p],
                                            exp |-> grp[p].exp, end |-> t]}
       \/ UNCHANGED requests
    /\ EndGroup(p)
    /\ UNCHANGED <<kafkaVars, pos, fileVars, tableVars, kruizeVars,
                   houseVars, ghostVars>>

Progress(p) ==
    \/ Receive(p) \/ NextFile(p) \/ EndReport(p) \/ CreateCluster(p)
    \/ EndFile(p) \/ CreateExperiment(p) \/ CreateWorkload(p)
    \/ PostResults(p) \/ SetupProfile(p) \/ InsertMetrics(p)
    \/ SendRequest(p)

Step(p) == Progress(p) \/ PostFailed(p)

-----------------------------------------------------------------------------
(* The consumer group and Kruize                                           *)

(* An offset is stored when a message is handed to the handler; the timer  *)
(* commits what is stored, handled or not.                                 *)
Stored(p) == IF pos[p] > start THEN pos[p] ELSE committed

AutoCommit_next(p) ==
    /\ owner = p
    /\ committed < Stored(p)
    /\ committed' = Stored(p) + 1
    /\ UNCHANGED <<log, start, owner, pc, pos, fileVars, groupVars, tableVars,
                   kruizeVars, requests, houseVars, ghostVars>>

AutoCommit(p) ==
    /\ owner = p
    /\ committed < Stored(p)
    /\ committed' = Stored(p)
    /\ UNCHANGED <<log, start, owner, pc, pos, fileVars, groupVars, tableVars,
                   kruizeVars, requests, houseVars, ghostVars>>

(* Between two messages a signal makes the consumer close, which commits.  *)
Close(p) ==
    /\ setting.crashes
    /\ owner = p
    /\ pc[p] = "idle"
    /\ committed' \in {committed, Stored(p)}
    /\ owner' = NoOwner
    /\ UNCHANGED <<log, start, pc, pos, fileVars, groupVars, tableVars,
                   kruizeVars, requests, houseVars, ghostVars>>

(* A consumer starts at the committed offset.  Where there is none it      *)
(* starts at the end of the log: it does not set auto.offset.reset, whose  *)
(* default is the latest offset.                                           *)
StartOffset == IF committed = NoOffset THEN Len(log) ELSE committed

Skip == start' = IF committed = NoOffset THEN Len(log) ELSE start

Assign_latest(p) ==
    /\ owner # p
    /\ pc[p] = "idle"
    /\ owner # NoOwner => setting.outlast \/ pc[owner] = "idle"
    /\ owner' = p
    /\ pos' = [pos EXCEPT ![p] = Len(log)]
    /\ Skip
    /\ UNCHANGED <<log, committed, pc, fileVars, groupVars, tableVars,
                   kruizeVars, requests, houseVars, ghostVars>>

Assign(p) ==
    /\ owner # p
    /\ pc[p] = "idle"
    /\ owner # NoOwner => setting.outlast \/ pc[owner] = "idle"
    /\ owner' = p
    /\ pos' = [pos EXCEPT ![p] = StartOffset]
    /\ Skip
    /\ UNCHANGED <<log, committed, pc, fileVars, groupVars, tableVars,
                   kruizeVars, requests, houseVars, ghostVars>>

Crash(p) ==
    /\ setting.crashes
    /\ pc[p] # "idle"
    /\ owner' = IF owner = p THEN NoOwner ELSE owner
    /\ GoTo(p, "idle")
    /\ cut' = cut \cup {pos[p]}
    /\ ForgetGroup(p)
    /\ ForgetReport(p)
    /\ UNCHANGED <<log, committed, start, pos, tableVars, kruizeVars,
                   requests, houseVars, ended, tried>>

Upload ==
    /\ Len(log) < setting.msgs
    /\ \E m \in setting.uploads : log' = Append(log, m)
    /\ UNCHANGED <<committed, start, owner, pc, pos, fileVars, groupVars,
                   tableVars, kruizeVars, requests, houseVars, ghostVars>>

(* A Kruize pod that starts does not load the profile from its database.   *)
RestartKruize ==
    /\ setting.restarts
    /\ profile
    /\ profile' = FALSE
    /\ UNCHANGED <<kafkaVars, pc, pos, fileVars, groupVars, tableVars, exps,
                   offered, requests, houseVars, ghostVars>>

-----------------------------------------------------------------------------
(* sourcesListener, for the event that the source was destroyed            *)

FindCluster ==
    /\ setting.destroys
    /\ hpc = "idle"
    /\ \E k \in clusters :
          /\ \A o \in clusters : k.id <= o.id
          /\ hcid' = k.id
    /\ hpc' = "list"
    /\ UNCHANGED <<kafkaVars, pc, pos, fileVars, groupVars, tableVars,
                   kruizeVars, requests, hexps, begun, gone, ghostVars>>

ListWorkloads ==
    /\ hpc = "list"
    /\ \/ /\ hexps' = {w.exp : w \in {v \in workloads : v.cid = hcid}}
          /\ hpc' = "delete"
          /\ begun' = begun \cup {k \in clusters : k.id = hcid}
       \/ /\ hpc' = "idle"
          /\ UNCHANGED <<hexps, begun>>
    /\ UNCHANGED <<kafkaVars, pc, pos, fileVars, groupVars, tableVars,
                   kruizeVars, requests, hcid, gone, ghostVars>>

(* DeleteExperimentFromKruize logs an error and goes on.                   *)
DeleteExperiment ==
    /\ hpc = "delete"
    /\ \E e \in hexps :
          /\ hexps' = hexps \ {e}
          /\ exps' \in {exps, exps \ {e}}
    /\ UNCHANGED <<kafkaVars, pc, pos, fileVars, groupVars, tableVars,
                   profile, offered, requests, hpc, hcid, begun, gone,
                   ghostVars>>

(* DELETE ... WHERE source_id = ? AND id = ?; the foreign keys cascade.    *)
DeleteCluster_nocascade ==
    /\ hpc = "delete"
    /\ hexps = {}
    /\ hpc' = "idle"
    /\ clusters' = {k \in clusters : k.id # hcid}
    /\ workloads' = {w \in workloads : w.cid # hcid}
    /\ gone' = gone \cup (workloads \ workloads')
    /\ UNCHANGED <<kafkaVars, pc, pos, fileVars, groupVars, metrics, lastIds,
                   kruizeVars, requests, hcid, hexps, begun, ghostVars>>

DeleteCluster ==
    /\ hpc = "delete"
    /\ hexps = {}
    /\ hpc' = "idle"
    /\ \/ /\ clusters' = {k \in clusters : k.id # hcid}
          /\ workloads' = {w \in workloads : w.cid # hcid}
          /\ metrics' = {m \in metrics :
                           \E w \in workloads' : w.id = m.wid}
          /\ gone' = gone \cup (workloads \ workloads')
       \/ UNCHANGED <<clusters, workloads, metrics, gone>>
    /\ UNCHANGED <<kafkaVars, pc, pos, fileVars, groupVars, lastIds,
                   kruizeVars, requests, hcid, hexps, begun, ghostVars>>

CrashHousekeeper ==
    /\ hpc = "delete"
    /\ hpc' = "idle"
    /\ hexps' = {}
    /\ UNCHANGED <<kafkaVars, pc, pos, fileVars, groupVars, tableVars,
                   kruizeVars, requests, hcid, begun, gone, ghostVars>>

Housekeep ==
    \/ FindCluster \/ ListWorkloads \/ DeleteExperiment \/ DeleteCluster
    \/ CrashHousekeeper

-----------------------------------------------------------------------------
Next ==
    \/ \E p \in Processors :
          Step(p) \/ AutoCommit(p) \/ Close(p) \/ Assign(p) \/ Crash(p)
    \/ Upload
    \/ RestartKruize
    \/ Housekeep

Spec == Init /\ [][Next /\ UNCHANGED setting]_<<vars, setting>>

(* A handler keeps running: that Kruize answers and takes the profile in   *)
(* the end is an assumption, since /updateResults is called without a      *)
(* timeout and repeated without a limit.  The broker assigns a partition   *)
(* nobody owns.  Crashes, restarts of Kruize and reassignments of an owned *)
(* partition end at some point.                                            *)
Disturbance ==
    \/ RestartKruize
    \/ \E p \in Processors :
          Close(p) \/ Crash(p) \/ (owner # NoOwner /\ Assign(p))

Fairness ==
    /\ \A p \in Processors : WF_vars(Progress(p))
    /\ WF_vars(owner = NoOwner /\ \E p \in Processors : Assign(p))
    /\ <>[][~Disturbance]_vars

FairSpec == Spec /\ Fairness

-----------------------------------------------------------------------------
(* Properties                                                              *)

Labels == {"idle", "file", "cluster", "group", "workload", "post", "insert"}

(* Every variable has its type; no id is given out twice.                  *)
TypeOK ==
    /\ setting \in Settings
    /\ log \in Seq(setting.uploads)
    /\ committed \in {NoOffset} \cup 0 .. Len(log)
    /\ start \in 0 .. Len(log)
    /\ owner \in Processors \cup {NoOwner}
    /\ pc \in [Processors -> Labels]
    /\ pos \in [Processors -> 0 .. Len(log)]
    /\ files \in [Processors -> Seq(SUBSET Group)]
    /\ todo \in [Processors -> SUBSET Group]
    /\ grp \in [Processors -> Group]
    /\ lastIds \in [clusters : 0 .. MaxIds, workloads : 0 .. MaxIds]
    /\ cid \in [Processors -> 0 .. lastIds.clusters]
    /\ wid \in [Processors -> 0 .. lastIds.workloads]
    /\ chunks \in [Processors -> Seq(Seq(Nat))]
    /\ clusters \subseteq [id : 1 .. lastIds.clusters, alias : Aliases]
    /\ workloads \subseteq [id  : 1 .. lastIds.workloads,
                            cid : 1 .. lastIds.clusters, exp : Exps]
    /\ metrics \subseteq [wid : 1 .. lastIds.workloads, end : Nat]
    /\ exps \subseteq Exps
    /\ profile \in BOOLEAN
    /\ offered \subseteq [exp : Exps, end : Nat]
    /\ requests \subseteq [wid : 0 .. lastIds.workloads, exp : Exps, end : Nat]
    /\ hpc \in {"idle", "list", "delete"}
    /\ hcid \in 0 .. lastIds.clusters
    /\ hexps \subseteq Exps
    /\ ended \subseteq 1 .. Len(log)
    /\ cut \subseteq 1 .. Len(log)
    /\ tried \subseteq [exp : Exps, end : Nat]
    /\ begun \subseteq [id : 1 .. lastIds.clusters, alias : Aliases]
    /\ gone \subseteq [id  : 1 .. lastIds.workloads,
                       cid : 1 .. lastIds.clusters, exp : Exps]

(* The offset is committed on a timer while the handler runs, so a crash   *)
(* loses the report in hand, but never another one: not counted are those  *)
(* that were in the log when a consumer was assigned the partition before  *)
(* the group's first commit, since it starts at the end of the log.        *)
OnlyReportInHandLost ==
    \A i \in start + 1 .. committed :
       \/ i \in ended \cup cut
       \/ \E p \in Processors : pc[p] # "idle" /\ pos[p] = i

(* The processors and the housekeeper, whatever fails and however they     *)
(* interleave, keep what the poller relies on: a request names a row that  *)
(* was upserted for its experiment (the poller asks Kruize for the one and *)
(* saves under the other), ids are not used twice, deleted rows stay gone. *)
RowsOf(W) == {[id |-> w.id, exp |-> w.exp] : w \in W}
AskedOf(R) == {[id |-> r.wid, exp |-> r.exp] : r \in R}

TheFeed == INSTANCE Feed
             WITH Row   <- [id : 1 .. MaxIds, exp : Exps],
                  live  <- RowsOf(workloads),
                  gone  <- RowsOf(gone),
                  asked <- AskedOf(requests)
FeedSpec == TheFeed!Spec

(* When the poller is asked for the recommendation at an end time, every   *)
(* result of the report was tried, whichever chunk it is in and whichever  *)
(* calls failed before it: Kruize was sent it, its call failed, or its     *)
(* start did not parse.  No chunk is forgotten, and the end asked for is   *)
(* one of them.                                                            *)
ResultsBeforeRequest ==
    /\ \A r \in requests : [exp |-> r.exp, end |-> r.end] \in tried
    /\ \A p \in Processors :
          pc[p] = "post" /\ chunks[p] = <<>> =>
             \A t \in IntervalEnds(grp[p]) :
                [exp |-> grp[p].exp, end |-> t] \in tried

(* Metrics belong to a workload that is there, and Kruize was sent them    *)
(* under the experiment of that workload.                                  *)
MetricsAccounted ==
    \A m \in metrics :
       \E w \in workloads :
          w.id = m.wid /\ [exp |-> w.exp, end |-> m.end] \in offered

(* The experiment of a workload row exists in Kruize, unless the           *)
(* housekeeper is deleting the row's cluster or gave up deleting it; the   *)
(* report that is processed meanwhile changes nothing about that.  A       *)
(* cluster that changed its alias has two rows, whose workloads share      *)
(* their experiments: it may also have deleted them for the other one.     *)
RowsKeepExperiment ==
    \A w \in workloads :
       \/ w.exp \in exps
       \/ \E k \in clusters, b \in begun :
             /\ k.id = w.cid
             /\ b.id = k.id \/ b.alias # k.alias

(* Whatever calls fail, a handler ends, and every report of the topic is   *)
(* handled to its end or cut off by a crash, unless a consumer assigned    *)
(* before the group's first commit started behind it.                      *)
EveryReportEnds ==
    \A i \in 1 .. MaxMsgs :
       Len(log) >= i ~> i \in ended \cup cut \/ i <= start
=============================================================================
