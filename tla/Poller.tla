------------------------------- MODULE Poller -------------------------------
(***************************************************************************)
(* The recommendation poller: the consumers of one partition of the        *)
(* recommendation topic, each of which runs PollForRecommendations on one  *)
(* message at a time, against the shared database and Kruize.  The handler *)
(* takes one step per remote call (read the stored row, check that the     *)
(* workload exists, ask Kruize, run the transaction, commit the offset);   *)
(* the report processor, the housekeeper, the other consumers of the group *)
(* and crashes come in between.                                            *)
(*                                                                         *)
(* Messages are keyed by experiment name, so all messages of one workload  *)
(* are in one partition, in the order they were sent.                      *)
(***************************************************************************)
EXTENDS Tables, Sequences, FiniteSets

CONSTANTS
    Pollers,           \* the replicas of rosocp-recommendation-poller
    NoOwner,           \* the partition is assigned to nobody
    Clusters,          \* rows of table clusters
    ClusterOf,         \* the cluster a workload belongs to
    Poison,            \* a message that fails JSON, decoding or validation
    NamespaceOff,      \* the replicas with DISABLE_NAMESPACE_RECOMMENDATION;
                       \* not all of them while a setting is rolled out
    Outlast,           \* may a handler outlast max.poll.interval.ms?
    Hanging,           \* the replicas whose call to Kruize may never return
    Copies,            \* how often a request may arrive: not at all when
                       \* SendMessage gives up, more than once when a
                       \* retried attempt did arrive
    MaxMsgs            \* bound on the length of the log

ASSUME PollersAssumption == NoOwner \notin Pollers
ASSUME ClusterAssumption == ClusterOf \in [Workloads -> Clusters]
ASSUME HangingAssumption == Hanging \subseteq Pollers /\ (Hanging # {} => Outlast)
ASSUME OutlastAssumption == Outlast \in BOOLEAN /\ NamespaceOff \subseteq Pollers
ASSUME PoisonAssumption == Poison \notin [w : Workloads, end : Times]
ASSUME MaxMsgsAssumption == MaxMsgs \in Nat /\ Copies \subseteq Nat

VARIABLES
    log,        \* the partition: messages and poison
    committed,  \* offset of the group: how many messages are committed
    start,      \* history: the end of the log when a consumer was last
                \* assigned the partition without a committed offset
    owner,      \* the consumer the partition is assigned to
    pc,         \* where each consumer is in its handler
    pos,        \* how many messages each consumer has read; the last is
                \* the one it handles
    stored,     \* handler: end time of the row it read, or NoRec
    batch,      \* handler: the valid recommendations of Kruize's answer
    settled,    \* history: messages some handler decided to commit
    failed,     \* history: messages some handler gave up on
    wstate,     \* table workloads: new, live or gone
    recs,       \* tables of current recommendations
    hist,       \* tables of historical recommendations
    parts,      \* half months with a partition of the container history
    dropped     \* history: half months whose partition was dropped

storeVars == <<wstate, recs, hist>>
partVars == <<parts, dropped>>
ghostVars == <<settled, failed>>
handlerVars == <<pc, pos, stored, batch>>
kafkaVars == <<log, committed, start, owner>>
vars == <<kafkaVars, handlerVars, ghostVars, storeVars, partVars>>

Message == [w : Workloads, end : Times]
Halves == {HalfOf[t] : t \in Times}
Labels == {"idle", "lookup", "exists", "fetch", "save", "commit"}

(* The group has never committed an offset of this partition.              *)
NoOffset == -1

(* The message that p handles.                                             *)
Msg(p) == log[pos[p]]
W(p) == Msg(p).w

(* The log is the part of the partition that the group has not committed:  *)
(* either it has committed all that came before, or nothing yet.           *)
Init ==
    /\ log = <<>>
    /\ committed \in {NoOffset, 0}
    /\ start = 0
    /\ owner = NoOwner
    /\ pc = [p \in Pollers |-> "idle"]
    /\ pos = [p \in Pollers |-> 0]
    /\ stored = [p \in Pollers |-> NoRec]
    /\ batch = [p \in Pollers |-> EmptyBatch]
    /\ settled = {}
    /\ failed = {}
    /\ wstate = [w \in Workloads |-> "new"]
    /\ recs = [w \in Workloads |-> EmptyRows]
    /\ hist = [w \in Workloads |-> {}]
    /\ parts = {}
    /\ dropped = {}

-----------------------------------------------------------------------------
(* The handler                                                             *)

(* The locals of a handler are not used after it settles or returns.       *)
Forget(p) ==
    /\ stored' = [stored EXCEPT ![p] = NoRec]
    /\ batch' = [batch EXCEPT ![p] = EmptyBatch]

GoTo(p, label) == pc' = [pc EXCEPT ![p] = label]

(* The handler is done but for its call of commitKafkaMsg.                 *)
Settle(p) ==
    /\ GoTo(p, "commit")
    /\ Forget(p)
    /\ settled' = settled \cup {pos[p]}
    /\ UNCHANGED <<pos, failed>>

(* The handler returns without a commit; the consumer reads on.            *)
Fail_seek(p) ==
    /\ GoTo(p, "idle")
    /\ Forget(p)
    /\ pos' = [pos EXCEPT ![p] = @ - 1]
    /\ UNCHANGED ghostVars

Fail_commit(p) ==
    /\ GoTo(p, "commit")
    /\ Forget(p)
    /\ failed' = failed \cup {pos[p]}
    /\ UNCHANGED <<pos, settled>>

Fail(p) ==
    /\ GoTo(p, "idle")
    /\ Forget(p)
    /\ failed' = failed \cup {pos[p]}
    /\ UNCHANGED <<pos, settled>>

(* ReadMessage hands the next message to the handler, which commits what   *)
(* it can never handle: poison, and namespace messages where namespace     *)
(* recommendations are disabled.                                           *)
Unhandled(p, m) ==
    \/ m = Poison
    \/ m # Poison /\ p \in NamespaceOff /\ m.w \in NamespaceWorkloads

Receive(p) ==
    /\ owner = p
    /\ pc[p] = "idle"
    /\ pos[p] < Len(log)
    /\ pos' = [pos EXCEPT ![p] = @ + 1]
    /\ \/ /\ Unhandled(p, log[pos[p] + 1])
          /\ GoTo(p, "commit")
          /\ settled' = settled \cup {pos[p] + 1}
       \/ /\ ~Unhandled(p, log[pos[p] + 1])
          /\ GoTo(p, "lookup")
          /\ UNCHANGED settled
    /\ UNCHANGED <<kafkaVars, stored, batch, failed, storeVars, partVars>>

(* GetFirst...RecommendationSetsByWorkloadID: the first row by primary     *)
(* key, no row, or an error of the database.                               *)
Lookup(p) ==
    /\ pc[p] = "lookup"
    /\ \/ /\ GoTo(p, "exists")
          /\ \/ /\ \A c \in Names : ~IsFirst(recs[W(p)], c)
                /\ stored' = [stored EXCEPT ![p] = NoRec]
             \/ \E c \in Names :
                   /\ IsFirst(recs[W(p)], c)
                   /\ stored' = [stored EXCEPT ![p] = recs[W(p)][c].end]
          /\ UNCHANGED <<pos, batch, ghostVars>>
       \/ Fail(p)
    /\ UNCHANGED <<kafkaVars, storeVars, partVars>>

(* The message is committed when the stored row is not due, when it has    *)
(* the zero time, and when WorkloadExistsByID answers no: the workload is  *)
(* gone or the query failed for whatever reason.                           *)
Due_always(p) == TRUE

Due(p) == stored[p] = NoRec \/ NeedsPoll(stored[p], Msg(p).end)

Exists(p) ==
    /\ pc[p] = "exists"
    /\ \/ /\ wstate[W(p)] = "live"
          /\ Due(p)
          /\ GoTo(p, "fetch")
          /\ UNCHANGED <<pos, stored, batch, ghostVars>>
       \/ Settle(p)
    /\ UNCHANGED <<kafkaVars, storeVars, partVars>>

(* Kruize does not answer, refuses, answers with nothing or with the wrong *)
(* experiment type: the cycle is not complete.  It answers with no valid   *)
(* recommendation: the cycle is complete.                                  *)
Fetch(p) ==
    /\ pc[p] = "fetch"
    /\ \/ /\ \E b \in Answers(W(p), Msg(p).end) \ {EmptyBatch} :
                batch' = [batch EXCEPT ![p] = b]
          /\ GoTo(p, "save")
          /\ UNCHANGED <<pos, stored, ghostVars>>
       \/ Settle(p)
       \/ Fail(p)
    /\ UNCHANGED <<kafkaVars, storeVars, partVars>>

(* One transaction writes the current rows and the history.  It cannot     *)
(* commit when the workload is gone (foreign key) or an end time has no    *)
(* partition, and it may fail for any other reason; an error of the COMMIT *)
(* itself does not tell whether the database carried it out.  A panic is   *)
(* recovered and rolled back; the function then returns no error, and the  *)
(* message counts as handled.                                              *)
CanCommit_nofk(p) ==
    \A c \in Names :
       batch[p][c] # Null => HasPartition(W(p), batch[p][c].end, parts)

CanCommit_nopart(p) == wstate[W(p)] = "live"

CanCommit(p) ==
    /\ wstate[W(p)] = "live"
    /\ \A c \in Names :
          batch[p][c] # Null => HasPartition(W(p), batch[p][c].end, parts)

Transaction_half(p) ==
    /\ CanCommit(p)
    /\ \E ids \in FreshIds(recs[W(p)], batch[p]) :
          recs' = [recs EXCEPT ![W(p)] = Upsert(@, batch[p], ids)]
    /\ hist' \in {hist, [hist EXCEPT ![W(p)] = HistoryAfter(W(p), @, batch[p])]}
    /\ UNCHANGED wstate

Transaction(p) ==
    /\ CanCommit(p)
    /\ \E ids \in FreshIds(recs[W(p)], batch[p]) :
          recs' = [recs EXCEPT ![W(p)] = Upsert(@, batch[p], ids)]
    /\ hist' = [hist EXCEPT ![W(p)] = HistoryAfter(W(p), @, batch[p])]
    /\ UNCHANGED wstate

Save(p) ==
    /\ pc[p] = "save"
    /\ \/ Transaction(p) /\ (Settle(p) \/ Fail(p))
       \/ (Settle(p) \/ Fail(p)) /\ UNCHANGED storeVars
    /\ UNCHANGED <<kafkaVars, partVars>>

(* commitKafkaMsg: the broker takes the offset only from the consumer that *)
(* owns the partition; an error is logged and the handler returns.         *)
Commit_over(p) ==
    /\ pc[p] = "commit"
    /\ \/ owner = p /\ committed' = pos[p] + 1
       \/ UNCHANGED committed
    /\ GoTo(p, "idle")
    /\ UNCHANGED <<log, start, owner, pos, stored, batch, ghostVars, storeVars,
                   partVars>>

Commit_zombie(p) ==
    /\ pc[p] = "commit"
    /\ \/ committed' = pos[p]
       \/ UNCHANGED committed
    /\ GoTo(p, "idle")
    /\ UNCHANGED <<log, start, owner, pos, stored, batch, ghostVars, storeVars,
                   partVars>>

Commit(p) ==
    /\ pc[p] = "commit"
    /\ \/ owner = p /\ committed' = pos[p]
       \/ UNCHANGED committed
    /\ GoTo(p, "idle")
    /\ UNCHANGED <<log, start, owner, pos, stored, batch, ghostVars, storeVars,
                   partVars>>

Step(p) ==
    Receive(p) \/ Lookup(p) \/ Exists(p) \/ Fetch(p) \/ Save(p) \/ Commit(p)

-----------------------------------------------------------------------------
(* The consumer group                                                      *)

(* The partition is assigned to p, which starts at the committed offset.   *)
(* Where there is none it starts at the end of the log: the consumer does  *)
(* not set auto.offset.reset, whose default is the latest offset.          *)
StartOffset == IF committed = NoOffset THEN Len(log) ELSE committed

Skip == start' = IF committed = NoOffset THEN Len(log) ELSE start

(* A consumer whose handler is running leaves the group only if it exceeds *)
(* max.poll.interval.ms; its handler then runs on.                         *)
Assign_latest(p) ==
    /\ owner # p
    /\ pc[p] = "idle"
    /\ owner # NoOwner => Outlast \/ pc[owner] = "idle"
    /\ owner' = p
    /\ pos' = [pos EXCEPT ![p] = Len(log)]
    /\ Skip
    /\ UNCHANGED <<log, committed, pc, stored, batch, ghostVars, storeVars,
                   partVars>>

Assign_waits(p) ==
    /\ owner # p
    /\ pc[p] = "idle"
    /\ owner # NoOwner => pc[owner] = "idle"
    /\ owner' = p
    /\ pos' = [pos EXCEPT ![p] = StartOffset]
    /\ Skip
    /\ UNCHANGED <<log, committed, pc, stored, batch, ghostVars, storeVars,
                   partVars>>

Assign(p) ==
    /\ owner # p
    /\ pc[p] = "idle"
    /\ owner # NoOwner => Outlast \/ pc[owner] = "idle"
    /\ owner' = p
    /\ pos' = [pos EXCEPT ![p] = StartOffset]
    /\ Skip
    /\ UNCHANGED <<log, committed, pc, stored, batch, ghostVars, storeVars,
                   partVars>>

(* The process dies (SIGTERM ends it too); a restarted one is idle.        *)
Crash(p) ==
    /\ owner = p \/ pc[p] # "idle"
    /\ owner' = IF owner = p THEN NoOwner ELSE owner
    /\ GoTo(p, "idle")
    /\ pos' = [pos EXCEPT ![p] = 0]
    /\ Forget(p)
    /\ UNCHANGED <<log, committed, start, ghostVars, storeVars, partVars>>

-----------------------------------------------------------------------------
(* The other writers                                                       *)

(* The report processor upserts the workload of a report that ends at t,   *)
(* whose insert trigger creates the partitions of that half month and the  *)
(* one before, and asks for a recommendation.                              *)
Report(w, t, copies) ==
    /\ wstate[w] \in {"new", "live"}
    /\ Len(log) + copies <= MaxMsgs
    /\ wstate' = [wstate EXCEPT ![w] = "live"]
    /\ parts' = parts \cup {HalfOf[t], HalfOf[t] - 1}
    /\ log' = log \o [i \in 1 .. copies |-> [w |-> w, end |-> t]]
    /\ UNCHANGED <<committed, start, owner, handlerVars, ghostVars, recs, hist,
                   dropped>>

(* The request for a workload that the housekeeper deleted after its       *)
(* upsert, while the processor was still busy with the results.            *)
LateRequest(w, t) ==
    /\ wstate[w] = "gone"
    /\ Len(log) < MaxMsgs
    /\ log' = Append(log, [w |-> w, end |-> t])
    /\ UNCHANGED <<committed, start, owner, handlerVars, ghostVars, storeVars,
                   partVars>>

SendPoison ==
    /\ Len(log) < MaxMsgs
    /\ log' = Append(log, Poison)
    /\ UNCHANGED <<committed, start, owner, handlerVars, ghostVars, storeVars,
                   partVars>>

(* The housekeeper deletes a cluster; the foreign keys cascade.            *)
DeleteCluster_norec(k) ==
    LET doomed == {w \in Workloads : ClusterOf[w] = k /\ wstate[w] = "live"}
    IN /\ doomed # {}
       /\ wstate' = [w \in Workloads |->
                        IF w \in doomed THEN "gone" ELSE wstate[w]]
       /\ hist' = [w \in Workloads |-> IF w \in doomed THEN {} ELSE hist[w]]
       /\ UNCHANGED <<recs, kafkaVars, handlerVars, ghostVars, partVars>>

DeleteCluster(k) ==
    LET doomed == {w \in Workloads : ClusterOf[w] = k /\ wstate[w] = "live"}
    IN /\ doomed # {}
       /\ wstate' = [w \in Workloads |->
                        IF w \in doomed THEN "gone" ELSE wstate[w]]
       /\ recs' = [w \in Workloads |->
                      IF w \in doomed THEN EmptyRows ELSE recs[w]]
       /\ hist' = [w \in Workloads |-> IF w \in doomed THEN {} ELSE hist[w]]
       /\ UNCHANGED <<kafkaVars, handlerVars, ghostVars, partVars>>

(* The partition job drops the partitions that start before half month h.  *)
DropPartitions(h) ==
    /\ \E x \in parts : x < h
    /\ parts' = {x \in parts : x >= h}
    /\ dropped' = dropped \cup {x \in parts : x < h}
    /\ hist' = [w \in Workloads |-> KeptHistory(w, hist[w], h)]
    /\ UNCHANGED <<kafkaVars, handlerVars, ghostVars, wstate, recs>>

-----------------------------------------------------------------------------
Next ==
    \/ \E p \in Pollers : Step(p) \/ Assign(p) \/ Crash(p)
    \/ \E w \in Workloads, t \in Times, n \in Copies : Report(w, t, n)
    \/ \E w \in Workloads, t \in Times : LateRequest(w, t)
    \/ SendPoison
    \/ \E k \in Clusters : DeleteCluster(k)
    \/ \E h \in Halves : DropPartitions(h)

Spec == Init /\ [][Next]_vars

(* The owner waits for an answer of Kruize that may never come: the client *)
(* sets no timeout.                                                        *)
OwnerHangs == owner \in Hanging /\ pc[owner] = "fetch"

(* A handler keeps running, except where it hangs.  The broker assigns a   *)
(* partition that nobody owns, or whose owner has not polled for           *)
(* max.poll.interval.ms.  Crashes and other reassignments end at some      *)
(* point.                                                                  *)
Vacant == owner = NoOwner \/ OwnerHangs
Reassign == Vacant /\ \E p \in Pollers : Assign(p)
Disturbance == \E p \in Pollers : Crash(p) \/ (~Vacant /\ Assign(p))

Fairness ==
    /\ \A p \in Pollers :
          WF_vars((p \in Hanging => pc[p] # "fetch") /\ Step(p))
    /\ WF_vars(Reassign)
    /\ <>[][~Disturbance]_vars

FairSpec == Spec /\ Fairness

-----------------------------------------------------------------------------
(* Properties                                                              *)

(* Every variable has its type; offsets stay within the log.               *)
TypeOK ==
    /\ log \in Seq(Message \cup {Poison})
    /\ committed \in {NoOffset} \cup 0 .. Len(log)
    /\ start \in 0 .. Len(log)
    /\ owner \in Pollers \cup {NoOwner}
    /\ pc \in [Pollers -> Labels]
    /\ pos \in [Pollers -> 0 .. Len(log)]
    /\ stored \in [Pollers -> Ends \cup {NoRec}]
    /\ batch \in [Pollers -> Batches]
    /\ settled \subseteq 1 .. Len(log)
    /\ failed \subseteq 1 .. Len(log)
    /\ wstate \in [Workloads -> {"new", "live", "gone"}]
    /\ recs \in [Workloads -> Rows]
    /\ hist \in [Workloads -> SUBSET HistRow]
    /\ parts \subseteq Nat
    /\ dropped \subseteq Nat

(* The committed offset always points just past a message whose handler    *)
(* decided to commit it: a failed cycle is never what moves the offset.    *)
CommitSettled == committed > 0 => committed \in settled

(* Whatever crashes, reassignments and redeliveries happen, the group      *)
(* never commits past a message no handler ran to its end, but for what    *)
(* was in the log when a consumer was assigned the partition before the    *)
(* group's first commit: such a consumer starts at the end of the log.     *)
NoSilentSkip == \A i \in start + 1 .. committed : i \in settled \cup failed

(* Every current recommendation has its row in the history: for a          *)
(* container with the same content, for a namespace (whose history keeps   *)
(* the first content it saw for an end time) with the same end time.  Only *)
(* the loss of a partition takes it away.                                  *)
HistoryCoversCurrent ==
    \A w \in Workloads, c \in Names :
       recs[w][c] # Null =>
          \/ \E h \in hist[w] :
                /\ h.c = c
                /\ h.end = recs[w][c].end
                /\ w \notin NamespaceWorkloads => h.val = recs[w][c].val
          \/ /\ w \notin NamespaceWorkloads
             /\ HalfOf[recs[w][c].end] \in dropped

(* A workload that is not there has no rows: a transaction that started    *)
(* before the housekeeper deleted the workload leaves nothing behind.      *)
NoOrphanRows ==
    \A w \in Workloads :
       wstate[w] # "live" => recs[w] = EmptyRows /\ hist[w] = {}

(* A container row never carries the zero end time, which would keep the   *)
(* poller from ever renewing it: its history row has no partition, so the  *)
(* transaction is rolled back.                                             *)
ContainerEndNeverZero ==
    \A w \in Workloads \ NamespaceWorkloads, c \in Names :
       recs[w][c] # Null => recs[w][c].end # ZeroTime

(* The committed offset never goes back.                                   *)
CommittedMonotone == [][committed' >= committed]_vars

(* With one handler at a time, the row a workload's readers are shown      *)
(* first never becomes older, whatever order and however often the reports *)
(* arrive, unless Kruize leaves the end time out.                          *)
FirstRowAdvances ==
    [][\A w \in Workloads, c, d \in Names :
          IsFirst(recs[w], c) /\ IsFirst(recs'[w], d) =>
             \/ recs'[w][d].end >= recs[w][c].end
             \/ recs'[w][d].end = ZeroTime]_vars

(* With one handler at a time, the three remote calls of a handler look    *)
(* like one atomic check-and-save to whoever reads the tables.             *)
Store == INSTANCE RecStore WITH wstate <- wstate, recs <- recs, hist <- hist
StoreSpec == Store!Spec

(* No message blocks the ones behind it: every message of the log is       *)
(* eventually handled to its end, and be it by another replica because the *)
(* first one waits for Kruize forever, unless a consumer assigned before   *)
(* the group's first commit started behind it.                             *)
EveryMessageHandled ==
    \A i \in 1 .. MaxMsgs :
       Len(log) >= i ~> i \in settled \cup failed \/ i <= start
=============================================================================
