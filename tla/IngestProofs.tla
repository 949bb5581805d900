---------------------------- MODULE IngestProofs ----------------------------
(***************************************************************************)
(* Proofs about the report processor and the housekeeper, for every number *)
(* of processors, every set of reports, every chunk size and every bound.  *)
(***************************************************************************)
EXTENDS Ingest, SequenceTheorems, TLAPS

InGroup == {"post", "insert"}

(* A handler at work holds a report; at its insert it holds a chunk.       *)
HandlerOK ==
    \A p \in Processors :
       /\ pc[p] # "idle" => pos[p] > 0 /\ log[pos[p]] \in Report
       /\ pc[p] = "insert" => chunks[p] # <<>>

TypeInv == TypeOK /\ HandlerOK

(* A message is out of the group's hands, or in a handler's.               *)
Accounted(i) ==
    \/ i \in ended \cup cut
    \/ \E p \in Processors : pc[p] # "idle" /\ pos[p] = i

(* What is committed lies behind the point where the group was last        *)
(* started without an offset.  The owner of the partition has read at      *)
(* least what is committed, and everything it has read since that point is *)
(* accounted for.                                                          *)
GroupOK ==
    /\ committed # NoOffset => start <= committed
    /\ owner \in Processors =>
          /\ committed <= pos[owner]
          /\ start <= pos[owner]
          /\ \A i \in start + 1 .. pos[owner] : Accounted(i)

OffsetInv == TypeInv /\ GroupOK /\ OnlyReportInHandLost

(* An id was given to one row only.                                        *)
IdsDiffer ==
    \A v, w \in workloads \cup gone : v.id = w.id => v = w

(* Past the upsert a handler holds the id of a row of its experiment.      *)
RowHeld ==
    \A p \in Processors :
       pc[p] \in InGroup =>
          \E w \in workloads \cup gone : w.id = wid[p] /\ w.exp = grp[p].exp

(* A request names a row that is there or was.                             *)
RequestsOK ==
    \A r \in requests :
       \E w \in workloads \cup gone : w.id = r.wid /\ w.exp = r.exp

RowsInv == TypeInv /\ IdsDiffer /\ RowHeld /\ RequestsOK

(* The chunk whose metrics are to be inserted was sent to Kruize; every    *)
(* interval of the group was tried or is in a chunk that is left.          *)
ChunksSent(p) ==
    /\ pc[p] = "insert" => NextResults(p) \subseteq offered \cap tried
    /\ pc[p] \in InGroup =>
          \A t \in IntervalEnds(grp[p]) :
             \/ [exp |-> grp[p].exp, end |-> t] \in tried
             \/ \E j \in 1 .. Len(chunks[p]) : t \in Ends(chunks[p][j])

ChunksOK == \A p \in Processors : ChunksSent(p)

ResultsInv == RowsInv /\ ChunksOK /\ ResultsBeforeRequest /\ MetricsAccounted

(* Clusters differ in their ids and in their aliases, and a workload has   *)
(* its cluster.                                                            *)
ClustersOK ==
    /\ \A k, l \in clusters : k.id = l.id \/ k.alias = l.alias => k = l
    /\ \A w \in workloads : w.cid \in ClusterIds

(* While the housekeeper has experiments to delete, the cluster they are   *)
(* deleted for is there and it is known that this was begun.               *)
DeletionOK ==
    hpc = "delete" /\ hexps # {} => \E b \in begun \cap clusters : b.id = hcid

(* The housekeeper has begun to delete the experiments of the cluster, or  *)
(* of the cluster of another alias.                                        *)
Excused(k) == \E b \in begun : b.id = k.id \/ b.alias # k.alias

(* The experiment a handler has created is there until its row is, unless  *)
(* the housekeeper has begun to delete it.                                 *)
ExperimentHeld ==
    \A p \in Processors :
       pc[p] = "workload" =>
          \/ grp[p].exp \in exps
          \/ \A k \in clusters : k.id = cid[p] => Excused(k)

ExpsInv ==
    TypeInv /\ ClustersOK /\ DeletionOK /\ ExperimentHeld /\ RowsKeepExperiment

-----------------------------------------------------------------------------
(* The chunks of a group                                                   *)

(* What a group is made of.                                                *)
LEMMA GroupType ==
    ASSUME NEW g \in Group
    PROVE  /\ g.exp \in Exps /\ g.ends \in Seq(Nat) /\ g.dropped \in SUBSET Nat
           /\ IntervalEnds(g) \subseteq Nat
<1>1. g.exp \in Exps /\ g.ends \in Seq(Nat) /\ g.dropped \in SUBSET Nat
  BY DEF Group
<1>2. Ends(g.ends) \subseteq Nat
  BY <1>1 DEF Ends
<1> QED
  BY <1>1, <1>2 DEF IntervalEnds

(* A handler without a group holds one that is as good as any.             *)
LEMMA NoGroupType == NoGroup \in Group
<1>1. <<0>> \in Seq(Nat) /\ <<0>> # <<>> /\ {} \in SUBSET Nat
  OBVIOUS
<1>2. (CHOOSE e \in Exps : TRUE) \in Exps
  BY ExpsAssumption
<1> QED
  BY <1>1, <1>2 DEF NoGroup, Group

(* Where the interval at i goes: the chunk number and the place in it.     *)
LEMMA ChunkNumber ==
    ASSUME NEW n \in Nat, NEW i \in 1 .. n
    PROVE  \E j \in 1 .. (n + ChunkSize - 1) \div ChunkSize :
              (j - 1) * ChunkSize + 1 <= i /\ i <= j * ChunkSize
<1> DEFINE q == (i - 1) \div ChunkSize
           m == (n + ChunkSize - 1) \div ChunkSize
           j == q + 1
<1>1. ChunkSize \in Nat /\ ChunkSize > 0
  BY ChunkSizeAssumption
<1>2. /\ q \in Nat /\ q * ChunkSize <= i - 1
      /\ i - 1 < (q + 1) * ChunkSize
  BY <1>1
<1>3. /\ m \in Nat
      /\ n + ChunkSize - 1 < (m + 1) * ChunkSize
  BY <1>1
<1> HIDE DEF q, m
<1>4. (m + 1) * ChunkSize = m * ChunkSize + ChunkSize
  BY <1>1, <1>3
<1>5. q * ChunkSize < m * ChunkSize
  <2>1. q * ChunkSize \in Int /\ m * ChunkSize \in Int
    BY <1>1, <1>2, <1>3
  <2> QED
    BY <1>1, <1>2, <1>3, <1>4, <2>1
<1>6. q < m
  <2> SUFFICES ASSUME m <= q PROVE FALSE
    BY <1>2, <1>3
  <2>1. m * ChunkSize <= q * ChunkSize
    BY <1>1, <1>2, <1>3
  <2>2. q * ChunkSize \in Int /\ m * ChunkSize \in Int
    BY <1>1, <1>2, <1>3
  <2> QED
    BY <1>5, <2>1, <2>2
<1>7. j \in 1 .. m /\ j - 1 = q
  BY <1>2, <1>3, <1>6
<1>8. (j - 1) * ChunkSize + 1 <= i /\ i <= j * ChunkSize
  BY <1>1, <1>2, <1>7
<1> QED
  BY <1>7, <1>8 DEF m

(* Chunks are sequences of intervals, and there are no others.             *)
LEMMA ChunksType ==
    ASSUME NEW s \in Seq(Nat)
    PROVE  ChunksOf(s) \in Seq(Seq(Nat))
<1> DEFINE m == (Len(s) + ChunkSize - 1) \div ChunkSize
           C(i) == SubSeq(s, (i - 1) * ChunkSize + 1,
                          IF i * ChunkSize < Len(s) THEN i * ChunkSize
                          ELSE Len(s))
<1>1. ChunkSize \in Nat /\ ChunkSize > 0 /\ Len(s) \in Nat
  BY ChunkSizeAssumption
<1>2. m \in Nat
  BY <1>1
<1>5. Slice(s) = [i \in 1 .. m |-> C(i)]
  BY DEF Slice
<1> HIDE DEF m
<1>3. ASSUME NEW i \in 1 .. m PROVE C(i) \in Seq(Nat)
  <2> DEFINE lo == (i - 1) * ChunkSize + 1
             hi == IF i * ChunkSize < Len(s) THEN i * ChunkSize ELSE Len(s)
  <2>1. lo \in 1 .. Len(s) + lo /\ hi \in Int /\ hi <= Len(s)
    <3>1. (i - 1) * ChunkSize \in Nat /\ i * ChunkSize \in Nat
      BY <1>1, <1>2
    <3> QED
      BY <1>1, <3>1
  <2> HIDE DEF lo, hi
  <2>2. \A k \in lo .. hi : s[k] \in Nat
    BY <2>1
  <2>3. SubSeq(s, lo, hi) \in Seq(Nat)
    BY <2>1, <2>2, SubSeqProperties
  <2> QED
    BY <2>3 DEF lo, hi
<1> HIDE DEF C
<1>4. Slice(s) \in Seq(Seq(Nat))
  BY <1>2, <1>3, <1>5
<1> QED
  BY <1>4 DEF ChunksOf

(* Every interval of a group is in one of its chunks, whether or not the   *)
(* chunk size divides their number.                                        *)
LEMMA ChunksCover ==
    ASSUME NEW s \in Seq(Nat), NEW t \in Ends(s)
    PROVE  \E j \in 1 .. Len(ChunksOf(s)) : t \in Ends(ChunksOf(s)[j])
<1> DEFINE m == (Len(s) + ChunkSize - 1) \div ChunkSize
<1>1. ChunkSize \in Nat /\ ChunkSize > 0 /\ Len(s) \in Nat
  BY ChunkSizeAssumption
<1>2. PICK i \in 1 .. Len(s) : s[i] = t
  BY DEF Ends
<1>3. CASE Len(s) > ChunkSize
  <2>1. PICK j \in 1 .. m : (j - 1) * ChunkSize + 1 <= i /\ i <= j * ChunkSize
    BY ChunkNumber
  <2>2. m \in Nat
    BY <1>1
  <2> HIDE DEF m
  <2> DEFINE lo == (j - 1) * ChunkSize + 1
             hi == IF j * ChunkSize < Len(s) THEN j * ChunkSize ELSE Len(s)
  <2>3. lo \in Int /\ lo >= 1 /\ hi \in Int /\ hi <= Len(s) /\ i \in lo .. hi
    <3>1. (j - 1) * ChunkSize \in Nat /\ j * ChunkSize \in Nat
      BY <1>1, <2>2
    <3> QED
      BY <1>1, <2>1, <3>1
  <2>4. Slice(s)[j] = SubSeq(s, lo, hi) /\ Len(Slice(s)) = m
    <3> DEFINE C(k) == SubSeq(s, (k - 1) * ChunkSize + 1,
                              IF k * ChunkSize < Len(s) THEN k * ChunkSize
                              ELSE Len(s))
    <3>1. Slice(s) = [k \in 1 .. m |-> C(k)]
      BY DEF Slice, m
    <3>2. C(j) = SubSeq(s, lo, hi)
      OBVIOUS
    <3> HIDE DEF C, lo, hi
    <3> QED
      BY <2>2, <3>1, <3>2
  <2> HIDE DEF lo, hi
  <2>5. /\ Len(SubSeq(s, lo, hi)) = hi - lo + 1
        /\ SubSeq(s, lo, hi)[i - lo + 1] = s[i]
    <3>1. \A k \in lo .. hi : s[k] \in Nat
      BY <2>3
    <3>2. /\ Len(SubSeq(s, lo, hi)) = IF lo <= hi THEN hi - lo + 1 ELSE 0
          /\ \A k \in 1 .. hi - lo + 1 : SubSeq(s, lo, hi)[k] = s[lo + k - 1]
      BY <2>3, <3>1, SubSeqProperties
    <3>3. i - lo + 1 \in 1 .. hi - lo + 1 /\ lo + (i - lo + 1) - 1 = i
      BY <2>3
    <3> QED
      BY <2>3, <3>2, <3>3
  <2>6. i - lo + 1 \in 1 .. Len(SubSeq(s, lo, hi))
    BY <2>3, <2>5
  <2>7. t \in Ends(Slice(s)[j])
    BY <1>2, <2>4, <2>5, <2>6 DEF Ends
  <2> QED
    BY <1>3, <2>4, <2>7 DEF ChunksOf
<1>4. CASE ~(Len(s) > ChunkSize)
  BY <1>4 DEF ChunksOf
<1> QED
  BY <1>3, <1>4

-----------------------------------------------------------------------------
(* Type correctness                                                        *)

(* The service starts with variables of their types and no handler         *)
(* running.                                                                *)
LEMMA TypeInit == Init => TypeInv
<1> SUFFICES ASSUME Init PROVE TypeInv
  OBVIOUS
<1>1. NoGroup \in Group
  BY NoGroupType
<1>2. HandlerOK
  BY DEF Init, HandlerOK
<1>3. TypeOK
  BY <1>1, LimitsAssumption, SettingsAssumption DEF Init, TypeOK, Labels
<1> QED
  BY <1>2, <1>3 DEF TypeInv

(* A handler that leaves its group or its report leaves well-typed         *)
(* variables behind.                                                       *)
LEMMA ForgetType ==
    ASSUME TypeOK, NEW p \in Processors
    PROVE  /\ ForgetGroup(p) => /\ grp' \in [Processors -> Group]
                               /\ wid' \in [Processors -> 0 .. lastIds.workloads]
                               /\ chunks' \in [Processors -> Seq(Seq(Nat))]
           /\ ForgetReport(p) => /\ files' \in [Processors -> Seq(SUBSET Group)]
                                /\ todo' \in [Processors -> SUBSET Group]
                                /\ cid' \in [Processors -> 0 .. lastIds.clusters]
<1>1. NoGroup \in Group
  BY NoGroupType
<1>2. /\ <<>> \in Seq(Seq(Nat)) /\ <<>> \in Seq(SUBSET Group)
      /\ {} \in SUBSET Group
  OBVIOUS
<1>3. 0 \in 0 .. lastIds.clusters /\ 0 \in 0 .. lastIds.workloads
  BY LimitsAssumption DEF TypeOK
<1>4. /\ files \in [Processors -> Seq(SUBSET Group)]
      /\ todo \in [Processors -> SUBSET Group]
      /\ grp \in [Processors -> Group]
      /\ chunks \in [Processors -> Seq(Seq(Nat))]
      /\ cid \in [Processors -> 0 .. lastIds.clusters]
      /\ wid \in [Processors -> 0 .. lastIds.workloads]
  BY DEF TypeOK
<1> QED
  BY <1>1, <1>2, <1>3, <1>4, ZenonT(60) DEF ForgetGroup, ForgetReport

(* No step of a processor, of the group, of Kruize or of the housekeeper   *)
(* breaks the types, nor what a running handler relies on.                 *)
LEMMA TypeStep ==
    TypeInv /\ [Next /\ UNCHANGED setting]_<<vars, setting>> => TypeInv'
<1> SUFFICES ASSUME TypeInv, [Next /\ UNCHANGED setting]_<<vars, setting>>
             PROVE  TypeInv'
  OBVIOUS
<1> USE DEF TypeInv
<1>0. setting' = setting
  OBVIOUS
<1>1. NoGroup \in Group
  BY NoGroupType
<1>2. /\ setting.uploads \subseteq Report \cup {Poison}
      /\ log \in Seq(Report \cup {Poison})
  BY SettingsAssumption DEF TypeOK
<1>k. /\ pc \in [Processors -> Labels] /\ pos \in [Processors -> 0 .. Len(log)]
      /\ committed \in {NoOffset} \cup 0 .. Len(log) /\ start \in 0 .. Len(log)
      /\ ended \subseteq 1 .. Len(log)
      /\ cut \subseteq 1 .. Len(log) /\ owner \in Processors \cup {NoOwner}
      /\ Len(log) \in Nat
  BY <1>2 DEF TypeOK
<1>h. /\ files \in [Processors -> Seq(SUBSET Group)]
      /\ todo \in [Processors -> SUBSET Group]
      /\ grp \in [Processors -> Group]
      /\ chunks \in [Processors -> Seq(Seq(Nat))]
  BY DEF TypeOK
<1>i. /\ lastIds \in [clusters : 0 .. MaxIds, workloads : 0 .. MaxIds]
      /\ cid \in [Processors -> 0 .. lastIds.clusters]
      /\ wid \in [Processors -> 0 .. lastIds.workloads]
      /\ MaxIds \in Nat
  BY LimitsAssumption DEF TypeOK
<1>3. ASSUME NEW p \in Processors, Receive(p) PROVE TypeInv'
  <2>1. /\ log' = log /\ pos[p] + 1 \in 1 .. Len(log)
        /\ log[pos[p] + 1] # Poison => log[pos[p] + 1] \in Report
    BY <1>2, <1>3 DEF Receive, TypeOK
  <2>2. log[pos[p] + 1] # Poison => log[pos[p] + 1].files \in Seq(SUBSET Group)
    BY <2>1 DEF Report
  <2>3. HandlerOK'
    BY <1>3, <1>k, <2>1 DEF Receive, HandlerOK, GoTo, groupVars
  <2>4. /\ pc' \in [Processors -> Labels]
        /\ pos' \in [Processors -> 0 .. Len(log)]
        /\ files' \in [Processors -> Seq(SUBSET Group)]
        /\ ended' \subseteq 1 .. Len(log)
        /\ committed' \in {NoOffset} \cup 0 .. Len(log)
    <3>1. pc' \in [Processors -> Labels]
      BY <1>3, <1>k DEF Receive, GoTo, Labels
    <3>2. files' \in [Processors -> Seq(SUBSET Group)]
      BY <1>3, <1>h, <2>2 DEF Receive
    <3> QED
      <4>1. committed' \in {committed, pos[p] + 1}
        BY <1>3 DEF Receive
      <4>2. ended' \subseteq ended \cup {pos[p] + 1}
        BY <1>3 DEF Receive
      <4>3. pos' = [pos EXCEPT ![p] = pos[p] + 1]
        BY <1>3 DEF Receive
      <4> QED
        BY <1>k, <2>1, <3>1, <3>2, <4>1, <4>2, <4>3
  <2> QED
    BY <1>0, <1>3, <2>3, <2>4 DEF Receive, TypeOK, groupVars, tableVars, kruizeVars,
       houseVars
<1>4. ASSUME NEW p \in Processors, NextFile(p) PROVE TypeInv'
  <2>1. HandlerOK'
    BY <1>4 DEF NextFile, TypeOK, HandlerOK, GoTo, groupVars, kafkaVars
  <2>2. Head(files[p]) \in SUBSET Group /\ Tail(files[p]) \in Seq(SUBSET Group)
    BY <1>4 DEF NextFile, TypeOK
  <2>3. /\ pc' \in [Processors -> Labels]
        /\ files' \in [Processors -> Seq(SUBSET Group)]
        /\ todo' \in [Processors -> SUBSET Group]
    BY <1>4, <2>2, ZenonT(60) DEF NextFile, TypeOK, GoTo, Labels
  <2> QED
    BY <1>0, <1>4, <2>1, <2>3 DEF NextFile, TypeOK, groupVars, tableVars, kruizeVars,
       houseVars, kafkaVars, ghostVars
<1>5. ASSUME NEW p \in Processors, EndReport(p) PROVE TypeInv'
  <2>1. HandlerOK'
    BY <1>5 DEF EndReport, TypeOK, HandlerOK, GoTo, groupVars, kafkaVars
  <2>2. pos[p] \in 1 .. Len(log)
    BY <1>5, <1>k DEF EndReport, HandlerOK
  <2>3. /\ pc' \in [Processors -> Labels]
        /\ files' \in [Processors -> Seq(SUBSET Group)]
        /\ todo' \in [Processors -> SUBSET Group]
        /\ cid' \in [Processors -> 0 .. lastIds.clusters]
        /\ ended' \subseteq 1 .. Len(log)
    <3>1. pc' \in [Processors -> Labels]
      BY <1>5, <1>k DEF EndReport, GoTo, Labels
    <3> QED
      BY <1>5, <1>k, <2>2, <3>1, ForgetType DEF EndReport
  <2> QED
    BY <1>0, <1>5, <2>1, <2>3 DEF EndReport, TypeOK, groupVars, tableVars, kruizeVars,
       houseVars, kafkaVars
<1>6. ASSUME NEW p \in Processors, CreateCluster(p) PROVE TypeInv'
  <2>1. HandlerOK'
    BY <1>6 DEF CreateCluster, TypeOK, HandlerOK, GoTo, groupVars, kafkaVars
  <2>2. log[pos[p]].alias \in Aliases
    BY <1>6 DEF CreateCluster, HandlerOK, Report
  <2>3. /\ lastIds' \in [clusters : 0 .. MaxIds, workloads : 0 .. MaxIds]
        /\ lastIds'.workloads = lastIds.workloads
        /\ lastIds.clusters <= lastIds'.clusters
        /\ lastIds.clusters \in Nat /\ lastIds'.clusters \in Nat
    BY <1>6, <1>i DEF CreateCluster
  <2>4. /\ pc' \in [Processors -> Labels]
        /\ todo' \in [Processors -> SUBSET Group]
    BY <1>6 DEF CreateCluster, TypeOK, GoTo, Labels
  <2>5. /\ clusters' \subseteq [id : 1 .. lastIds'.clusters, alias : Aliases]
        /\ cid' \in [Processors -> 0 .. lastIds'.clusters]
    <3>1. clusters \subseteq [id : 1 .. lastIds.clusters, alias : Aliases]
      BY DEF TypeOK
    <3>2. CASE UNCHANGED <<clusters, lastIds>>
      <4>1. cid' = cid \/ \E k \in clusters : cid' = [cid EXCEPT ![p] = k.id]
        BY <1>6, <3>2, <2>3 DEF CreateCluster
      <4> QED
        BY <1>i, <3>1, <3>2, <4>1
    <3>3. CASE /\ lastIds' = [lastIds EXCEPT !.clusters = @ + 1]
               /\ clusters' = clusters \cup {[id    |-> lastIds'.clusters,
                                              alias |-> log[pos[p]].alias]}
               /\ cid' = [cid EXCEPT ![p] = lastIds'.clusters]
      BY <1>i, <2>2, <2>3, <3>1, <3>3
    <3> QED
      BY <1>6, <3>2, <3>3 DEF CreateCluster
  <2>6. /\ workloads' \subseteq [id  : 1 .. lastIds'.workloads,
                                 cid : 1 .. lastIds'.clusters, exp : Exps]
        /\ gone' \subseteq [id  : 1 .. lastIds'.workloads,
                            cid : 1 .. lastIds'.clusters, exp : Exps]
        /\ begun' \subseteq [id : 1 .. lastIds'.clusters, alias : Aliases]
        /\ hcid' \in 0 .. lastIds'.clusters
    BY <1>6, <2>3, SMTT(60) DEF CreateCluster, TypeOK, houseVars
  <2> QED
    BY <1>0, <1>6, <2>1, <2>3, <2>4, <2>5, <2>6 DEF CreateCluster, TypeOK, groupVars,
       kruizeVars, houseVars, kafkaVars, ghostVars
<1>7. ASSUME NEW p \in Processors, EndFile(p) PROVE TypeInv'
  <2>1. HandlerOK'
    BY <1>7 DEF EndFile, TypeOK, HandlerOK, GoTo, groupVars, kafkaVars
  <2>2. pc' \in [Processors -> Labels]
    BY <1>7 DEF EndFile, TypeOK, GoTo, Labels
  <2> QED
    BY <1>0, <1>7, <2>1, <2>2 DEF EndFile, TypeOK, fileVars, groupVars, tableVars,
       kruizeVars, houseVars, kafkaVars, ghostVars
<1>8. ASSUME NEW p \in Processors, CreateExperiment(p) PROVE TypeInv'
  <2>1. PICK g \in todo[p] :
           /\ todo' = [todo EXCEPT ![p] = @ \ {g}]
           /\ exps' \in {exps, exps \cup {g.exp}}
           /\ profile' \in {profile, TRUE}
           /\ \/ /\ grp' = [grp EXCEPT ![p] = g]
                 /\ GoTo(p, "workload")
                 /\ UNCHANGED <<wid, chunks>>
              \/ EndGroup(p)
    BY <1>8 DEF CreateExperiment
  <2>2. g \in Group /\ g.exp \in Exps
    BY <1>h, GroupType
  <2>3. HandlerOK'
    BY <1>8, <2>1, SMTT(60)
       DEF CreateExperiment, TypeOK, HandlerOK, EndGroup, ForgetGroup,
       GoTo, kafkaVars
  <2>4. /\ pc' \in [Processors -> Labels]
        /\ todo' \in [Processors -> SUBSET Group]
        /\ grp' \in [Processors -> Group]
        /\ wid' \in [Processors -> 0 .. lastIds.workloads]
        /\ chunks' \in [Processors -> Seq(Seq(Nat))]
    <3>1. pc' \in [Processors -> Labels]
      BY <1>k, <2>1 DEF EndGroup, GoTo, Labels
    <3>2. CASE ForgetGroup(p)
      BY <1>h, <2>1, <3>1, <3>2, ForgetType
    <3>3. CASE grp' = [grp EXCEPT ![p] = g] /\ UNCHANGED <<wid, chunks>>
      BY <1>h, <1>i, <2>1, <2>2, <3>1, <3>3
    <3> QED
      BY <2>1, <3>2, <3>3 DEF EndGroup
  <2>5. exps' \subseteq Exps /\ profile' \in BOOLEAN
    BY <2>1, <2>2 DEF TypeOK
  <2> QED
    BY <1>0, <1>8, <2>3, <2>4, <2>5 DEF CreateExperiment, TypeOK, tableVars, houseVars,
       kafkaVars, ghostVars
<1>9. ASSUME NEW p \in Processors, CreateWorkload(p) PROVE TypeInv'
  <2>1. HandlerOK'
    BY <1>9 DEF CreateWorkload, MakeResults, TypeOK, HandlerOK, EndGroup, ForgetGroup, GoTo,
       kafkaVars
  <2>2. /\ ChunksOf(grp[p].ends) \in Seq(Seq(Nat))
        /\ grp[p].exp \in Exps
    BY <1>h, ChunksType, GroupType
  <2>t. tried' \subseteq [exp : Exps, end : Nat]
    <3>1. Results(grp[p].exp, grp[p].dropped) \subseteq [exp : Exps, end : Nat]
      BY <1>h, GroupType DEF Results
    <3>2. tried \subseteq [exp : Exps, end : Nat]
      BY DEF TypeOK
    <3>3. tried' \in {tried, tried \cup Results(grp[p].exp, grp[p].dropped)}
      BY <1>9 DEF CreateWorkload, MakeResults
    <3> QED
      BY <3>1, <3>2, <3>3
  <2>3. cid[p] \in ClusterIds => cid[p] \in 1 .. lastIds.clusters
    BY DEF ClusterIds, TypeOK
  <2>4. /\ lastIds' \in [clusters : 0 .. MaxIds, workloads : 0 .. MaxIds]
        /\ lastIds'.clusters = lastIds.clusters
        /\ lastIds.workloads <= lastIds'.workloads
        /\ lastIds.workloads \in Nat /\ lastIds'.workloads \in Nat
    BY <1>9, <1>i DEF CreateWorkload
  <2>5. /\ pc' \in [Processors -> Labels]
        /\ grp' \in [Processors -> Group]
        /\ chunks' \in [Processors -> Seq(Seq(Nat))]
    <3>1. pc' \in [Processors -> Labels]
      BY <1>9, <1>k DEF CreateWorkload, EndGroup, GoTo, Labels
    <3>2. CASE ForgetGroup(p)
      BY <3>1, <3>2, ForgetType
    <3>3. CASE grp' = grp /\ chunks' = [chunks EXCEPT ![p] = ChunksOf(grp[p].ends)]
      BY <1>h, <2>2, <3>1, <3>3
    <3> QED
      BY <1>9, <3>2, <3>3 DEF CreateWorkload, MakeResults, EndGroup
  <2>6. /\ workloads' \subseteq [id  : 1 .. lastIds'.workloads,
                                 cid : 1 .. lastIds'.clusters, exp : Exps]
        /\ wid' \in [Processors -> 0 .. lastIds'.workloads]
    <3>1. CASE UNCHANGED <<workloads, lastIds>>
      <4>1. workloads \subseteq [id  : 1 .. lastIds.workloads,
                                 cid : 1 .. lastIds.clusters, exp : Exps]
        BY DEF TypeOK
      <4>2. \/ wid' = [wid EXCEPT ![p] = 0]
            \/ \E w \in workloads : wid' = [wid EXCEPT ![p] = w.id]
        BY <1>9, <1>i, <3>1 DEF CreateWorkload, EndGroup, ForgetGroup
      <4> QED
        BY <1>i, <3>1, <4>1, <4>2
    <3>2. CASE /\ cid[p] \in ClusterIds
               /\ lastIds' = [lastIds EXCEPT !.workloads = @ + 1]
               /\ workloads' = workloads \cup {[id  |-> lastIds'.workloads,
                                                cid |-> cid[p],
                                                exp |-> grp[p].exp]}
               /\ wid' = [wid EXCEPT ![p] = lastIds'.workloads]
      <4>1. workloads \subseteq [id  : 1 .. lastIds.workloads,
                                 cid : 1 .. lastIds.clusters, exp : Exps]
        BY DEF TypeOK
      <4> QED
        BY <1>i, <2>2, <2>3, <2>4, <3>2, <4>1
    <3> QED
      BY <1>9, <3>1, <3>2 DEF CreateWorkload
  <2>7. /\ gone' \subseteq [id  : 1 .. lastIds'.workloads,
                            cid : 1 .. lastIds'.clusters, exp : Exps]
        /\ requests' \subseteq [wid : 0 .. lastIds'.workloads, exp : Exps, end : Nat]
        /\ metrics' \subseteq [wid : 1 .. lastIds'.workloads, end : Nat]
    <3>1. /\ gone \subseteq [id  : 1 .. lastIds.workloads,
                            cid : 1 .. lastIds.clusters, exp : Exps]
          /\ requests \subseteq [wid : 0 .. lastIds.workloads, exp : Exps, end : Nat]
          /\ metrics \subseteq [wid : 1 .. lastIds.workloads, end : Nat]
      BY DEF TypeOK
    <3>2. gone' = gone /\ requests' = requests /\ metrics' = metrics
      BY <1>9 DEF CreateWorkload, houseVars
    <3>3. /\ 0 .. lastIds.workloads \subseteq 0 .. lastIds'.workloads
          /\ 1 .. lastIds.workloads \subseteq 1 .. lastIds'.workloads
      BY <2>4
    <3>4. gone' \subseteq [id  : 1 .. lastIds'.workloads,
                          cid : 1 .. lastIds'.clusters, exp : Exps]
      BY <2>4, <3>1, <3>2, <3>3
    <3>5. requests' \subseteq [wid : 0 .. lastIds'.workloads, exp : Exps, end : Nat]
      BY <3>1, <3>2, <3>3
    <3>6. metrics' \subseteq [wid : 1 .. lastIds'.workloads, end : Nat]
      BY <3>1, <3>2, <3>3
    <3> QED
      BY <3>4, <3>5, <3>6
  <2> QED
    BY <1>0, <1>9, <2>1, <2>t, <2>4, <2>5, <2>6, <2>7 DEF CreateWorkload, TypeOK,
       fileVars, kruizeVars, houseVars, kafkaVars
<1>10. ASSUME NEW p \in Processors, Offer(p) \/ PostFailed(p)
       PROVE  /\ offered' \subseteq [exp : Exps, end : Nat]
              /\ tried' \subseteq [exp : Exps, end : Nat]
  <2>1. Head(chunks[p]) \in Seq(Nat) /\ grp[p].exp \in Exps
    BY <1>10, <1>h, GroupType DEF Offer, PostFailed
  <2>2. Ends(Head(chunks[p])) \subseteq Nat
    BY <2>1 DEF Ends
  <2> QED
    <3>1. /\ offered \subseteq [exp : Exps, end : Nat]
          /\ tried \subseteq [exp : Exps, end : Nat]
      BY DEF TypeOK
    <3>2. NextResults(p) \subseteq [exp : Exps, end : Nat]
      BY <2>1, <2>2 DEF NextResults, ResultsOf, Results
    <3>3. /\ offered' \in {offered, offered \cup NextResults(p)}
          /\ tried' = tried \cup NextResults(p)
      BY <1>10 DEF Offer, PostFailed
    <3> QED
      BY <3>1, <3>2, <3>3
<1>11. ASSUME NEW p \in Processors, PostResults(p) PROVE TypeInv'
  <2>1. HandlerOK'
    BY <1>11 DEF PostResults, Offer, TypeOK, HandlerOK, GoTo, groupVars, kafkaVars
  <2>2. pc' \in [Processors -> Labels]
    BY <1>11 DEF PostResults, TypeOK, GoTo, Labels
  <2>3. /\ offered' \subseteq [exp : Exps, end : Nat]
        /\ tried' \subseteq [exp : Exps, end : Nat]
    BY <1>10, <1>11 DEF PostResults
  <2> QED
    BY <1>0, <1>11, <2>1, <2>2, <2>3 DEF PostResults, TypeOK, fileVars, groupVars,
       tableVars, houseVars, kafkaVars
<1>12. ASSUME NEW p \in Processors, PostFailed(p) PROVE TypeInv'
  <2>1. HandlerOK'
    BY <1>12 DEF PostFailed, TypeOK, HandlerOK, kafkaVars
  <2>2. chunks' \in [Processors -> Seq(Seq(Nat))]
    BY <1>12 DEF PostFailed, TypeOK
  <2>3. /\ offered' \subseteq [exp : Exps, end : Nat]
        /\ tried' \subseteq [exp : Exps, end : Nat]
    BY <1>10, <1>12
  <2> QED
    BY <1>0, <1>12, <2>1, <2>2, <2>3 DEF PostFailed, TypeOK, fileVars, tableVars,
       houseVars, kafkaVars
<1>13. ASSUME NEW p \in Processors, SetupProfile(p) PROVE TypeInv'
  <2>1. HandlerOK'
    BY <1>13 DEF SetupProfile, Offer, TypeOK, HandlerOK, groupVars, kafkaVars
  <2>2. /\ offered' \subseteq [exp : Exps, end : Nat]
        /\ tried' \subseteq [exp : Exps, end : Nat]
    BY <1>10, <1>13 DEF SetupProfile
  <2> QED
    BY <1>0, <1>13, <2>1, <2>2 DEF SetupProfile, TypeOK, fileVars, groupVars, tableVars,
       houseVars, kafkaVars
<1>14. ASSUME NEW p \in Processors, InsertMetrics(p) PROVE TypeInv'
  <2>1. HandlerOK'
    BY <1>14 DEF InsertMetrics, TypeOK, HandlerOK, GoTo, kafkaVars
  <2>2. Head(chunks[p]) \in Seq(Nat) /\ Tail(chunks[p]) \in Seq(Seq(Nat))
    BY <1>14 DEF InsertMetrics, HandlerOK, TypeOK
  <2>3. Ends(Head(chunks[p])) \subseteq Nat
    BY <2>2 DEF Ends
  <2>4. wid[p] \in WorkloadIds => wid[p] \in 1 .. lastIds.workloads
    BY DEF WorkloadIds, TypeOK
  <2>5. /\ pc' \in [Processors -> Labels]
        /\ chunks' \in [Processors -> Seq(Seq(Nat))]
    BY <1>14, <2>2 DEF InsertMetrics, TypeOK, GoTo, Labels
  <2>6. metrics' \subseteq [wid : 1 .. lastIds.workloads, end : Nat]
    BY <1>14, <2>3, <2>4 DEF InsertMetrics, TypeOK
  <2> QED
    BY <1>0, <1>14, <2>1, <2>5, <2>6 DEF InsertMetrics, TypeOK, fileVars, kruizeVars,
       houseVars, kafkaVars, ghostVars
<1>15. ASSUME NEW p \in Processors, SendRequest(p) PROVE TypeInv'
  <2>1. HandlerOK'
    BY <1>15 DEF SendRequest, EndGroup, ForgetGroup, TypeOK, HandlerOK, GoTo, kafkaVars
  <2>2. /\ pc' \in [Processors -> Labels]
        /\ grp' \in [Processors -> Group]
        /\ wid' \in [Processors -> 0 .. lastIds.workloads]
        /\ chunks' \in [Processors -> Seq(Seq(Nat))]
    BY <1>1, <1>15, SMTT(60)
       DEF SendRequest, EndGroup, ForgetGroup, TypeOK, GoTo, Labels
  <2>3. grp[p].exp \in Exps
    BY <1>h, GroupType
  <2>4. IntervalEnds(grp[p]) \subseteq Nat
    BY <1>h, GroupType
  <2>5. requests' \subseteq [wid : 0 .. lastIds.workloads, exp : Exps, end : Nat]
    BY <1>15, <2>3, <2>4 DEF SendRequest, TypeOK
  <2> QED
    BY <1>0, <1>15, <2>1, <2>2, <2>5 DEF SendRequest, TypeOK, fileVars, tableVars,
       kruizeVars, houseVars, kafkaVars, ghostVars
<1>16. ASSUME NEW p \in Processors, AutoCommit(p) \/ Close(p) \/ Assign(p)
       PROVE  TypeInv'
  <2>1. HandlerOK'
    BY <1>16 DEF AutoCommit, Close, Assign, TypeOK, HandlerOK, groupVars
  <2>2. /\ pos' \in [Processors -> 0 .. Len(log)]
        /\ committed' \in {NoOffset} \cup 0 .. Len(log)
        /\ start' \in 0 .. Len(log)
        /\ owner' \in Processors \cup {NoOwner}
        /\ log' = log /\ pc' = pc
    BY <1>16, <1>k DEF AutoCommit, Close, Assign, Stored, StartOffset, Skip
  <2> QED
    BY <1>0, <1>16, <2>1, <2>2 DEF AutoCommit, Close, Assign, TypeOK, fileVars, groupVars,
       tableVars, kruizeVars, houseVars, ghostVars
<1>17. ASSUME NEW p \in Processors, Crash(p) PROVE TypeInv'
  <2>1. HandlerOK'
    BY <1>17 DEF Crash, ForgetGroup, ForgetReport, TypeOK, HandlerOK, GoTo
  <2>2. pos[p] \in 1 .. Len(log)
    BY <1>17 DEF Crash, TypeOK, HandlerOK
  <2>3. /\ pc' \in [Processors -> Labels]
        /\ owner' \in Processors \cup {NoOwner}
        /\ cut' \subseteq 1 .. Len(log)
    BY <1>17, <2>2 DEF Crash, TypeOK, GoTo, Labels
  <2>4. /\ files' \in [Processors -> Seq(SUBSET Group)]
        /\ todo' \in [Processors -> SUBSET Group]
        /\ grp' \in [Processors -> Group]
        /\ cid' \in [Processors -> 0 .. lastIds.clusters]
        /\ wid' \in [Processors -> 0 .. lastIds.workloads]
        /\ chunks' \in [Processors -> Seq(Seq(Nat))]
    BY <1>17, ForgetType DEF Crash
  <2> QED
    BY <1>0, <1>17, <2>1, <2>3, <2>4 DEF Crash, TypeOK, tableVars, kruizeVars, houseVars
<1>18. ASSUME Upload PROVE TypeInv'
  <2>1. /\ log' \in Seq(setting.uploads) /\ Len(log') = Len(log) + 1
        /\ \A i \in 1 .. Len(log) : log'[i] = log[i]
    BY <1>18, SMTT(60) DEF Upload, TypeOK
  <2>2. HandlerOK'
    BY <1>18, <2>1, SMTT(60) DEF Upload, TypeOK, HandlerOK, groupVars
  <2>3. /\ committed' \in {NoOffset} \cup 0 .. Len(log')
        /\ start' \in 0 .. Len(log')
        /\ pos' \in [Processors -> 0 .. Len(log')]
        /\ ended' \subseteq 1 .. Len(log')
        /\ cut' \subseteq 1 .. Len(log')
    BY <1>18, <2>1, SMTT(60) DEF Upload, TypeOK, ghostVars
  <2> QED
    BY <1>0, <1>18, <2>1, <2>2, <2>3 DEF Upload, TypeOK, fileVars, groupVars, tableVars,
       kruizeVars, houseVars, ghostVars
<1>19. ASSUME RestartKruize PROVE TypeInv'
  BY <1>0, <1>19 DEF RestartKruize, TypeOK, HandlerOK, fileVars, groupVars, tableVars,
     houseVars, kafkaVars, ghostVars
<1>20. ASSUME Housekeep PROVE TypeInv'
  <2>1. HandlerOK'
    BY <1>20 DEF Housekeep, FindCluster, ListWorkloads, DeleteExperiment, DeleteCluster,
       CrashHousekeeper, HandlerOK, groupVars, kafkaVars
  <2>2. CASE FindCluster
    <3>1. hcid' \in 0 .. lastIds.clusters
      BY <1>i, <2>2 DEF FindCluster, TypeOK
    <3> QED
      BY <1>0, <2>1, <2>2, <3>1 DEF FindCluster, TypeOK, fileVars, groupVars, tableVars,
         kruizeVars, kafkaVars, ghostVars
  <2>3. CASE ListWorkloads
    BY <1>0, <2>1, <2>3, SMTT(60)
       DEF ListWorkloads, TypeOK, fileVars, groupVars, tableVars,
       kruizeVars, kafkaVars, ghostVars
  <2>4. CASE DeleteExperiment
    BY <1>0, <2>1, <2>4 DEF DeleteExperiment, TypeOK, fileVars, groupVars, tableVars,
       kafkaVars, ghostVars
  <2>5. CASE DeleteCluster
    <3>1. /\ clusters' \subseteq clusters /\ workloads' \subseteq workloads
          /\ metrics' \subseteq metrics /\ gone' \subseteq gone \cup workloads
          /\ hpc' = "idle"
      BY <2>5 DEF DeleteCluster
    <3> QED
      BY <1>0, <2>1, <2>5, <3>1 DEF DeleteCluster, TypeOK, fileVars, groupVars,
         kruizeVars, kafkaVars, ghostVars
  <2>6. CASE CrashHousekeeper
    BY <1>0, <2>1, <2>6 DEF CrashHousekeeper, TypeOK, fileVars, groupVars, tableVars,
       kruizeVars, kafkaVars, ghostVars
  <2> QED
    BY <1>20, <2>2, <2>3, <2>4, <2>5, <2>6 DEF Housekeep
<1>21. CASE UNCHANGED vars
  BY <1>0, <1>21 DEF vars, TypeOK, HandlerOK, fileVars, groupVars, tableVars,
     kruizeVars, houseVars, kafkaVars, ghostVars
<1> QED
  BY <1>3, <1>4, <1>5, <1>6, <1>7, <1>8, <1>9, <1>11, <1>12, <1>13, <1>14, <1>15,
     <1>16, <1>17, <1>18, <1>19, <1>20, <1>21 DEF Next, Step, Progress

(* The variables of the processor and of the housekeeper always have their *)
(* types: no offset ever points outside the log, and no table holds an id  *)
(* that was not given out.                                                 *)
THEOREM TypeCorrect == Spec => []TypeOK
<1>1. Spec => []TypeInv
  BY TypeInit, TypeStep, PTL DEF Spec
<1>2. TypeInv => TypeOK
  BY DEF TypeInv
<1> QED
  BY <1>1, <1>2, PTL

-----------------------------------------------------------------------------
(* The committed offset                                                    *)

(* A handler that comes to rest has run to its end or was cut off:         *)
(* whatever step is taken, no message it held is forgotten.                *)
LEMMA AccountedStep ==
    ASSUME TypeInv, [Next /\ UNCHANGED setting]_<<vars, setting>>,
           NEW i, Accounted(i)
    PROVE  Accounted(i)'
<1> DEFINE Kept(q) == pc'[q] # "idle" /\ pos'[q] = pos[q]
<1>1. pc \in [Processors -> Labels] /\ pos \in [Processors -> 0 .. Len(log)]
  BY DEF TypeInv, TypeOK
<1> SUFFICES /\ ended \subseteq ended' /\ cut \subseteq cut'
             /\ \A q \in Processors :
                   pc[q] # "idle" => Kept(q) \/ pos[q] \in ended' \cup cut'
  BY DEF Accounted
<1>2. ASSUME NEW p \in Processors, Receive(p)
      PROVE  /\ ended \subseteq ended' /\ cut' = cut
             /\ \A q \in Processors : pc[q] # "idle" => Kept(q)
  BY <1>1, <1>2 DEF Receive, GoTo
<1>3. ASSUME NEW p \in Processors, EndReport(p)
      PROVE  /\ ended' = ended \cup {pos[p]} /\ cut' = cut
             /\ \A q \in Processors \ {p} : pc[q] # "idle" => Kept(q)
  BY <1>1, <1>3 DEF EndReport, GoTo
<1>4. ASSUME NEW p \in Processors, Crash(p)
      PROVE  /\ cut' = cut \cup {pos[p]} /\ ended' = ended
             /\ \A q \in Processors \ {p} : pc[q] # "idle" => Kept(q)
  BY <1>1, <1>4 DEF Crash, GoTo
<1>5. ASSUME NEW p \in Processors,
             \/ NextFile(p) \/ CreateCluster(p) \/ EndFile(p)
             \/ CreateExperiment(p) \/ CreateWorkload(p) \/ PostResults(p)
             \/ PostFailed(p) \/ SetupProfile(p) \/ InsertMetrics(p)
             \/ SendRequest(p)
      PROVE  /\ UNCHANGED <<ended, cut, pos>>
             /\ \E l \in Labels \ {"idle"} : pc' = [pc EXCEPT ![p] = l] \/ pc' = pc
  <2>1. UNCHANGED <<ended, cut, pos>>
    BY <1>5 DEF NextFile, CreateCluster, EndFile, CreateExperiment, CreateWorkload,
       PostResults, PostFailed, SetupProfile, InsertMetrics, SendRequest, ghostVars
  <2>2. \/ pc' = pc \/ GoTo(p, "file") \/ GoTo(p, "cluster") \/ GoTo(p, "group")
        \/ GoTo(p, "workload") \/ GoTo(p, "post") \/ GoTo(p, "insert")
    BY <1>5 DEF NextFile, CreateCluster, EndFile, CreateExperiment, CreateWorkload,
       PostResults, PostFailed, SetupProfile, InsertMetrics, SendRequest, EndGroup
  <2> QED
    BY <2>1, <2>2 DEF GoTo, Labels
<1>6. ASSUME NEW p \in Processors, AutoCommit(p) \/ Close(p) \/ Assign(p)
      PROVE  /\ UNCHANGED <<ended, cut, pc>>
             /\ \A q \in Processors : pc[q] # "idle" => pos'[q] = pos[q]
  BY <1>1, <1>6 DEF AutoCommit, Close, Assign, ghostVars
<1>7. Upload \/ RestartKruize \/ Housekeep \/ UNCHANGED vars =>
         UNCHANGED <<ended, cut, pc, pos>>
  BY DEF Upload, RestartKruize, Housekeep, FindCluster, ListWorkloads,
     DeleteExperiment, DeleteCluster, CrashHousekeeper, vars, ghostVars
<1> QED
  BY <1>1, <1>2, <1>3, <1>4, <1>5, <1>6, <1>7 DEF Next, Step, Progress, Labels

(* Nothing is read and nothing is committed at the start.                  *)
LEMMA OffsetInit == Init => OffsetInv
<1> SUFFICES ASSUME Init PROVE OffsetInv
  OBVIOUS
<1>1. committed \in {NoOffset, 0} /\ start = 0 /\ owner \notin Processors
  BY OwnerAssumption, SettingsAssumption DEF Init
<1>2. TypeInv
  BY TypeInit
<1> QED
  BY <1>1, <1>2 DEF OffsetInv, GroupOK, OnlyReportInHandLost, NoOffset

(* Every step keeps the committed offset behind the owner and everything   *)
(* the owner has read accounted for.                                       *)
LEMMA OffsetStep ==
    OffsetInv /\ [Next /\ UNCHANGED setting]_<<vars, setting>> => OffsetInv'
<1> SUFFICES ASSUME OffsetInv, [Next /\ UNCHANGED setting]_<<vars, setting>>
             PROVE  OffsetInv'
  OBVIOUS
<1>1. TypeInv'
  BY TypeStep DEF OffsetInv
<1>2. /\ pos \in [Processors -> 0 .. Len(log)] /\ Len(log) \in Nat
      /\ committed \in {NoOffset} \cup 0 .. Len(log) /\ start \in 0 .. Len(log)
      /\ owner \in Processors \cup {NoOwner}
  BY DEF OffsetInv, TypeInv, TypeOK
<1>3. ASSUME NEW i, Accounted(i) PROVE Accounted(i)'
  BY <1>3, AccountedStep DEF OffsetInv
<1>4. /\ \A i \in start + 1 .. committed : Accounted(i)
      /\ committed # NoOffset => start <= committed
  BY DEF OffsetInv, GroupOK, OnlyReportInHandLost, Accounted
<1>5. ASSUME NEW q \in Processors, owner = q
      PROVE  /\ committed <= pos[q] /\ start <= pos[q]
             /\ \A i \in start + 1 .. pos[q] : Accounted(i)
  BY <1>5 DEF OffsetInv, GroupOK
<1> DEFINE Reached(n) == /\ committed' <= n /\ start' <= n
                         /\ \A i \in start' + 1 .. n : Accounted(i)'
           Behind == /\ \A i \in start' + 1 .. committed' : Accounted(i)'
                     /\ committed' # NoOffset => start' <= committed'
<1> SUFFICES Behind /\ (owner' \in Processors => Reached(pos'[owner']))
  BY <1>1 DEF OffsetInv, GroupOK, OnlyReportInHandLost, Accounted
<1>6. CASE UNCHANGED <<committed, start, owner, pos>>
  BY <1>3, <1>4, <1>5, <1>6
<1>7. ASSUME NEW p \in Processors, Receive(p)
      PROVE  Behind /\ owner' = p /\ Reached(pos'[p])
  <2>1. /\ owner = p /\ owner' = p /\ pos'[p] = pos[p] + 1 /\ start' = start
        /\ committed' \in {committed, pos[p] + 1}
    BY <1>2, <1>7 DEF Receive
  <2>2. ASSUME NEW i, i = pos[p] + 1 PROVE Accounted(i)'
    <3>1. pc \in [Processors -> Labels]
      BY DEF OffsetInv, TypeInv, TypeOK
    <3>2. pos'[p] = i /\ (i \in ended' \/ pc'[p] = "file")
      BY <1>2, <1>7, <2>1, <2>2, <3>1 DEF Receive, GoTo
    <3> QED
      BY <3>2 DEF Accounted
  <2>3. /\ pos[p] \in Nat /\ committed \in Int /\ committed <= pos[p]
        /\ start \in Nat /\ start <= pos[p]
    BY <1>2, <1>5, <2>1 DEF NoOffset
  <2>4. ASSUME NEW i \in start + 1 .. pos[p] PROVE Accounted(i)'
    <3>1. Accounted(i)
      BY <1>5, <2>1
    <3> QED
      BY <1>3, <3>1
  <2>5. ASSUME NEW i \in start + 1 .. pos[p] + 1 PROVE Accounted(i)'
    <3>1. i = pos[p] + 1 \/ i \in start + 1 .. pos[p]
      BY <2>3
    <3> QED
      BY <2>2, <2>4, <3>1
  <2>6. committed' <= pos[p] + 1 /\ committed' \in Int
    BY <2>1, <2>3
  <2>7. ASSUME NEW i \in start + 1 .. committed' PROVE Accounted(i)'
    <3>1. i \in start + 1 .. pos[p] + 1
      BY <2>3, <2>6
    <3> QED
      BY <2>5, <3>1
  <2>8. committed' # NoOffset => start <= committed'
    BY <1>4, <2>1, <2>3
  <2> QED
    BY <2>1, <2>3, <2>5, <2>6, <2>7, <2>8
<1>8. ASSUME NEW p \in Processors, AutoCommit(p) \/ Close(p)
      PROVE  /\ Behind /\ Reached(pos[p])
             /\ owner' \in {p, NoOwner} /\ pos' = pos
  <2>1. /\ owner = p /\ owner' \in {p, NoOwner} /\ pos' = pos /\ start' = start
        /\ \/ committed' = committed
           \/ committed' = pos[p] /\ pos[p] > start
    BY <1>8 DEF AutoCommit, Close, Stored
  <2>2. \A i \in start + 1 .. pos[p] : Accounted(i)'
    BY <1>3, <1>5, <2>1
  <2>3. CASE committed' = committed
    BY <1>3, <1>4, <1>5, <2>1, <2>2, <2>3
  <2>4. CASE committed' = pos[p] /\ pos[p] > start
    BY <1>2, <2>1, <2>2, <2>4
  <2> QED
    BY <2>1, <2>3, <2>4
<1>9. ASSUME NEW p \in Processors, Assign(p)
      PROVE  Behind /\ owner' = p /\ Reached(pos'[p])
  <2>1. committed' = committed /\ owner' = p /\ pos'[p] = StartOffset /\ Skip
    BY <1>2, <1>9 DEF Assign
  <2>2. CASE committed = NoOffset
    <3>1. start' = Len(log) /\ pos'[p] = Len(log)
      BY <2>1, <2>2 DEF StartOffset, Skip
    <3> QED
      BY <1>2, <2>1, <2>2, <3>1 DEF NoOffset
  <2>3. CASE committed # NoOffset
    <3>1. start' = start /\ pos'[p] = committed
      BY <2>1, <2>3 DEF StartOffset, Skip
    <3> QED
      BY <1>2, <1>3, <1>4, <2>1, <2>3, <3>1
  <2> QED
    BY <2>2, <2>3
<1>10. ASSUME NEW p \in Processors, Crash(p)
       PROVE  /\ Behind /\ UNCHANGED <<committed, start, pos>>
              /\ owner' \in {owner, NoOwner}
  <2>1. UNCHANGED <<committed, start, pos>> /\ owner' \in {owner, NoOwner}
    BY <1>10 DEF Crash
  <2> QED
    BY <1>3, <1>4, <2>1
<1>11. ASSUME NEW p \in Processors, Step(p), ~Receive(p)
       PROVE  UNCHANGED <<committed, start, owner, pos>>
  BY <1>11 DEF Step, Progress, NextFile, EndReport, CreateCluster, EndFile,
     CreateExperiment, CreateWorkload, PostResults, PostFailed, SetupProfile,
     InsertMetrics, SendRequest, kafkaVars
<1>12. Upload \/ RestartKruize \/ Housekeep \/ UNCHANGED vars =>
          UNCHANGED <<committed, start, owner, pos>>
  BY DEF Upload, RestartKruize, Housekeep, FindCluster, ListWorkloads,
     DeleteExperiment, DeleteCluster, CrashHousekeeper, vars, kafkaVars
<1>13. ASSUME NEW p \in Processors, AutoCommit(p) \/ Close(p)
       PROVE  Behind /\ (owner' \in Processors => Reached(pos'[owner']))
  BY <1>8, <1>13, OwnerAssumption
<1>14. ASSUME NEW p \in Processors, Assign(p)
       PROVE  Behind /\ Reached(pos'[owner'])
  BY <1>9, <1>14
<1>15. ASSUME NEW p \in Processors, Crash(p)
       PROVE  Behind /\ (owner' \in Processors => Reached(pos'[owner']))
  BY <1>3, <1>5, <1>10, <1>15, OwnerAssumption
<1> QED
  BY <1>6, <1>7, <1>11, <1>12, <1>13, <1>14, <1>15 DEF Next

(* The processor commits on a timer, so a crash loses the report in hand;  *)
(* however many processors there are, and whenever the partition moves     *)
(* between them, it loses no other, but for those that were in the log     *)
(* when a consumer was assigned before the group's first commit.           *)
THEOREM NoOtherReportLost == Spec => []OnlyReportInHandLost
<1>1. Spec => []OffsetInv
  BY OffsetInit, OffsetStep, PTL DEF Spec
<1>2. OffsetInv => OnlyReportInHandLost
  BY DEF OffsetInv
<1> QED
  BY <1>1, <1>2, PTL

-----------------------------------------------------------------------------
(* Rows and requests                                                       *)

(* There is no row at the start.                                           *)
LEMMA RowsInit == Init => RowsInv
BY TypeInit DEF Init, RowsInv, IdsDiffer, RowHeld, RequestsOK, InGroup

(* The handler keeps its group and its row while it works on the group.    *)
GroupKept ==
    \A q \in Processors :
       pc'[q] \in InGroup =>
          pc[q] \in InGroup /\ wid'[q] = wid[q] /\ grp'[q] = grp[q]

(* Only the upsert puts a handler past the upsert.                         *)
LEMMA GroupKeptStep ==
    ASSUME TypeInv, [Next /\ UNCHANGED setting]_<<vars, setting>>,
           \A p \in Processors : ~CreateWorkload(p)
    PROVE  GroupKept
<1>1. pc \in [Processors -> Labels]
  BY DEF TypeInv, TypeOK
<1>2. /\ grp \in [Processors -> Group] /\ DOMAIN wid = Processors
  BY DEF TypeInv, TypeOK
<1>3. ASSUME NEW p \in Processors, PostResults(p) \/ InsertMetrics(p)
      PROVE  GroupKept
  BY <1>1, <1>3 DEF GroupKept, PostResults, Offer, InsertMetrics, GoTo, InGroup,
     groupVars
<1>4. ASSUME NEW p \in Processors,
             \/ Receive(p) \/ NextFile(p) \/ EndReport(p) \/ CreateCluster(p)
             \/ EndFile(p)
      PROVE  GroupKept
  BY <1>1, <1>4 DEF GroupKept, Receive, NextFile, EndReport, CreateCluster, EndFile,
     GoTo, InGroup, groupVars
<1>5. ASSUME NEW p \in Processors, NEW l \in Labels, l \notin InGroup, GoTo(p, l),
             \A q \in Processors \ {p} : wid'[q] = wid[q] /\ grp'[q] = grp[q]
      PROVE  GroupKept
  BY <1>1, <1>5 DEF GroupKept, GoTo
<1>6. ASSUME NEW p \in Processors, CreateExperiment(p) PROVE GroupKept
  <2>1. \/ GoTo(p, "workload") /\ wid' = wid /\ \E g : grp' = [grp EXCEPT ![p] = g]
        \/ EndGroup(p)
    BY <1>6 DEF CreateExperiment
  <2> QED
    BY <1>2, <1>5, <2>1 DEF EndGroup, ForgetGroup, Labels, InGroup
<1>7. ASSUME NEW p \in Processors, SendRequest(p) \/ Crash(p) PROVE GroupKept
  BY <1>2, <1>5, <1>7 DEF SendRequest, Crash, EndGroup, ForgetGroup, Labels, InGroup
<1>8. ASSUME NEW p \in Processors,
             \/ PostFailed(p) \/ SetupProfile(p) \/ AutoCommit(p) \/ Close(p)
             \/ Assign(p)
      PROVE  UNCHANGED <<pc, wid, grp>>
  BY <1>8 DEF PostFailed, SetupProfile, AutoCommit, Close, Assign, groupVars
<1>9. Upload \/ RestartKruize \/ Housekeep \/ UNCHANGED vars =>
         UNCHANGED <<pc, wid, grp>>
  BY DEF Upload, RestartKruize, Housekeep, FindCluster, ListWorkloads,
     DeleteExperiment, DeleteCluster, CrashHousekeeper, vars, groupVars
<1>10. UNCHANGED <<pc, wid, grp>> => GroupKept
  BY DEF GroupKept
<1> QED
  BY <1>3, <1>4, <1>6, <1>7, <1>8, <1>9, <1>10 DEF Next, Step, Progress

(* A step that keeps the rows there ever were, and adds no request, keeps  *)
(* what is known of them.                                                  *)
LEMMA RowsKept ==
    ASSUME RowsInv, TypeInv', GroupKept, requests' = requests,
           workloads' \cup gone' = workloads \cup gone
    PROVE  RowsInv'
BY DEF RowsInv, IdsDiffer, RowHeld, RequestsOK, GroupKept

(* What the upsert of a workload does: it finds the row of its cluster and *)
(* experiment, or adds one under a new id, or fails.                       *)
LEMMA UpsertCases ==
    ASSUME TypeInv, NEW p \in Processors, CreateWorkload(p)
    PROVE  \/ /\ UNCHANGED <<workloads, lastIds>>
              /\ EndGroup(p)
           \/ /\ UNCHANGED <<workloads, lastIds, grp>>
              /\ \E w \in workloads : w.id = wid'[p] /\ w.exp = grp[p].exp
              /\ \A q \in Processors \ {p} : wid'[q] = wid[q]
              /\ GoTo(p, "post")
              /\ chunks' = [chunks EXCEPT ![p] = ChunksOf(grp[p].ends)]
           \/ /\ cid[p] \in ClusterIds
              /\ wid'[p] = lastIds.workloads + 1 /\ wid'[p] <= MaxIds
              /\ workloads' = workloads \cup {[id  |-> wid'[p], cid |-> cid[p],
                                               exp |-> grp[p].exp]}
              /\ \A q \in Processors \ {p} : wid'[q] = wid[q]
              /\ grp' = grp
              /\ GoTo(p, "post")
              /\ chunks' = [chunks EXCEPT ![p] = ChunksOf(grp[p].ends)]
<1>1. /\ wid \in [Processors -> 0 .. lastIds.workloads]
      /\ lastIds \in [clusters : 0 .. MaxIds, workloads : 0 .. MaxIds]
  BY DEF TypeInv, TypeOK
<1>2. ASSUME lastIds' = [lastIds EXCEPT !.workloads = @ + 1]
      PROVE  lastIds'.workloads = lastIds.workloads + 1
  BY <1>1, <1>2
<1>3. lastIds.workloads < MaxIds => lastIds.workloads + 1 <= MaxIds
  BY <1>1, LimitsAssumption
<1> QED
  BY <1>1, <1>2, <1>3 DEF CreateWorkload, MakeResults

(* Rows come with the upsert, requests with SendRequest, and rows go with  *)
(* their cluster; no other step touches either.                            *)
LEMMA RowsUntouched ==
    ASSUME [Next /\ UNCHANGED setting]_<<vars, setting>>, ~DeleteCluster,
           \A p \in Processors : ~CreateWorkload(p) /\ ~SendRequest(p)
    PROVE  UNCHANGED <<workloads, gone, requests>>
<1>1. ASSUME NEW p \in Processors, Step(p)
      PROVE  UNCHANGED <<workloads, gone, requests>>
  BY <1>1 DEF Step, Progress, Receive, NextFile, EndReport, CreateCluster, EndFile,
     CreateExperiment, PostResults, PostFailed, SetupProfile,
     InsertMetrics, tableVars, houseVars
<1>2. ASSUME NEW p \in Processors,
             AutoCommit(p) \/ Close(p) \/ Assign(p) \/ Crash(p)
      PROVE  UNCHANGED <<workloads, gone, requests>>
  BY <1>2 DEF AutoCommit, Close, Assign, Crash, tableVars, houseVars
<1>3. ASSUME Upload \/ RestartKruize \/ Housekeep \/ UNCHANGED vars
      PROVE  UNCHANGED <<workloads, gone, requests>>
  BY <1>3 DEF Upload, RestartKruize, Housekeep, FindCluster, ListWorkloads,
     DeleteExperiment, CrashHousekeeper, vars, tableVars, houseVars
<1> QED
  BY <1>1, <1>2, <1>3 DEF Next

(* Every step keeps the ids apart, and keeps handlers and requests to rows *)
(* of their experiment.                                                    *)
LEMMA RowsStep ==
    RowsInv /\ [Next /\ UNCHANGED setting]_<<vars, setting>> => RowsInv'
<1> SUFFICES ASSUME RowsInv, [Next /\ UNCHANGED setting]_<<vars, setting>>
             PROVE  RowsInv'
  OBVIOUS
<1>1. TypeInv /\ TypeInv'
  BY TypeStep DEF RowsInv
<1>2. /\ workloads \subseteq [id  : 1 .. lastIds.workloads,
                              cid : 1 .. lastIds.clusters, exp : Exps]
      /\ gone \subseteq [id  : 1 .. lastIds.workloads,
                         cid : 1 .. lastIds.clusters, exp : Exps]
      /\ lastIds.workloads \in Nat
      /\ pc \in [Processors -> Labels]
  BY LimitsAssumption DEF RowsInv, TypeInv, TypeOK
<1>3. ASSUME NEW p \in Processors, CreateWorkload(p) PROVE RowsInv'
  <2>1. UNCHANGED <<gone, requests>>
    BY <1>3 DEF CreateWorkload, houseVars
  <2>2. CASE UNCHANGED <<workloads, lastIds>> /\ EndGroup(p)
    <3>1. GroupKept
      <4>1. DOMAIN wid = Processors /\ DOMAIN grp = Processors
        BY <1>1 DEF TypeInv, TypeOK
      <4> QED
        BY <1>2, <2>2, <4>1 DEF GroupKept, EndGroup, ForgetGroup, GoTo, InGroup
    <3> QED
      BY <1>1, <2>1, <2>2, <3>1, RowsKept
  <2>3. CASE /\ UNCHANGED <<workloads, lastIds, grp>>
             /\ \E w \in workloads : w.id = wid'[p] /\ w.exp = grp[p].exp
             /\ \A q \in Processors \ {p} : wid'[q] = wid[q]
             /\ GoTo(p, "post")
    BY <1>1, <1>2, <2>1, <2>3 DEF RowsInv, IdsDiffer, RowHeld, RequestsOK, GoTo, InGroup
  <2>4. CASE /\ wid'[p] = lastIds.workloads + 1
             /\ workloads' = workloads \cup {[id  |-> wid'[p], cid |-> cid[p],
                                              exp |-> grp[p].exp]}
             /\ \A q \in Processors \ {p} : wid'[q] = wid[q]
             /\ grp' = grp
             /\ GoTo(p, "post")
    <3>1. IdsDiffer'
      <4>1. \A w \in workloads \cup gone : w.id # wid'[p]
        BY <1>2, <2>4
      <4> QED
        BY <2>1, <2>4, <4>1 DEF RowsInv, IdsDiffer
    <3>2. RowHeld'
      <4> DEFINE new == [id |-> wid'[p], cid |-> cid[p], exp |-> grp[p].exp]
      <4>1. new \in workloads' /\ new.id = wid'[p] /\ new.exp = grp'[p].exp
        BY <2>4
      <4>2. ASSUME NEW q \in Processors, q # p, pc'[q] \in InGroup
            PROVE  \E w \in workloads' \cup gone' :
                      w.id = wid'[q] /\ w.exp = grp'[q].exp
        <5>1. pc[q] \in InGroup /\ wid'[q] = wid[q] /\ grp'[q] = grp[q]
          BY <1>2, <2>4, <4>2 DEF GoTo
        <5> QED
          BY <2>1, <2>4, <5>1 DEF RowsInv, RowHeld
      <4> HIDE DEF new
      <4> QED
        BY <4>1, <4>2 DEF RowHeld
    <3>3. RequestsOK'
      BY <2>1, <2>4 DEF RowsInv, RequestsOK
    <3> QED
      BY <1>1, <3>1, <3>2, <3>3 DEF RowsInv
  <2> QED
    BY <1>1, <1>3, <2>2, <2>3, <2>4, UpsertCases
<1>4. ASSUME NEW p \in Processors, SendRequest(p), GroupKept PROVE RowsInv'
  <2>1. UNCHANGED <<workloads, gone>>
    BY <1>4 DEF SendRequest, tableVars, houseVars
  <2>2. \/ requests' = requests
        \/ \E t : requests' = requests \cup {[wid |-> wid[p], exp |-> grp[p].exp,
                                              end |-> t]}
    BY <1>4 DEF SendRequest
  <2>3. \E w \in workloads \cup gone : w.id = wid[p] /\ w.exp = grp[p].exp
    BY <1>4 DEF SendRequest, RowsInv, RowHeld, InGroup
  <2>4. RequestsOK'
    BY <2>1, <2>2, <2>3 DEF RowsInv, RequestsOK
  <2> QED
    BY <1>1, <1>4, <2>1, <2>4 DEF RowsInv, IdsDiffer, RowHeld, GroupKept
<1>5. ASSUME GroupKept, DeleteCluster PROVE RowsInv'
  <2>1. requests' = requests /\ workloads' \cup gone' = workloads \cup gone
    BY <1>5 DEF DeleteCluster
  <2> QED
    BY <1>1, <1>5, <2>1, RowsKept
<1>6. CASE \E p \in Processors : CreateWorkload(p)
  BY <1>3, <1>6
<1>7. CASE \A p \in Processors : ~CreateWorkload(p)
  <2>1. GroupKept
    BY <1>1, <1>7, GroupKeptStep
  <2>2. CASE ~DeleteCluster /\ \A p \in Processors : ~SendRequest(p)
    <3>1. UNCHANGED <<workloads, gone, requests>>
      BY <1>7, <2>2, RowsUntouched
    <3> QED
      BY <1>1, <2>1, <3>1, RowsKept
  <2> QED
    BY <1>4, <1>5, <2>1, <2>2
<1> QED
  BY <1>6, <1>7

(* The processors and the housekeeper implement the feed the poller relies *)
(* on: whatever fails and however they interleave, the poller is only      *)
(* asked about a row that was upserted for the experiment it is asked      *)
(* about, an id names one row for ever, and a deleted row does not return. *)
THEOREM IngestKeepsToFeed == Spec => FeedSpec
<1>1. Init => TheFeed!Init
  BY DEF Init, TheFeed!Init, RowsOf, AskedOf
<1>2. RowsInv /\ [Next /\ UNCHANGED setting]_<<vars, setting>> =>
         [TheFeed!Next]_(TheFeed!feedVars)
  <2> SUFFICES ASSUME RowsInv, [Next /\ UNCHANGED setting]_<<vars, setting>>
               PROVE  \/ TheFeed!Next
                      \/ UNCHANGED <<RowsOf(workloads), RowsOf(gone),
                                     AskedOf(requests)>>
    BY DEF TheFeed!feedVars
  <2>1. /\ workloads \subseteq [id  : 1 .. lastIds.workloads,
                                cid : 1 .. lastIds.clusters, exp : Exps]
        /\ gone \subseteq [id  : 1 .. lastIds.workloads,
                           cid : 1 .. lastIds.clusters, exp : Exps]
        /\ lastIds.workloads \in 0 .. MaxIds /\ MaxIds \in Nat
        /\ grp \in [Processors -> Group]
    BY LimitsAssumption DEF RowsInv, TypeInv, TypeOK
  <2>2. ASSUME NEW p \in Processors, CreateWorkload(p)
        PROVE  TheFeed!Next \/ UNCHANGED <<RowsOf(workloads), RowsOf(gone),
                                           AskedOf(requests)>>
    <3>1. UNCHANGED <<gone, requests>>
      BY <2>2 DEF CreateWorkload, houseVars
    <3>2. CASE UNCHANGED workloads
      BY <3>1, <3>2 DEF RowsOf, AskedOf
    <3>3. CASE /\ wid'[p] = lastIds.workloads + 1 /\ wid'[p] <= MaxIds
               /\ workloads' = workloads \cup {[id  |-> wid'[p], cid |-> cid[p],
                                                exp |-> grp[p].exp]}
      <4> DEFINE r == [id |-> wid'[p], exp |-> grp[p].exp]
      <4>1. r \in [id : 1 .. MaxIds, exp : Exps]
        BY <2>1, <3>3 DEF Group
      <4>2. \A v \in RowsOf(workloads) \cup RowsOf(gone) : v.id # r.id
        BY <2>1, <3>3 DEF RowsOf
      <4>3. RowsOf(workloads)' = RowsOf(workloads) \cup {r}
        <5> DEFINE new == [id |-> wid'[p], cid |-> cid[p], exp |-> grp[p].exp]
        <5>1. workloads' = workloads \cup {new}
          BY <3>3
        <5>2. r = [id |-> new.id, exp |-> new.exp]
          OBVIOUS
        <5> HIDE DEF new, r
        <5> QED
          BY <5>1, <5>2, Zenon DEF RowsOf
      <4>4. UNCHANGED <<RowsOf(gone), AskedOf(requests)>>
        BY <3>1
      <4> HIDE DEF r
      <4>5. TheFeed!Report(r)
        BY <4>2, <4>3, <4>4 DEF TheFeed!Report
      <4> QED
        BY <4>1, <4>5 DEF TheFeed!Next
    <3> QED
      BY <2>2, <3>2, <3>3, UpsertCases DEF RowsInv
  <2>3. ASSUME NEW p \in Processors, SendRequest(p)
        PROVE  TheFeed!Next \/ UNCHANGED <<RowsOf(workloads), RowsOf(gone),
                                           AskedOf(requests)>>
    <3> DEFINE r == [id |-> wid[p], exp |-> grp[p].exp]
    <3>1. UNCHANGED <<workloads, gone>>
      BY <2>3 DEF SendRequest, tableVars, houseVars
    <3>2. PICK w \in workloads \cup gone : w.id = wid[p] /\ w.exp = grp[p].exp
      BY <2>3 DEF SendRequest, RowsInv, RowHeld, InGroup
    <3>3. r \in RowsOf(workloads) \cup RowsOf(gone)
      BY <3>2 DEF RowsOf
    <3>4. r \in [id : 1 .. MaxIds, exp : Exps]
      BY <2>1, <3>2
    <3>5. AskedOf(requests)' \in {AskedOf(requests), AskedOf(requests) \cup {r}}
      BY <2>3 DEF SendRequest, AskedOf
    <3> HIDE DEF r
    <3>6. AskedOf(requests)' = AskedOf(requests) \cup {r} => TheFeed!Ask(r)
      BY <3>1, <3>3 DEF TheFeed!Ask
    <3> QED
      BY <3>1, <3>4, <3>5, <3>6 DEF TheFeed!Next
  <2>4. ASSUME DeleteCluster
        PROVE  TheFeed!Next
    <3> DEFINE S == RowsOf(workloads \ workloads')
    <3>1. /\ workloads' \subseteq workloads /\ requests' = requests
          /\ gone' = gone \cup (workloads \ workloads')
      BY <2>4 DEF DeleteCluster
    <3>2. S \subseteq RowsOf(workloads)
      BY DEF RowsOf
    <3>3. \A v, w \in workloads : v.id = w.id => v = w
      BY DEF RowsInv, IdsDiffer
    <3>4. RowsOf(workloads)' = RowsOf(workloads) \ S
      BY <3>1, <3>3 DEF RowsOf
    <3>5. RowsOf(gone)' = RowsOf(gone) \cup S
      BY <3>1 DEF RowsOf
    <3>6. UNCHANGED AskedOf(requests)
      BY <3>1
    <3> HIDE DEF S
    <3>7. TheFeed!Remove(S)
      BY <3>2, <3>4, <3>5, <3>6 DEF TheFeed!Remove
    <3> QED
      BY <3>2, <3>7 DEF TheFeed!Next
  <2>5. CASE /\ ~DeleteCluster
             /\ \A p \in Processors : ~CreateWorkload(p) /\ ~SendRequest(p)
    BY <2>5, RowsUntouched
  <2> QED
    BY <2>2, <2>3, <2>4, <2>5
<1>3. Spec => []RowsInv
  BY RowsInit, RowsStep, PTL DEF Spec
<1> QED
  BY <1>1, <1>2, <1>3, PTL DEF Spec, FeedSpec, TheFeed!Spec

-----------------------------------------------------------------------------
(* Results and metrics                                                     *)

(* There are no metrics and no requests at the start.                      *)
LEMMA ResultsInit == Init => ResultsInv
BY RowsInit DEF Init, ResultsInv, ChunksOK, ChunksSent, ResultsBeforeRequest,
   MetricsAccounted, InGroup

(* The interval of a chunk is in the first chunk or in one of the others.  *)
LEMMA HeadOrTail ==
    ASSUME NEW s \in Seq(Seq(Nat)), NEW j \in 1 .. Len(s), NEW t \in Ends(s[j])
    PROVE  /\ s # <<>>
           /\ \/ t \in Ends(Head(s))
              \/ \E k \in 1 .. Len(Tail(s)) : t \in Ends(Tail(s)[k])
<1>1. Len(s) \in Nat /\ s # <<>>
  OBVIOUS
<1>2. CASE j = 1
  BY <1>1, <1>2
<1>3. CASE j # 1
  <2>1. j - 1 \in 1 .. Len(Tail(s)) /\ Tail(s)[j - 1] = s[j]
    BY <1>1, <1>3
  <2> QED
    BY <1>1, <2>1
<1> QED
  BY <1>2, <1>3

(* No result is untried or unsent; metrics come with InsertMetrics and go *)
(* with their cluster, rows too.                                           *)
LEMMA StoresStep ==
    ASSUME [Next /\ UNCHANGED setting]_<<vars, setting>>
    PROVE  /\ offered \subseteq offered' /\ tried \subseteq tried'
           /\ ~DeleteCluster => workloads \subseteq workloads'
           /\ \/ DeleteCluster
              \/ \E p \in Processors : InsertMetrics(p)
              \/ metrics' = metrics
           /\ requests' = requests \/ \E p \in Processors : SendRequest(p)
<1>1. ASSUME NEW p \in Processors, Step(p)
      PROVE  /\ offered \subseteq offered' /\ tried \subseteq tried'
             /\ workloads \subseteq workloads'
  BY <1>1 DEF Step, Progress, Receive, NextFile, EndReport, CreateCluster, EndFile,
     CreateExperiment, CreateWorkload, PostResults, PostFailed, SetupProfile,
     InsertMetrics, SendRequest, Offer, MakeResults, tableVars, kruizeVars, ghostVars
<1>2. ASSUME NEW p \in Processors, Step(p), ~InsertMetrics(p)
      PROVE  metrics' = metrics
  BY <1>2 DEF Step, Progress, Receive, NextFile, EndReport, CreateCluster, EndFile,
     CreateExperiment, CreateWorkload, PostResults, PostFailed, SetupProfile,
     SendRequest, tableVars
<1>3. ASSUME NEW p \in Processors, Step(p), ~SendRequest(p)
      PROVE  requests' = requests
  BY <1>3 DEF Step, Progress, Receive, NextFile, EndReport, CreateCluster, EndFile,
     CreateExperiment, CreateWorkload, PostResults, PostFailed, SetupProfile,
     InsertMetrics
<1>4. ASSUME NEW p \in Processors,
             AutoCommit(p) \/ Close(p) \/ Assign(p) \/ Crash(p)
      PROVE  UNCHANGED <<workloads, metrics, offered, tried, requests>>
  BY <1>4 DEF AutoCommit, Close, Assign, Crash, tableVars, kruizeVars, ghostVars
<1>5. ASSUME Upload \/ RestartKruize \/ Housekeep \/ UNCHANGED vars
      PROVE  /\ UNCHANGED <<offered, tried, requests>>
             /\ DeleteCluster \/ UNCHANGED <<workloads, metrics>>
  BY <1>5 DEF Upload, RestartKruize, Housekeep, FindCluster, ListWorkloads,
     DeleteExperiment, DeleteCluster, CrashHousekeeper, vars, tableVars, kruizeVars,
     ghostVars
<1> QED
  BY <1>1, <1>2, <1>3, <1>4, <1>5 DEF Next

(* Only four steps move a handler within its group.                        *)
LEMMA ChunksKept ==
    ASSUME TypeInv, [Next /\ UNCHANGED setting]_<<vars, setting>>,
           NEW q \in Processors, pc'[q] \in InGroup
    PROVE  \/ CreateWorkload(q) \/ PostResults(q) \/ PostFailed(q)
           \/ InsertMetrics(q)
           \/ pc'[q] = pc[q] /\ grp'[q] = grp[q] /\ chunks'[q] = chunks[q]
<1> DEFINE Same == pc'[q] = pc[q] /\ grp'[q] = grp[q] /\ chunks'[q] = chunks[q]
<1>1. pc \in [Processors -> Labels]
  BY DEF TypeInv, TypeOK
<1>2. DOMAIN grp = Processors /\ DOMAIN chunks = Processors
  BY DEF TypeInv, TypeOK
<1>3. ASSUME NEW p \in Processors,
             \/ Receive(p) \/ NextFile(p) \/ EndReport(p) \/ CreateCluster(p)
             \/ EndFile(p) \/ SetupProfile(p)
      PROVE  Same
  BY <1>1, <1>3 DEF Receive, NextFile, EndReport, CreateCluster, EndFile, SetupProfile,
     GoTo, InGroup, groupVars
<1>4. ASSUME NEW p \in Processors, CreateExperiment(p) PROVE Same
  <2>1. \/ GoTo(p, "workload") /\ chunks' = chunks /\ \E g : grp' = [grp EXCEPT ![p] = g]
        \/ EndGroup(p)
    BY <1>4 DEF CreateExperiment
  <2> QED
    BY <1>1, <1>2, <2>1 DEF EndGroup, ForgetGroup, GoTo, InGroup
<1>5. ASSUME NEW p \in Processors, SendRequest(p) \/ Crash(p) PROVE Same
  BY <1>1, <1>2, <1>5 DEF SendRequest, Crash, EndGroup, ForgetGroup, GoTo, InGroup
<1>6. ASSUME NEW p \in Processors, p # q,
             \/ CreateWorkload(p) \/ PostResults(p) \/ PostFailed(p)
             \/ InsertMetrics(p)
      PROVE  Same
  BY <1>1, <1>2, <1>6 DEF CreateWorkload, MakeResults, PostResults, PostFailed,
     InsertMetrics, EndGroup, ForgetGroup, GoTo, groupVars
<1>7. ASSUME NEW p \in Processors, AutoCommit(p) \/ Close(p) \/ Assign(p)
      PROVE  Same
  BY <1>7 DEF AutoCommit, Close, Assign, groupVars
<1>8. ASSUME Upload \/ RestartKruize \/ Housekeep \/ UNCHANGED vars
      PROVE  Same
  BY <1>8 DEF Upload, RestartKruize, Housekeep, FindCluster, ListWorkloads,
     DeleteExperiment, DeleteCluster, CrashHousekeeper, vars, groupVars
<1> QED
  BY <1>3, <1>4, <1>5, <1>6, <1>7, <1>8 DEF Next, Step, Progress

(* Whatever the handlers do, a chunk is sent before its metrics are        *)
(* inserted, and no interval of a group is in neither place.               *)
LEMMA ChunksStep ==
    ASSUME RowsInv, ChunksOK, [Next /\ UNCHANGED setting]_<<vars, setting>>
    PROVE  ChunksOK'
<1>1. offered \subseteq offered' /\ tried \subseteq tried'
  BY StoresStep
<1> SUFFICES ASSUME NEW q \in Processors, pc'[q] \in InGroup
             PROVE  ChunksSent(q)'
  BY DEF ChunksOK, ChunksSent, InGroup
<1>2. ChunksSent(q)
  BY DEF ChunksOK
<1>3. /\ pc \in [Processors -> Labels] /\ grp \in [Processors -> Group]
      /\ chunks \in [Processors -> Seq(Seq(Nat))]
  BY DEF RowsInv, TypeInv, TypeOK
<1>4. CASE pc'[q] = pc[q] /\ grp'[q] = grp[q] /\ chunks'[q] = chunks[q]
  BY <1>1, <1>2, <1>4 DEF ChunksSent, NextResults
<1>5. CASE CreateWorkload(q)
  <2>1. /\ grp'[q] = grp[q] /\ chunks'[q] = ChunksOf(grp[q].ends)
        /\ pc'[q] = "post"
        /\ Results(grp[q].exp, grp[q].dropped) \subseteq tried'
    BY <1>3, <1>5 DEF CreateWorkload, MakeResults, EndGroup, ForgetGroup, GoTo, InGroup
  <2>2. grp[q].ends \in Seq(Nat)
    BY <1>3, GroupType
  <2>3. ASSUME NEW t \in IntervalEnds(grp[q])
        PROVE  \/ [exp |-> grp[q].exp, end |-> t] \in tried'
               \/ \E j \in 1 .. Len(chunks'[q]) : t \in Ends(chunks'[q][j])
    <3>1. CASE t \in Ends(grp[q].ends)
      BY <2>1, <2>2, <3>1, ChunksCover
    <3>2. CASE t \in grp[q].dropped
      BY <2>1, <3>2 DEF Results
    <3> QED
      BY <3>1, <3>2 DEF IntervalEnds
  <2> QED
    BY <2>1, <2>3 DEF ChunksSent
<1>6. CASE PostResults(q)
  <2>1. /\ pc'[q] = "insert" /\ pc[q] = "post"
        /\ grp' = grp /\ chunks' = chunks
        /\ NextResults(q) \subseteq offered' \cap tried'
    BY <1>3, <1>6 DEF PostResults, Offer, GoTo, groupVars
  <2> QED
    BY <1>1, <1>2, <2>1 DEF ChunksSent, NextResults, InGroup
<1>7. CASE PostFailed(q) \/ InsertMetrics(q)
  <2>1. /\ pc'[q] = "post" /\ pc[q] \in InGroup
        /\ grp' = grp /\ chunks'[q] = Tail(chunks[q])
        /\ NextResults(q) \subseteq tried'
    BY <1>1, <1>2, <1>3, <1>7 DEF PostFailed, InsertMetrics, GoTo, InGroup,
       ChunksSent
  <2>2. ASSUME NEW t \in IntervalEnds(grp[q])
        PROVE  \/ [exp |-> grp[q].exp, end |-> t] \in tried'
               \/ \E j \in 1 .. Len(Tail(chunks[q])) : t \in Ends(Tail(chunks[q])[j])
    <3>1. CASE [exp |-> grp[q].exp, end |-> t] \in tried
      BY <1>1, <3>1
    <3>2. CASE \E j \in 1 .. Len(chunks[q]) : t \in Ends(chunks[q][j])
      <4>1. \/ t \in Ends(Head(chunks[q]))
            \/ \E j \in 1 .. Len(Tail(chunks[q])) : t \in Ends(Tail(chunks[q])[j])
        BY <1>3, <3>2, HeadOrTail
      <4> QED
        BY <2>1, <4>1 DEF NextResults, ResultsOf, Results
    <3> QED
      BY <1>2, <2>1, <3>1, <3>2 DEF ChunksSent
  <2> QED
    BY <2>1, <2>2 DEF ChunksSent
<1> QED
  BY <1>4, <1>5, <1>6, <1>7, ChunksKept DEF RowsInv

(* Every step keeps requests behind the tries, and metrics to rows that  *)
(* are there and were sent to Kruize.                                      *)
LEMMA ResultsStep ==
    ResultsInv /\ [Next /\ UNCHANGED setting]_<<vars, setting>> => ResultsInv'
<1> SUFFICES ASSUME ResultsInv, [Next /\ UNCHANGED setting]_<<vars, setting>>
             PROVE  ResultsInv'
  OBVIOUS
<1>1. RowsInv' /\ ChunksOK'
  BY RowsStep, ChunksStep DEF ResultsInv
<1>2. offered \subseteq offered' /\ tried \subseteq tried'
  BY StoresStep
<1>3. ResultsBeforeRequest'
  <2>1. ASSUME NEW p \in Processors, NEW t \in IntervalEnds(grp[p]),
               pc[p] = "post", chunks[p] = <<>>
        PROVE  [exp |-> grp[p].exp, end |-> t] \in tried
    <3>1. ChunksSent(p) /\ Len(chunks[p]) = 0
      BY <2>1 DEF ResultsInv, ChunksOK
    <3> QED
      BY <2>1, <3>1 DEF ChunksSent, InGroup
  <2>2. ASSUME NEW p \in Processors, NEW t \in IntervalEnds(grp'[p]),
               pc'[p] = "post", chunks'[p] = <<>>
        PROVE  [exp |-> grp'[p].exp, end |-> t] \in tried'
    <3>1. ChunksSent(p)' /\ Len(chunks'[p]) = 0
      BY <1>1, <2>2 DEF ChunksOK
    <3> QED
      BY <2>2, <3>1 DEF ChunksSent, InGroup
  <2>3. ASSUME NEW r \in requests'
        PROVE  [exp |-> r.exp, end |-> r.end] \in tried
    <3>1. CASE r \in requests
      BY <3>1 DEF ResultsInv, ResultsBeforeRequest
    <3>2. CASE r \notin requests
      <4>1. PICK p \in Processors : SendRequest(p)
        BY <3>2, StoresStep
      <4>2. PICK t \in IntervalEnds(grp[p]) :
               r = [wid |-> wid[p], exp |-> grp[p].exp, end |-> t]
        BY <3>2, <4>1 DEF SendRequest
      <4>3. r.exp = grp[p].exp /\ r.end = t
        BY <4>2
      <4>4. pc[p] = "post" /\ chunks[p] = <<>>
        BY <4>1 DEF SendRequest
      <4> QED
        BY <2>1, <4>3, <4>4
    <3> QED
      BY <3>1, <3>2
  <2> QED
    BY <1>2, <2>2, <2>3 DEF ResultsBeforeRequest
<1>4. MetricsAccounted'
  <2>1. CASE DeleteCluster
    <3>1. \/ /\ workloads' \subseteq workloads
             /\ metrics' = {m \in metrics : \E w \in workloads' : w.id = m.wid}
          \/ UNCHANGED <<workloads, metrics>>
      BY <2>1 DEF DeleteCluster
    <3>2. \A v, w \in workloads : v.id = w.id => v = w
      BY DEF ResultsInv, RowsInv, IdsDiffer
    <3>3. ASSUME NEW m \in metrics'
          PROVE  \E w \in workloads' :
                    w.id = m.wid /\ [exp |-> w.exp, end |-> m.end] \in offered'
      <4>1. m \in metrics
        BY <3>1
      <4>2. PICK w \in workloads :
               w.id = m.wid /\ [exp |-> w.exp, end |-> m.end] \in offered
        BY <4>1 DEF ResultsInv, MetricsAccounted
      <4>3. w \in workloads'
        BY <3>1, <3>2, <4>2
      <4> QED
        BY <1>2, <4>2, <4>3
    <3> QED
      BY <3>3 DEF MetricsAccounted
  <2>2. ASSUME NEW p \in Processors, InsertMetrics(p) PROVE MetricsAccounted'
    <3>1. workloads' = workloads /\ pc[p] = "insert"
      BY <2>2 DEF InsertMetrics
    <3>2. ASSUME wid[p] \in WorkloadIds
          PROVE  \E w \in workloads : w.id = wid[p] /\ w.exp = grp[p].exp
      <4>1. PICK v \in workloads : v.id = wid[p]
        BY <3>2 DEF WorkloadIds
      <4>2. PICK w \in workloads \cup gone : w.id = wid[p] /\ w.exp = grp[p].exp
        BY <3>1 DEF ResultsInv, RowsInv, RowHeld, InGroup
      <4>3. v = w
        BY <4>1, <4>2 DEF ResultsInv, RowsInv, IdsDiffer
      <4> QED
        BY <4>1, <4>2, <4>3
    <3>3. NextResults(p) \subseteq offered
      BY <3>1 DEF ResultsInv, ChunksOK, ChunksSent
    <3>4. \A t \in Ends(Head(chunks[p])) : [exp |-> grp[p].exp, end |-> t] \in offered
      BY <3>3 DEF NextResults, ResultsOf, Results
    <3>5. \/ metrics' = metrics
          \/ /\ wid[p] \in WorkloadIds
             /\ metrics' = metrics \cup {[wid |-> wid[p], end |-> t] :
                                            t \in Ends(Head(chunks[p]))}
      BY <2>2 DEF InsertMetrics
    <3> QED
      BY <1>2, <3>1, <3>2, <3>4, <3>5 DEF ResultsInv, MetricsAccounted
  <2>3. CASE metrics' = metrics /\ workloads \subseteq workloads'
    BY <1>2, <2>3 DEF ResultsInv, MetricsAccounted
  <2> QED
    BY <2>1, <2>2, <2>3, StoresStep
<1> QED
  BY <1>1, <1>3, <1>4 DEF ResultsInv

(* Whatever chunk an interval is in and whichever calls fail, every result *)
(* of a report was tried before the poller is asked for the recommendation *)
(* at its last end time, and that end time is one of them.                 *)
THEOREM ResultsPrecedeRequests == Spec => []ResultsBeforeRequest
<1>1. Spec => []ResultsInv
  BY ResultsInit, ResultsStep, PTL DEF Spec
<1>2. ResultsInv => ResultsBeforeRequest
  BY DEF ResultsInv
<1> QED
  BY <1>1, <1>2, PTL

(* Metrics never outlive their workload, though the housekeeper deletes    *)
(* clusters between the upsert and the insert, and Kruize was sent them    *)
(* under the experiment of that workload.                                  *)
THEOREM MetricsAreAccounted == Spec => []MetricsAccounted
<1>1. Spec => []ResultsInv
  BY ResultsInit, ResultsStep, PTL DEF Spec
<1>2. ResultsInv => MetricsAccounted
  BY DEF ResultsInv
<1> QED
  BY <1>1, <1>2, PTL

-----------------------------------------------------------------------------
(* Experiments                                                             *)

(* There is no cluster, no row and no deletion at the start.               *)
LEMMA ExpsInit == Init => ExpsInv
BY TypeInit DEF Init, ExpsInv, ClustersOK, DeletionOK, ExperimentHeld,
   RowsKeepExperiment

(* Only the creation of an experiment puts a handler before the upsert.    *)
LEMMA AtWorkload ==
    ASSUME TypeInv, [Next /\ UNCHANGED setting]_<<vars, setting>>,
           NEW q \in Processors, pc'[q] = "workload"
    PROVE  \/ CreateExperiment(q)
           \/ pc[q] = "workload" /\ grp'[q] = grp[q] /\ cid'[q] = cid[q]
<1> DEFINE Same == pc[q] = "workload" /\ grp'[q] = grp[q] /\ cid'[q] = cid[q]
<1>1. pc \in [Processors -> Labels]
  BY DEF TypeInv, TypeOK
<1>2. DOMAIN grp = Processors /\ DOMAIN cid = Processors
  BY DEF TypeInv, TypeOK
<1>3. ASSUME NEW p \in Processors,
             \/ Receive(p) \/ NextFile(p) \/ EndReport(p) \/ CreateCluster(p)
             \/ EndFile(p)
      PROVE  Same
  BY <1>1, <1>2, <1>3 DEF Receive, NextFile, EndReport, CreateCluster, EndFile,
     ForgetReport, GoTo, groupVars, fileVars
<1>4. ASSUME NEW p \in Processors,
             \/ PostResults(p) \/ PostFailed(p) \/ InsertMetrics(p)
             \/ SetupProfile(p)
      PROVE  Same
  BY <1>1, <1>4 DEF PostResults, PostFailed, InsertMetrics, SetupProfile, GoTo,
     groupVars, fileVars
<1>5. ASSUME NEW p \in Processors,
             \/ CreateWorkload(p) \/ SendRequest(p) \/ Crash(p)
             \/ CreateExperiment(p) /\ p # q
      PROVE  Same
  BY <1>1, <1>2, <1>5, ZenonT(60)
     DEF CreateExperiment, CreateWorkload, SendRequest, Crash,
     EndGroup, ForgetGroup, ForgetReport, GoTo, fileVars
<1>6. ASSUME NEW p \in Processors, AutoCommit(p) \/ Close(p) \/ Assign(p)
      PROVE  Same
  BY <1>6 DEF AutoCommit, Close, Assign, groupVars, fileVars
<1>7. ASSUME Upload \/ RestartKruize \/ Housekeep \/ UNCHANGED vars
      PROVE  Same
  BY <1>7 DEF Upload, RestartKruize, Housekeep, FindCluster, ListWorkloads,
     DeleteExperiment, DeleteCluster, CrashHousekeeper, vars, groupVars, fileVars
<1> QED
  BY <1>3, <1>4, <1>5, <1>6, <1>7 DEF Next, Step, Progress

(* The steps that touch clusters, rows or experiments.                     *)
LEMMA ClustersUntouched ==
    ASSUME [Next /\ UNCHANGED setting]_<<vars, setting>>, ~Housekeep,
           \A p \in Processors :
              ~CreateCluster(p) /\ ~CreateExperiment(p) /\ ~CreateWorkload(p)
    PROVE  UNCHANGED <<clusters, workloads, exps, houseVars>>
<1>1. ASSUME NEW p \in Processors, Step(p)
      PROVE  UNCHANGED <<clusters, workloads, exps, houseVars>>
  BY <1>1 DEF Step, Progress, Receive, NextFile, EndReport, EndFile, PostResults,
     PostFailed, SetupProfile, InsertMetrics, SendRequest, tableVars, kruizeVars
<1>2. ASSUME NEW p \in Processors,
             AutoCommit(p) \/ Close(p) \/ Assign(p) \/ Crash(p)
      PROVE  UNCHANGED <<clusters, workloads, exps, houseVars>>
  BY <1>2 DEF AutoCommit, Close, Assign, Crash, tableVars, kruizeVars
<1>3. ASSUME Upload \/ RestartKruize \/ UNCHANGED vars
      PROVE  UNCHANGED <<clusters, workloads, exps, houseVars>>
  BY <1>3 DEF Upload, RestartKruize, vars, tableVars, kruizeVars
<1> QED
  BY <1>1, <1>2, <1>3 DEF Next

(* While an experiment is deleted, every cluster is excused: it is the one *)
(* the experiment is deleted for, or it has another alias.                 *)
LEMMA DeletionExcuses ==
    ASSUME ClustersOK, DeletionOK, hpc = "delete", hexps # {}, NEW k \in clusters
    PROVE  Excused(k)
BY DEF ClustersOK, DeletionOK, Excused

(* A step that forgets no cluster, no experiment and no deletion that was  *)
(* begun, and adds no row, keeps experiments to rows and handlers.         *)
LEMMA ExperimentsKept ==
    ASSUME ExpsInv, TypeInv', clusters \subseteq clusters', workloads' = workloads,
           exps \subseteq exps', begun \subseteq begun',
           \A q \in Processors :
              pc'[q] = "workload" =>
                 \/ grp'[q].exp \in exps'
                 \/ /\ pc[q] = "workload" /\ grp'[q] = grp[q] /\ cid'[q] = cid[q]
                    /\ \A k \in clusters' \ clusters : k.id # cid[q]
    PROVE  ExperimentHeld' /\ RowsKeepExperiment'
<1>1. ASSUME NEW k, Excused(k) PROVE Excused(k)'
  BY <1>1 DEF Excused
<1>2. ExperimentHeld'
  BY <1>1 DEF ExpsInv, ExperimentHeld
<1>3. RowsKeepExperiment'
  BY DEF ExpsInv, RowsKeepExperiment
<1> QED
  BY <1>2, <1>3

(* Every step keeps the experiments of rows, unless the housekeeper began  *)
(* to delete them.                                                         *)
LEMMA ExpsStep ==
    ExpsInv /\ [Next /\ UNCHANGED setting]_<<vars, setting>> => ExpsInv'
<1> SUFFICES ASSUME ExpsInv, [Next /\ UNCHANGED setting]_<<vars, setting>>
             PROVE  ExpsInv'
  OBVIOUS
<1>1. TypeInv'
  BY TypeStep DEF ExpsInv
<1>2. /\ clusters \subseteq [id : 1 .. lastIds.clusters, alias : Aliases]
      /\ lastIds \in [clusters : 0 .. MaxIds, workloads : 0 .. MaxIds]
      /\ lastIds.clusters \in Nat
      /\ cid \in [Processors -> 0 .. lastIds.clusters]
      /\ pc \in [Processors -> Labels] /\ grp \in [Processors -> Group]
  BY LimitsAssumption DEF ExpsInv, TypeInv, TypeOK
<1>3. ASSUME NEW q \in Processors, pc'[q] = "workload"
      PROVE  \/ CreateExperiment(q)
             \/ pc[q] = "workload" /\ grp'[q] = grp[q] /\ cid'[q] = cid[q]
  BY <1>3, AtWorkload DEF ExpsInv
<1>4. ASSUME NEW p \in Processors, CreateExperiment(p) PROVE ExpsInv'
  <2>1. UNCHANGED <<clusters, workloads, hpc, hexps, hcid, begun>>
    BY <1>4 DEF CreateExperiment, tableVars, houseVars
  <2>2. exps \subseteq exps' /\ (pc'[p] = "workload" => grp'[p].exp \in exps')
    BY <1>2, <1>4 DEF CreateExperiment, EndGroup, GoTo
  <2>3. ASSUME NEW q \in Processors, q # p, pc'[q] = "workload"
        PROVE  pc[q] = "workload" /\ grp'[q] = grp[q] /\ cid'[q] = cid[q]
    BY <1>2, <1>4, <2>3 DEF CreateExperiment, EndGroup, ForgetGroup, GoTo
  <2>4. ExperimentHeld' /\ RowsKeepExperiment'
    BY <1>1, <2>1, <2>2, <2>3, ExperimentsKept
  <2>5. ClustersOK' /\ DeletionOK'
    BY <2>1 DEF ExpsInv, ClustersOK, DeletionOK, ClusterIds
  <2> QED
    BY <1>1, <2>4, <2>5 DEF ExpsInv
<1>5. ASSUME NEW p \in Processors, CreateCluster(p) PROVE ExpsInv'
  <2>1. UNCHANGED <<workloads, exps, hpc, hexps, hcid, begun>>
    BY <1>5 DEF CreateCluster, kruizeVars, houseVars
  <2>2. \/ clusters' = clusters
        \/ /\ \A k \in clusters : k.alias # log[pos[p]].alias
           /\ clusters' = clusters \cup {[id    |-> lastIds.clusters + 1,
                                          alias |-> log[pos[p]].alias]}
    <3>1. ASSUME lastIds' = [lastIds EXCEPT !.clusters = @ + 1]
          PROVE  lastIds'.clusters = lastIds.clusters + 1
      BY <1>2, <3>1
    <3> QED
      BY <1>5, <3>1 DEF CreateCluster
  <2>3. \A k \in clusters' \ clusters : k.id = lastIds.clusters + 1
    BY <2>2
  <2>4. \A q \in Processors, k \in clusters' \ clusters : k.id # cid[q]
    BY <1>2, <2>3
  <2>5. ASSUME NEW q \in Processors, CreateExperiment(q) PROVE FALSE
    BY <1>2, <1>5, <2>5 DEF CreateExperiment, CreateCluster, EndGroup, GoTo
  <2>6. ExperimentHeld' /\ RowsKeepExperiment'
    BY <1>1, <1>3, <2>1, <2>2, <2>4, <2>5, ExperimentsKept
  <2>7. ClustersOK'
    <3>1. ClusterIds \subseteq ClusterIds'
      BY <2>2 DEF ClusterIds
    <3>2. \A k \in clusters : k.id # lastIds.clusters + 1
      BY <1>2
    <3> QED
      BY <2>1, <2>2, <3>1, <3>2 DEF ExpsInv, ClustersOK
  <2>8. DeletionOK'
    BY <2>1, <2>2 DEF ExpsInv, DeletionOK
  <2> QED
    BY <1>1, <2>6, <2>7, <2>8 DEF ExpsInv
<1>6. ASSUME NEW p \in Processors, CreateWorkload(p) PROVE ExpsInv'
  <2>1. UNCHANGED <<clusters, exps, hpc, hexps, hcid, begun>>
    BY <1>6 DEF CreateWorkload, kruizeVars, houseVars
  <2>2. pc[p] = "workload" /\ pc'[p] # "workload"
    BY <1>2, <1>6 DEF CreateWorkload, EndGroup, GoTo
  <2>3. ASSUME NEW w \in workloads' \ workloads
        PROVE  w.cid = cid[p] /\ cid[p] \in ClusterIds /\ w.exp = grp[p].exp
    BY <1>6, <2>3 DEF CreateWorkload
  <2>4. ASSUME NEW w \in workloads'
        PROVE  \/ w.exp \in exps
               \/ \E k \in clusters, b \in begun :
                     k.id = w.cid /\ (b.id = k.id \/ b.alias # k.alias)
    <3>1. CASE w \in workloads
      BY <3>1 DEF ExpsInv, RowsKeepExperiment
    <3>2. CASE w \notin workloads
      <4>1. PICK k \in clusters : k.id = w.cid
        BY <2>3, <3>2 DEF ClusterIds
      <4>2. w.exp \in exps \/ Excused(k)
        BY <2>2, <2>3, <3>2, <4>1 DEF ExpsInv, ExperimentHeld
      <4> QED
        BY <4>1, <4>2 DEF Excused
    <3> QED
      BY <3>1, <3>2
  <2>5. RowsKeepExperiment'
    BY <2>1, <2>4 DEF RowsKeepExperiment
  <2>6. ASSUME NEW q \in Processors, pc'[q] = "workload"
        PROVE  pc[q] = "workload" /\ grp'[q] = grp[q] /\ cid'[q] = cid[q]
    BY <1>2, <1>6, <2>2, <2>6 DEF CreateWorkload, EndGroup, ForgetGroup, GoTo, fileVars
  <2>7. ExperimentHeld'
    BY <2>1, <2>6 DEF ExpsInv, ExperimentHeld, Excused
  <2>8. ClustersOK'
    <3>1. ClusterIds' = ClusterIds
      BY <2>1 DEF ClusterIds
    <3>2. \A w \in workloads' : w.cid \in ClusterIds
      BY <2>3 DEF ExpsInv, ClustersOK
    <3> QED
      BY <2>1, <3>1, <3>2 DEF ExpsInv, ClustersOK
  <2>9. DeletionOK'
    BY <2>1 DEF ExpsInv, DeletionOK
  <2> QED
    BY <1>1, <2>5, <2>7, <2>8, <2>9 DEF ExpsInv
<1>7. CASE Housekeep
  <2>1. UNCHANGED <<pc, grp, cid>>
    BY <1>7 DEF Housekeep, FindCluster, ListWorkloads, DeleteExperiment,
       DeleteCluster, CrashHousekeeper, groupVars, fileVars
  <2>2. CASE FindCluster \/ CrashHousekeeper
    <3>1. UNCHANGED <<clusters, workloads, exps, begun>> /\ hpc' # "delete"
      BY <2>2 DEF FindCluster, CrashHousekeeper, tableVars, kruizeVars
    <3>2. ExperimentHeld' /\ RowsKeepExperiment'
      BY <1>1, <2>1, <3>1, ExperimentsKept
    <3> QED
      BY <1>1, <3>1, <3>2 DEF ExpsInv, ClustersOK, DeletionOK, ClusterIds
  <2>3. CASE ListWorkloads
    <3>1. UNCHANGED <<clusters, workloads, exps, hcid>> /\ begun \subseteq begun'
      BY <2>3 DEF ListWorkloads, tableVars, kruizeVars
    <3>2. ExperimentHeld' /\ RowsKeepExperiment'
      BY <1>1, <2>1, <3>1, ExperimentsKept
    <3>3. ClustersOK'
      BY <3>1 DEF ExpsInv, ClustersOK, ClusterIds
    <3>4. DeletionOK'
      <4> SUFFICES ASSUME hpc' = "delete", hexps' # {}
                   PROVE  \E b \in begun' \cap clusters : b.id = hcid
        BY <3>1 DEF DeletionOK
      <4>1. /\ hexps' = {w.exp : w \in {v \in workloads : v.cid = hcid}}
            /\ begun' = begun \cup {k \in clusters : k.id = hcid}
        BY <2>3 DEF ListWorkloads
      <4>2. PICK w \in workloads : w.cid = hcid
        BY <4>1
      <4>3. PICK k \in clusters : k.id = hcid
        BY <4>2 DEF ExpsInv, ClustersOK, ClusterIds
      <4> QED
        BY <4>1, <4>3
    <3> QED
      BY <1>1, <3>2, <3>3, <3>4 DEF ExpsInv
  <2>4. CASE DeleteExperiment
    <3>1. /\ UNCHANGED <<clusters, workloads, hpc, hcid, begun>>
          /\ hpc = "delete" /\ hexps # {} /\ hexps' \subseteq hexps
      BY <2>4 DEF DeleteExperiment, tableVars
    <3>2. ASSUME NEW k \in clusters PROVE Excused(k)
      BY <3>1, DeletionExcuses DEF ExpsInv
    <3>3. ClustersOK' /\ DeletionOK'
      BY <3>1 DEF ExpsInv, ClustersOK, DeletionOK, ClusterIds
    <3>4. ExperimentHeld'
      BY <3>1, <3>2 DEF ExperimentHeld, Excused
    <3>5. RowsKeepExperiment'
      <4>1. \A w \in workloads : \E k \in clusters : k.id = w.cid
        BY DEF ExpsInv, ClustersOK, ClusterIds
      <4> QED
        BY <3>1, <3>2, <4>1 DEF RowsKeepExperiment, Excused
    <3> QED
      BY <1>1, <3>3, <3>4, <3>5 DEF ExpsInv
  <2>5. CASE DeleteCluster
    <3>1. /\ UNCHANGED <<exps, begun>> /\ hpc' # "delete"
          /\ \/ UNCHANGED <<clusters, workloads>>
             \/ /\ clusters' = {k \in clusters : k.id # hcid}
                /\ workloads' = {w \in workloads : w.cid # hcid}
      BY <2>5 DEF DeleteCluster, kruizeVars
    <3>2. DeletionOK'
      BY <3>1 DEF DeletionOK
    <3>3. ClustersOK'
      <4>1. \A w \in workloads : \E k \in clusters : k.id = w.cid
        BY DEF ExpsInv, ClustersOK, ClusterIds
      <4>2. \A w \in workloads' : \E k \in clusters' : k.id = w.cid
        BY <3>1, <4>1
      <4>3. \A w \in workloads' : w.cid \in ClusterIds'
        BY <4>2 DEF ClusterIds
      <4>4. clusters' \subseteq clusters
        BY <3>1
      <4> QED
        BY <4>3, <4>4 DEF ExpsInv, ClustersOK
    <3>4. ExperimentHeld'
      BY <2>1, <3>1 DEF ExpsInv, ExperimentHeld, Excused
    <3>5. RowsKeepExperiment'
      BY <3>1 DEF ExpsInv, RowsKeepExperiment
    <3> QED
      BY <1>1, <3>2, <3>3, <3>4, <3>5 DEF ExpsInv
  <2> QED
    BY <1>7, <2>2, <2>3, <2>4, <2>5 DEF Housekeep
<1>8. CASE /\ ~Housekeep
           /\ \A p \in Processors :
                 ~CreateCluster(p) /\ ~CreateExperiment(p) /\ ~CreateWorkload(p)
  <2>1. UNCHANGED <<clusters, workloads, exps, hpc, hexps, hcid, begun>>
    BY <1>8, ClustersUntouched DEF houseVars
  <2>2. ExperimentHeld' /\ RowsKeepExperiment'
    BY <1>1, <1>3, <1>8, <2>1, ExperimentsKept
  <2> QED
    BY <1>1, <2>1, <2>2 DEF ExpsInv, ClustersOK, DeletionOK, ClusterIds
<1> QED
  BY <1>4, <1>5, <1>6, <1>7, <1>8

(* However reports and the deletion of their source interleave, a workload *)
(* row has its experiment in Kruize, unless the housekeeper began to       *)
(* delete the experiments of its cluster or of the cluster's other alias.  *)
THEOREM RowsKeepTheirExperiment == Spec => []RowsKeepExperiment
<1>1. Spec => []ExpsInv
  BY ExpsInit, ExpsStep, PTL DEF Spec
<1>2. ExpsInv => RowsKeepExperiment
  BY DEF ExpsInv
<1> QED
  BY <1>1, <1>2, PTL
=============================================================================
