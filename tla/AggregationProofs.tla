-------------------------- MODULE AggregationProofs -------------------------
(***************************************************************************)
(* Proofs about the aggregation, for all files: any number of rows, any    *)
(* names, times and values, any order of groups and of the rows in them.   *)
(***************************************************************************)
EXTENDS Aggregation, FiniteSetTheorems, TLAPS

(* The rows the file is aggregated to, and those of one experiment.        *)
AggregatedRows == IF hasMissingColumnsCSV(file) THEN {} ELSE Aggregate_data(file)
GroupOf(e) == {x \in AggregatedRows : x.key.experiment = e}
Seen == {x.key.experiment : x \in AggregatedRows}

(* What is recorded for one experiment.                                    *)
SentFor(e) == {x \in results : x.experiment = e}
KeptFor(e) == {m \in metrics : m.place.experiment = e}
AskedFor(e) == {q \in requests : q.experiment = e}

Nothing(e) == SentFor(e) = {} /\ KeptFor(e) = {} /\ AskedFor(e) = {}

(* The choices of a row of each end.                                       *)
Picks(group) ==
    {first \in [Ends(group) -> group] : \A t \in Ends(group) : first[t].key.end = t}

(* The payload of the group was sent, saved and announced.                 *)
Recorded(e) ==
    /\ \E first \in Picks(GroupOf(e)) :
          SentFor(e) = Payload(file.kind, e, GroupOf(e), first)
    /\ KeptFor(e) \in Inserts(SentFor(e))
    /\ AskedFor(e) = {[experiment |-> e, end |-> MaxIntervalEndTime(GroupOf(e))]}

(* A group that is not done has left no trace; one that is done has left   *)
(* all it should.                                                          *)
Done(e) ==
    IF BadTime \in Ends(GroupOf(e)) THEN Nothing(e) ELSE Recorded(e)

OnlySeen ==
    /\ \A x \in results : x.experiment \in Seen
    /\ \A m \in metrics : m.place.experiment \in Seen
    /\ \A q \in requests : q.experiment \in Seen

GroupsInv ==
    /\ groups \subseteq {GroupOf(e) : e \in Seen}
    /\ pc = "load" => groups = {}
    /\ OnlySeen
    /\ \A e \in Seen : IF GroupOf(e) \in groups THEN Nothing(e) ELSE Done(e)

FileInv ==
    /\ file \in Files /\ pc \in {"load", "aggregate", "send"}
    /\ IF pc = "aggregate"
       THEN groups = {} /\ results = {} /\ metrics = {} /\ requests = {}
       ELSE GroupsInv

-----------------------------------------------------------------------------
(***************************************************************************)
(* The groups are sent one by one.                                         *)
(***************************************************************************)
(* An experiment that was seen has a row, and all rows of its group are    *)
(* its own.                                                                *)
LEMMA GroupFacts ==
    /\ \A e \in Seen : GroupOf(e) # {}
    /\ \A e : \A x \in GroupOf(e) : x.key.experiment = e
    /\ \A e \in Seen : (CHOOSE x \in GroupOf(e) : TRUE).key.experiment = e
    /\ \A d, e \in Seen : GroupOf(d) = GroupOf(e) => d = e
<1>1. \A e \in Seen : GroupOf(e) # {}
  BY DEF Seen, GroupOf
<1>2. \A e : \A x \in GroupOf(e) : x.key.experiment = e
  BY DEF GroupOf
<1>3. ASSUME NEW e \in Seen
      PROVE  (CHOOSE x \in GroupOf(e) : TRUE).key.experiment = e
  <2>1. (CHOOSE x \in GroupOf(e) : TRUE) \in GroupOf(e)
    BY <1>1
  <2> QED
    BY <1>2, <2>1
<1>4. ASSUME NEW d \in Seen, NEW e \in Seen, GroupOf(d) = GroupOf(e)
      PROVE  d = e
  BY <1>1, <1>2, <1>4
<1> QED
  BY <1>1, <1>2, <1>3, <1>4

(* Nothing is known of another file.                                       *)
LEMMA SameFile ==
    ASSUME file' = file
    PROVE  /\ AggregatedRows' = AggregatedRows
           /\ Seen' = Seen
           /\ \A e : GroupOf(e)' = GroupOf(e)
BY DEF AggregatedRows, Seen, GroupOf

(* All that is sent of a group is sent for its experiment.                 *)
LEMMA PayloadFacts ==
    ASSUME NEW kind, NEW e, NEW group, NEW first
    PROVE  \A x \in Payload(kind, e, group, first) : x.experiment = e
BY DEF Payload, Result

(* So is all that is saved.                                                *)
LEMMA InsertFacts ==
    ASSUME NEW e, NEW sent, \A x \in sent : x.experiment = e,
           NEW kept \in Inserts(sent)
    PROVE  \A m \in kept : m.place.experiment = e
<1>1. ASSUME NEW m \in kept PROVE m.place.experiment = e
  <2>1. PICK x \in sent : \E y \in x.entries : m = [place |-> Place(x, y), entry |-> y]
    BY DEF Inserts
  <2> QED
    BY <2>1 DEF Place
<1> QED
  BY <1>1

(* Init.                                                                   *)
LEMMA GroupsInit == Init => FileInv
BY DEF Init, FileInv

(* Every step keeps the account of the groups.                             *)
LEMMA GroupsStep ==
    ASSUME FileInv, [Next]_vars
    PROVE  FileInv'
<1>1. CASE Load
  BY <1>1 DEF Load, FileInv, GroupsInv
<1>2. CASE Aggregate
  <2>1. /\ pc = "aggregate" /\ UNCHANGED <<file, results, metrics, requests>>
        /\ groups' = {GroupOf(e) : e \in Seen}
        /\ pc' = After(groups')
    BY <1>2 DEF Aggregate, GroupOf, Seen, AggregatedRows
  <2>2. results' = {} /\ metrics' = {} /\ requests' = {}
    BY <2>1 DEF FileInv
  <2>3. Seen' = Seen /\ \A e : GroupOf(e)' = GroupOf(e)
    BY <2>1, SameFile
  <2>4. \A e : Nothing(e)'
    BY <2>2 DEF Nothing, SentFor, KeptFor, AskedFor
  <2>5. GroupsInv'
    BY <2>1, <2>2, <2>3, <2>4 DEF GroupsInv, OnlySeen, After
  <2> QED
    BY <2>1, <2>5 DEF FileInv, After
<1>3. ASSUME NEW group \in groups, Skip(group) PROVE FileInv'
  <2>1. /\ pc = "send" /\ UNCHANGED <<file, results, metrics, requests>>
        /\ BadTime \in Ends(group)
        /\ groups' = groups \ {group} /\ pc' = After(groups')
    BY <1>3 DEF Parses, Skip, Finish
  <2>2. file \in Files /\ GroupsInv
    BY <2>1 DEF FileInv
  <2>3. PICK d \in Seen : group = GroupOf(d)
    BY <2>2 DEF GroupsInv
  <2>4. Seen' = Seen /\ \A e : GroupOf(e)' = GroupOf(e)
    BY <2>1, SameFile
  <2>5. \A e : (Nothing(e)' <=> Nothing(e)) /\ (Done(e)' <=> Done(e))
    BY <2>1, <2>4 DEF Done, Nothing, Recorded, SentFor, KeptFor, AskedFor
  <2>6. OnlySeen'
    BY <2>1, <2>2, <2>4 DEF GroupsInv, OnlySeen
  <2>7. ASSUME NEW e \in Seen
        PROVE  IF GroupOf(e) \in groups' THEN Nothing(e)' ELSE Done(e)'
    <3>1. CASE e = d
      BY <2>1, <2>2, <2>3, <2>5, <3>1 DEF GroupsInv, Done
    <3>2. CASE e # d
      <4>1. GroupOf(e) # group
        BY <2>3, <3>2, GroupFacts
      <4> QED
        BY <2>1, <2>2, <2>5, <4>1 DEF GroupsInv
    <3> QED
      BY <3>1, <3>2
  <2>8. GroupsInv'
    BY <2>1, <2>2, <2>4, <2>6, <2>7 DEF GroupsInv, After
  <2> QED
    BY <2>1, <2>2, <2>8 DEF FileInv, After
<1>4. ASSUME NEW group \in groups, Send(group) PROVE FileInv'
  <2>1. /\ pc = "send" /\ file' = file
        /\ BadTime \notin Ends(group)
        /\ groups' = groups \ {group} /\ pc' = After(groups')
    BY <1>4 DEF Parses, Send, Finish
  <2>2. file \in Files /\ GroupsInv
    BY <2>1 DEF FileInv
  <2>3. PICK d \in Seen : group = GroupOf(d)
    BY <2>2 DEF GroupsInv
  <2>4. Seen' = Seen /\ \A e : GroupOf(e)' = GroupOf(e)
    BY <2>1, SameFile
  <2>5. (CHOOSE x \in group : TRUE).key.experiment = d
    BY <2>3, GroupFacts
  <2>6. PICK first \in Picks(group) :
          /\ results' = results \union Payload(file.kind, d, group, first)
          /\ \E kept \in Inserts(Payload(file.kind, d, group, first)) :
                metrics' = metrics \union kept
          /\ requests' = requests \union
                {[experiment |-> d, end |-> MaxIntervalEndTime(group)]}
    BY <1>4, <2>5 DEF Send, Picks
  <2> DEFINE sent == Payload(file.kind, d, group, first)
             ask == [experiment |-> d, end |-> MaxIntervalEndTime(group)]
  <2>7. PICK kept \in Inserts(sent) : metrics' = metrics \union kept
    BY <2>6
  <2>8. \A x \in sent : x.experiment = d
    BY PayloadFacts
  <2>9. \A m \in kept : m.place.experiment = d
    BY <2>8, InsertFacts
  <2>10. ask.experiment = d
    OBVIOUS
  <2>11. results' = results \union sent /\ requests' = requests \union {ask}
    BY <2>6
  <2> HIDE DEF sent, ask
  <2>12. OnlySeen'
    BY <2>2, <2>4, <2>7, <2>8, <2>9, <2>10, <2>11 DEF GroupsInv, OnlySeen
  <2>13. ASSUME NEW e \in Seen, e # d
         PROVE  /\ SentFor(e)' = SentFor(e) /\ KeptFor(e)' = KeptFor(e)
                /\ AskedFor(e)' = AskedFor(e)
    BY <2>7, <2>8, <2>9, <2>10, <2>11, <2>13 DEF SentFor, KeptFor, AskedFor
  <2>14. Nothing(d)
    BY <2>2, <2>3 DEF GroupsInv
  <2>15. SentFor(d)' = sent /\ KeptFor(d)' = kept /\ AskedFor(d)' = {ask}
    BY <2>7, <2>8, <2>9, <2>10, <2>11, <2>14 DEF Nothing, SentFor, KeptFor, AskedFor
  <2>16. Recorded(d)'
    <3>1. SentFor(d)' = Payload(file.kind, d, GroupOf(d), first)
      BY <2>3, <2>15 DEF sent
    <3>2. AskedFor(d)' = {[experiment |-> d, end |-> MaxIntervalEndTime(GroupOf(d))]}
      BY <2>3, <2>15 DEF ask
    <3>3. KeptFor(d)' \in Inserts(SentFor(d)')
      BY <2>7, <2>15
    <3>4. first \in Picks(GroupOf(d))
      BY <2>3
    <3> QED
      BY <2>1, <2>4, <3>1, <3>2, <3>3, <3>4 DEF Recorded
  <2>17. ASSUME NEW e \in Seen
         PROVE  IF GroupOf(e) \in groups' THEN Nothing(e)' ELSE Done(e)'
    <3>1. CASE e = d
      BY <2>1, <2>3, <2>4, <2>16, <3>1 DEF Done
    <3>2. CASE e # d
      <4>1. GroupOf(e) # group
        BY <2>3, <3>2, GroupFacts
      <4>2. (Nothing(e)' <=> Nothing(e)) /\ (Done(e)' <=> Done(e))
        BY <2>1, <2>4, <2>13, <3>2 DEF Done, Nothing, Recorded
      <4> QED
        BY <2>1, <2>2, <4>1, <4>2 DEF GroupsInv
    <3> QED
      BY <3>1, <3>2
  <2>18. GroupsInv'
    BY <2>1, <2>2, <2>4, <2>12, <2>17 DEF GroupsInv, After
  <2> QED
    BY <2>1, <2>2, <2>18 DEF FileInv, After
<1>5. CASE UNCHANGED vars
  <2>1. UNCHANGED <<file, pc, groups, results, metrics, requests>>
    BY <1>5 DEF vars
  <2>2. Seen' = Seen /\ \A e : GroupOf(e)' = GroupOf(e)
    BY <2>1, SameFile
  <2>3. \A e : (Nothing(e)' <=> Nothing(e)) /\ (Done(e)' <=> Done(e))
    BY <2>1, <2>2 DEF Done, Nothing, Recorded, SentFor, KeptFor, AskedFor
  <2>4. OnlySeen' <=> OnlySeen
    BY <2>1, <2>2 DEF OnlySeen
  <2>5. GroupsInv' <=> GroupsInv
    BY <2>1, <2>2, <2>3, <2>4 DEF GroupsInv
  <2> QED
    BY <2>1, <2>5 DEF FileInv
<1> QED
  BY <1>1, <1>2, <1>3, <1>4, <1>5 DEF Next

(* In every reachable state a group that is not done has left no trace in  *)
(* the results, the metrics table and the requests, and one that is done   *)
(* has left exactly what its payload holds.                                *)
THEOREM GroupsAccounted == Spec => []FileInv
<1>1. Init => FileInv
  BY GroupsInit
<1>2. FileInv /\ [Next]_vars => FileInv'
  BY GroupsStep
<1> QED
  BY <1>1, <1>2, PTL DEF Spec

-----------------------------------------------------------------------------
(***************************************************************************)
(* The metrics table.                                                      *)
(***************************************************************************)
(* There is one result for each end.                                       *)
LEMMA OneResult ==
    ASSUME NEW kind, NEW e, NEW group, NEW first \in Picks(group),
           NEW x \in Payload(kind, e, group, first),
           NEW z \in Payload(kind, e, group, first), x.end = z.end
    PROVE  x = z
<1>1. PICK t \in Ends(group) : x = Result(kind, e, group, first[t])
  BY DEF Payload
<1>2. PICK u \in Ends(group) : z = Result(kind, e, group, first[u])
  BY DEF Payload
<1>3. x.end = first[t].key.end /\ z.end = first[u].key.end
  BY <1>1, <1>2 DEF Result
<1>4. first[t].key.end = t /\ first[u].key.end = u
  BY DEF Picks
<1> QED
  BY <1>1, <1>2, <1>3, <1>4

(* The insert takes its rows from what was sent, one for each place.       *)
LEMMA InsertsKeep ==
    ASSUME NEW sent, NEW kept \in Inserts(sent)
    PROVE  /\ \A m \in kept : \E x \in sent : \E y \in x.entries :
                 m.place = Place(x, y) /\ m.entry = y
           /\ \A x \in sent : \A y \in x.entries :
                 Cardinality({m \in kept : m.place = Place(x, y)}) = 1
<1> DEFINE offered == UNION {{[place |-> Place(x, y), entry |-> y] : y \in x.entries} :
                                x \in sent}
           places == {m.place : m \in offered}
<1>1. /\ kept \subseteq offered
      /\ \A p \in places : Cardinality({m \in kept : m.place = p}) = 1
  BY DEF Inserts
<1>2. ASSUME NEW m \in kept
      PROVE  \E x \in sent : \E y \in x.entries : m.place = Place(x, y) /\ m.entry = y
  BY <1>1
<1>3. ASSUME NEW x \in sent, NEW y \in x.entries
      PROVE  Cardinality({m \in kept : m.place = Place(x, y)}) = 1
  <2>1. [place |-> Place(x, y), entry |-> y] \in offered
    OBVIOUS
  <2>2. [place |-> Place(x, y), entry |-> y].place = Place(x, y)
    OBVIOUS
  <2>3. Place(x, y) \in places
    BY <2>1, <2>2
  <2> QED
    BY <1>1, <2>3
<1> QED
  BY <1>2, <1>3

(* A result belongs to an experiment whose group is done.                  *)
LEMMA ResultRecorded ==
    ASSUME FileInv, NEW x \in results
    PROVE  /\ x.experiment \in Seen /\ x \in SentFor(x.experiment)
           /\ BadTime \notin Ends(GroupOf(x.experiment))
           /\ Recorded(x.experiment)
<1>1. GroupsInv
  BY DEF FileInv
<1>2. x.experiment \in Seen
  BY <1>1 DEF GroupsInv, OnlySeen
<1>3. x \in SentFor(x.experiment)
  BY DEF SentFor
<1>4. ~Nothing(x.experiment)
  BY <1>3 DEF Nothing
<1>5. Done(x.experiment)
  BY <1>1, <1>2, <1>4 DEF GroupsInv
<1> QED
  BY <1>2, <1>3, <1>4, <1>5 DEF Done

(* The metrics of a result are rows it was sent with.                      *)
LEMMA MetricsState ==
    ASSUME FileInv
    PROVE  MetricsFollowResults
<1>1. ASSUME NEW x \in results, NEW y \in x.entries
      PROVE  /\ Cardinality({m \in metrics : m.place = Place(x, y)}) = 1
             /\ \A m \in {n \in metrics : n.place = Place(x, y)} :
                   m.entry \in {z \in x.entries : z.container = y.container}
  <2> DEFINE e == x.experiment
             sent == SentFor(e)
             all == KeptFor(e)
             p == Place(x, y)
  <2>1. x \in sent /\ Recorded(e)
    BY ResultRecorded
  <2>2. PICK first \in Picks(GroupOf(e)) :
          sent = Payload(file.kind, e, GroupOf(e), first)
    BY <2>1 DEF Recorded
  <2>3. all \in Inserts(sent)
    BY <2>1 DEF Recorded
  <2>4. p.experiment = e /\ p.container = y.container /\ p.end = x.end
    BY DEF Place
  <2>5. {m \in metrics : m.place = p} = {m \in all : m.place = p}
    BY <2>4 DEF KeptFor
  <2> HIDE DEF e, sent, all
  <2>6. Cardinality({m \in all : m.place = p}) = 1
    BY <2>1, <2>3, InsertsKeep
  <2>7. ASSUME NEW m \in all, m.place = p
        PROVE  m.entry \in x.entries /\ m.entry.container = y.container
    <3>1. PICK z \in sent : \E w \in z.entries : m.place = Place(z, w) /\ m.entry = w
      BY <2>3, InsertsKeep
    <3>2. PICK w \in z.entries : m.place = Place(z, w) /\ m.entry = w
      BY <3>1
    <3>3. Place(z, w).end = z.end /\ Place(z, w).container = w.container
      BY DEF Place
    <3>4. z.end = x.end /\ w.container = y.container
      BY <2>4, <2>7, <3>2, <3>3
    <3>5. z = x
      BY <2>1, <2>2, <3>4, OneResult
    <3> QED
      BY <3>2, <3>4, <3>5
  <2> QED
    BY <2>5, <2>6, <2>7
<1>2. ASSUME NEW m \in metrics
      PROVE  \E x \in results : \E y \in x.entries :
                m.entry = y /\ m.place.experiment = x.experiment /\ m.place.end = x.end
  <2> DEFINE e == m.place.experiment
  <2>1. GroupsInv
    BY DEF FileInv
  <2>2. e \in Seen /\ m \in KeptFor(e)
    BY <2>1 DEF GroupsInv, OnlySeen, KeptFor
  <2>3. Recorded(e)
    BY <2>1, <2>2 DEF GroupsInv, Nothing, Done
  <2>4. KeptFor(e) \in Inserts(SentFor(e))
    BY <2>3 DEF Recorded
  <2>5. PICK x \in SentFor(e) : \E y \in x.entries :
          m.place = Place(x, y) /\ m.entry = y
    BY <2>2, <2>4, InsertsKeep
  <2>6. PICK y \in x.entries : m.place = Place(x, y) /\ m.entry = y
    BY <2>5
  <2>7. Place(x, y).experiment = x.experiment /\ Place(x, y).end = x.end
    BY DEF Place
  <2> QED
    BY <2>5, <2>6, <2>7 DEF SentFor
<1> QED
  BY <1>1, <1>2 DEF MetricsFollowResults

(* MetricsFollowResults holds in every reachable state: the insert of each *)
(* group saves one row for every container of every result, taken from     *)
(* that result, and nothing else.                                          *)
THEOREM MetricsFollow == Spec => []MetricsFollowResults
BY GroupsAccounted, MetricsState, PTL

-----------------------------------------------------------------------------
(***************************************************************************)
(* Sums.  Induction is over a set of numbers, the sizes of sets, so that   *)
(* it needs no operator as a parameter.                                    *)
(***************************************************************************)
(* A non-empty set of numbers has a least one.                             *)
LEMMA LeastNumber ==
    ASSUME NEW T \in SUBSET Nat, T # {}
    PROVE  \E x \in T : \A y \in T : x <= y
<1>1. IsWellFoundedOn(OpToRel(<, Nat), Nat)
  BY NatLessThanWellFounded
<1>2. PICK x \in T : \A y \in T : ~ (<<y, x>> \in OpToRel(<, Nat))
  BY <1>1, WFMin
<1>3. \A y \in T : ~(y < x)
  BY <1>2 DEF OpToRel
<1> QED
  BY <1>3

(* Among finite sets there is one that none of the others is part of.      *)
LEMMA SmallestSet ==
    ASSUME NEW D, IsFiniteSet(D), NEW B \in SUBSET (SUBSET D), B # {}
    PROVE  \E s \in B : \A t \in SUBSET s : t # s => t \notin B
<1>1. \A s \in B : IsFiniteSet(s) /\ Cardinality(s) \in Nat
  BY FS_Subset, FS_CardinalityType
<1> DEFINE T == {Cardinality(s) : s \in B}
<1>2. T \in SUBSET Nat /\ T # {}
  BY <1>1
<1> HIDE DEF T
<1>3. PICK n \in T : \A m \in T : n <= m
  BY <1>2, LeastNumber
<1>4. PICK s \in B : n = Cardinality(s)
  BY <1>3 DEF T
<1>5. ASSUME NEW t \in SUBSET s, t # s, t \in B PROVE FALSE
  <2>1. Cardinality(t) <= Cardinality(s) /\ Cardinality(s) # Cardinality(t)
    BY <1>1, <1>4, <1>5, FS_Subset
  <2>2. Cardinality(t) \in T /\ Cardinality(t) \in Nat /\ Cardinality(s) \in Nat
    BY <1>1, <1>4, <1>5 DEF T
  <2> QED
    BY <1>3, <1>4, <2>1, <2>2
<1> QED
  BY <1>5

(* The element a sum takes next.                                           *)
Taken(s) == CHOOSE x \in s : TRUE

(* h has the sum of v over each part of D, as it is computed, for the      *)
(* parts with at most n elements.                                          *)
Adds(v, h, s) == h[s] = IF s = {} THEN 0 ELSE v[Taken(s)] + h[s \ {Taken(s)}]
SumsUpTo(v, D, n, h) ==
    /\ h \in [SUBSET D -> Int]
    /\ \A s \in SUBSET D : Cardinality(s) <= n => Adds(v, h, s)

(* A set without an element is a smaller part.                             *)
LEMMA OneLess ==
    ASSUME NEW D, IsFiniteSet(D), NEW s \in SUBSET D, NEW x \in s
    PROVE  /\ s \ {x} \in SUBSET D /\ s \ {x} # s
           /\ Cardinality(s) \in Nat \ {0}
           /\ Cardinality(s \ {x}) = Cardinality(s) - 1
<1>1. IsFiniteSet(s)
  BY FS_Subset
<1>2. Cardinality(s) \in Nat /\ Cardinality(s) # 0
  BY <1>1, FS_CardinalityType, FS_EmptySet
<1>3. Cardinality(s \ {x}) = IF x \in s THEN Cardinality(s) - 1 ELSE Cardinality(s)
  BY <1>1, FS_RemoveElement
<1> QED
  BY <1>2, <1>3

(* There is a table of the sums.                                           *)
LEMMA SumsExist ==
    ASSUME NEW D, IsFiniteSet(D), NEW v \in [D -> Int]
    PROVE  \E h \in [SUBSET D -> Int] : \A s \in SUBSET D : Adds(v, h, s)
<1> DEFINE G == {n \in Nat : \E h : SumsUpTo(v, D, n, h)}
           Bad == Nat \ G
<1>1. \A s \in SUBSET D : IsFiniteSet(s) /\ Cardinality(s) \in Nat
                           /\ Cardinality(s) <= Cardinality(D)
  BY FS_Subset, FS_CardinalityType
<1>2. \A s \in SUBSET D : s # {} => Taken(s) \in s /\ v[Taken(s)] \in Int
  BY DEF Taken
<1>3. 0 \in G
  <2> DEFINE h == [s \in SUBSET D |-> 0]
  <2>1. h \in [SUBSET D -> Int]
    OBVIOUS
  <2>2. ASSUME NEW s \in SUBSET D, Cardinality(s) <= 0 PROVE Adds(v, h, s)
    <3>1. s = {}
      BY <1>1, <2>2, FS_EmptySet
    <3> QED
      BY <3>1 DEF Adds
  <2> HIDE DEF h
  <2>3. SumsUpTo(v, D, 0, h)
    BY <2>1, <2>2 DEF SumsUpTo
  <2> QED
    BY <2>3
<1>4. ASSUME NEW n \in G PROVE n + 1 \in G
  <2>1. PICK h : SumsUpTo(v, D, n, h)
    BY <1>4
  <2>2. h \in [SUBSET D -> Int]
    BY <2>1 DEF SumsUpTo
  <2> DEFINE new(s) == IF s = {} THEN 0 ELSE v[Taken(s)] + h[s \ {Taken(s)}]
             k == [s \in SUBSET D |-> new(s)]
  <2>3. \A s \in SUBSET D : s # {} => s \ {Taken(s)} \in SUBSET D
    OBVIOUS
  <2>4. \A s \in SUBSET D : new(s) \in Int
    BY <1>2, <2>2, <2>3
  <2>5. k \in [SUBSET D -> Int]
    BY <2>4
  <2>6. ASSUME NEW s \in SUBSET D, Cardinality(s) <= n PROVE k[s] = h[s]
    BY <2>1, <2>6 DEF SumsUpTo, Adds
  <2>7. ASSUME NEW s \in SUBSET D, Cardinality(s) <= n + 1 PROVE Adds(v, k, s)
    <3>1. CASE s = {}
      BY <3>1 DEF Adds
    <3>2. CASE s # {}
      <4>1. Taken(s) \in s
        BY <1>2, <3>2
      <4>2. s \ {Taken(s)} \in SUBSET D /\ Cardinality(s \ {Taken(s)}) <= n
        BY <1>4, <2>7, <4>1, OneLess
      <4>3. k[s \ {Taken(s)}] = h[s \ {Taken(s)}]
        BY <2>6, <4>2
      <4>4. k[s] = v[Taken(s)] + h[s \ {Taken(s)}]
        BY <3>2
      <4> HIDE DEF k
      <4> QED
        BY <3>2, <4>3, <4>4 DEF Adds
    <3> QED
      BY <3>1, <3>2
  <2> HIDE DEF k
  <2>8. SumsUpTo(v, D, n + 1, k)
    BY <2>5, <2>7 DEF SumsUpTo
  <2> QED
    BY <1>4, <2>8
<1> HIDE DEF G
<1>5. Bad = {}
  <2> SUFFICES ASSUME Bad # {} PROVE FALSE
    OBVIOUS
  <2>1. PICK n \in Bad : \A m \in Bad : n <= m
    <3> Bad \in SUBSET Nat
      OBVIOUS
    <3> HIDE DEF Bad
    <3> QED
      BY LeastNumber
  <2>2. n \in Nat /\ n # 0
    BY <1>3
  <2>3. n - 1 \in Nat /\ n - 1 \notin Bad
    BY <2>1, <2>2
  <2>4. (n - 1) + 1 \in G
    BY <1>4, <2>3
  <2> QED
    BY <2>2, <2>4
<1>6. Cardinality(D) \in G
  BY <1>1, <1>5
<1>7. PICK h : SumsUpTo(v, D, Cardinality(D), h)
  BY <1>6 DEF G
<1> QED
  BY <1>1, <1>7 DEF SumsUpTo

(* A table of the sums, and a part of v.                                   *)
Table(v, D, h) ==
    h \in [SUBSET D -> Int] /\ \A s \in SUBSET D : Adds(v, h, s)
PartOf(v, s, u) == u \in [s -> Int] /\ \A x \in s : u[x] = v[x]

(* SumFunction computes the entry of the table.                            *)
LEMMA SumComputed ==
    ASSUME NEW D, IsFiniteSet(D), NEW v, NEW h, Table(v, D, h),
           NEW s \in SUBSET D, NEW u, PartOf(v, s, u)
    PROVE  SumFunction(u) = h[s]
<1>h. h \in [SUBSET D -> Int] /\ \A t \in SUBSET D : Adds(v, h, t)
  BY DEF Table
<1>u. u \in [s -> Int] /\ \A x \in s : u[x] = v[x]
  BY DEF PartOf
<1> DEFINE Step(g) == [t \in SUBSET s |->
                         IF t = {} THEN 0 ELSE u[Taken(t)] + g[t \ {Taken(t)}]]
           iter == CHOOSE g : g = Step(g)
           k == [t \in SUBSET s |-> h[t]]
<1>1. SumFunction(u) = iter[s]
  <2>1. DOMAIN u = s
    BY <1>u
  <2> QED
    BY <2>1 DEF SumFunction, SumFunctionOnSet, FoldFunctionOnSet, MapThenFoldSet, Taken
<1>2. \A t \in SUBSET s : t # {} => /\ Taken(t) \in s /\ t \ {Taken(t)} \in SUBSET s
                                    /\ t \ {Taken(t)} # t
  BY DEF Taken
<1>3. \A t \in SUBSET s :
         h[t] = IF t = {} THEN 0 ELSE u[Taken(t)] + h[t \ {Taken(t)}]
  BY <1>h, <1>u, <1>2 DEF Adds
<1>4. k = Step(k)
  <2>1. \A t \in SUBSET s :
           k[t] = IF t = {} THEN 0 ELSE u[Taken(t)] + k[t \ {Taken(t)}]
    BY <1>2, <1>3
  <2> QED
    BY <2>1
<1>5. iter = Step(iter)
  <2> HIDE DEF Step, k
  <2> QED
    BY <1>4
<1> HIDE DEF iter
<1>6. \A t \in SUBSET s :
         iter[t] = IF t = {} THEN 0 ELSE u[Taken(t)] + iter[t \ {Taken(t)}]
  <2>1. \A t \in SUBSET s :
         Step(iter)[t] = IF t = {} THEN 0 ELSE u[Taken(t)] + iter[t \ {Taken(t)}]
    OBVIOUS
  <2> HIDE DEF Step
  <2> QED
    BY <1>5, <2>1, Zenon
<1> DEFINE B == {t \in SUBSET s : iter[t] # h[t]}
<1>7. B = {}
  <2> SUFFICES ASSUME B # {} PROVE FALSE
    OBVIOUS
  <2>1. B \in SUBSET (SUBSET s) /\ IsFiniteSet(s)
    BY FS_Subset
  <2>2. PICK t \in B : \A r \in SUBSET t : r # t => r \notin B
    <3> HIDE DEF B
    <3> QED
      BY <2>1, SmallestSet
  <2>3. CASE t = {}
    BY <1>3, <1>6, <2>3
  <2>4. CASE t # {}
    <3>1. iter[t \ {Taken(t)}] = h[t \ {Taken(t)}]
      BY <1>2, <2>2, <2>4
    <3> QED
      BY <1>3, <1>6, <2>4, <3>1
  <2> QED
    BY <2>3, <2>4
<1> QED
  BY <1>1, <1>7

(* h has the sum of v over each part of D, whatever the order.             *)
SumTable(v, D, h) ==
    /\ v \in [D -> Int] /\ h \in [SUBSET D -> Int] /\ h[{}] = 0
    /\ \A s \in SUBSET D : \A x \in s : h[s] = v[x] + h[s \ {x}]

(* SumFunction gives what is in the table.                                 *)
Tabulated(v, D, h) ==
    /\ SumTable(v, D, h)
    /\ \A s \in SUBSET D : \A u : PartOf(v, s, u) => SumFunction(u) = h[s]

(* A sum over a finite set does not depend on the order it is taken in:    *)
(* there is a table, and SumFunction gives what it has.                    *)
LEMMA SumTableExists ==
    ASSUME NEW D, IsFiniteSet(D), NEW v \in [D -> Int]
    PROVE  \E h : Tabulated(v, D, h)
<1>1. PICK h \in [SUBSET D -> Int] : \A s \in SUBSET D : Adds(v, h, s)
  BY SumsExist
<1>2. h[{}] = 0
  BY <1>1 DEF Adds
<1>3. \A s \in SUBSET D : s # {} =>
         Taken(s) \in s /\ h[s] = v[Taken(s)] + h[s \ {Taken(s)}]
  BY <1>1 DEF Adds, Taken
<1> DEFINE B == {s \in SUBSET D : \E x \in s : h[s] # v[x] + h[s \ {x}]}
<1>4. B = {}
  <2> SUFFICES ASSUME B # {} PROVE FALSE
    OBVIOUS
  <2>1. B \in SUBSET (SUBSET D)
    OBVIOUS
  <2>2. PICK s \in B : \A t \in SUBSET s : t # s => t \notin B
    <3> HIDE DEF B
    <3> QED
      BY <2>1, SmallestSet
  <2>3. PICK x \in s : h[s] # v[x] + h[s \ {x}]
    OBVIOUS
  <2> DEFINE c == Taken(s)
  <2>4. s \in SUBSET D /\ c \in s /\ h[s] = v[c] + h[s \ {c}]
    BY <1>3
  <2> HIDE DEF c
  <2>5. c # x
    BY <2>3, <2>4
  <2>6. s \ {c} \notin B /\ s \ {c} \in SUBSET D /\ x \in s \ {c}
    BY <2>2, <2>4, <2>5
  <2>7. s \ {x} \notin B /\ s \ {x} \in SUBSET D /\ c \in s \ {x}
    BY <2>2, <2>4, <2>5
  <2>8. (s \ {c}) \ {x} = (s \ {x}) \ {c}
    OBVIOUS
  <2> DEFINE r == (s \ {x}) \ {c}
  <2>9. h[s \ {c}] = v[x] + h[r]
    BY <2>6, <2>8
  <2>10. h[s \ {x}] = v[c] + h[r]
    BY <2>7
  <2>11. v[x] \in Int /\ v[c] \in Int /\ h[r] \in Int /\ r \in SUBSET D
    BY <1>1, <2>4
  <2> HIDE DEF r, B
  <2> QED
    BY <2>3, <2>4, <2>9, <2>10, <2>11
<1>5. SumTable(v, D, h)
  BY <1>1, <1>2, <1>4 DEF SumTable
<1>6. ASSUME NEW s \in SUBSET D, NEW u, PartOf(v, s, u)
      PROVE  SumFunction(u) = h[s]
  <2>1. Table(v, D, h)
    BY <1>1 DEF Table
  <2> QED
    BY <1>6, <2>1, SumComputed
<1> QED
  BY <1>5, <1>6 DEF Tabulated

(* The sum over two sets that have nothing in common.                      *)
LEMMA SumUnion ==
    ASSUME NEW D, IsFiniteSet(D), NEW v, NEW h, SumTable(v, D, h),
           NEW a \in SUBSET D, NEW b \in SUBSET D, a \cap b = {}
    PROVE  h[a \cup b] = h[a] + h[b]
<1> DEFINE B == {s \in SUBSET b : h[a \cup s] # h[a] + h[s]}
<1>h. /\ v \in [D -> Int] /\ h \in [SUBSET D -> Int] /\ h[{}] = 0
      /\ \A s \in SUBSET D : \A x \in s : h[s] = v[x] + h[s \ {x}]
  BY DEF SumTable
<1>1. B = {}
  <2> SUFFICES ASSUME B # {} PROVE FALSE
    OBVIOUS
  <2>1. B \in SUBSET (SUBSET D)
    OBVIOUS
  <2>2. PICK s \in B : \A t \in SUBSET s : t # s => t \notin B
    <3> HIDE DEF B
    <3> QED
      BY <2>1, SmallestSet
  <2>a. s \in SUBSET b /\ h[a \cup s] # h[a] + h[s]
    BY <2>2
  <2>3. s # {}
    <3> HIDE DEF B
    <3>1. ASSUME s = {} PROVE FALSE
      <4>1. a \cup s = a /\ h[s] = 0 /\ h[a] \in Int
        BY <1>h, <3>1
      <4> DEFINE n == h[a]
      <4>2. h[a \cup s] = n /\ n \in Int
        BY <4>1
      <4>3. n # n + 0
        BY <2>a, <4>1
      <4> QED
        BY <4>2, <4>3
    <3> QED
      BY <3>1
  <2>4. PICK x \in s : TRUE
    BY <2>3
  <2> DEFINE r == s \ {x}
  <2>5. r \in SUBSET b /\ r \notin B
    BY <2>2
  <2>6. h[a \cup r] = h[a] + h[r]
    BY <2>5
  <2>7. h[s] = v[x] + h[r]
    BY <1>h
  <2>8. (a \cup s) \ {x} = a \cup r
    OBVIOUS
  <2>9. h[a \cup s] = v[x] + h[a \cup r]
    <3> DEFINE t == a \cup s
    <3>1. t \in SUBSET D /\ x \in t
      BY <2>a
    <3>2. t \ {x} = a \cup r
      BY <2>8
    <3> HIDE DEF t, r, B
    <3>3. h[t] = v[x] + h[t \ {x}]
      BY <1>h, <3>1
    <3> QED
      BY <3>2, <3>3 DEF t
  <2>10. v[x] \in Int /\ h[a] \in Int /\ h[r] \in Int
    BY <1>h
  <2> HIDE DEF r, B
  <2> QED
    BY <2>a, <2>6, <2>7, <2>9, <2>10
<1> QED
  BY <1>1

(* The part of D that g maps to y, and what v is on a part.                *)
Fibre(g, D, y) == {d \in D : g[d] = y}
On(v, s) == [d \in s |-> v[d]]

(* w has the sums over the parts that g divides D into.                    *)
Divides(g, D, Y, h, w) ==
    g \in [D -> Y] /\ \A y \in Y : w[y] = h[Fibre(g, D, y)]

(* A sum is the sum of the sums over the parts.                            *)
LEMMA SumOfSums ==
    ASSUME NEW D, IsFiniteSet(D), NEW v, NEW h, SumTable(v, D, h),
           NEW Y, IsFiniteSet(Y), NEW w, NEW k, SumTable(w, Y, k),
           NEW g, Divides(g, D, Y, h, w)
    PROVE  h[D] = k[Y]
<1>g. g \in [D -> Y] /\ \A y \in Y : w[y] = h[{d \in D : g[d] = y}]
  BY DEF Divides, Fibre
<1> DEFINE over(Z) == {d \in D : g[d] \in Z}
           B == {Z \in SUBSET Y : k[Z] # h[over(Z)]}
<1>h. /\ h \in [SUBSET D -> Int] /\ h[{}] = 0
      /\ w \in [Y -> Int] /\ k \in [SUBSET Y -> Int] /\ k[{}] = 0
      /\ \A s \in SUBSET Y : \A y \in s : k[s] = w[y] + k[s \ {y}]
  BY DEF SumTable
<1>1. B = {}
  <2> SUFFICES ASSUME B # {} PROVE FALSE
    OBVIOUS
  <2>1. B \in SUBSET (SUBSET Y)
    OBVIOUS
  <2>2. PICK Z \in B : \A t \in SUBSET Z : t # Z => t \notin B
    <3> HIDE DEF B
    <3> QED
      BY <2>1, SmallestSet
  <2>3. Z # {}
    <3>1. over({}) = {}
      OBVIOUS
    <3> QED
      BY <1>h, <3>1
  <2>4. PICK y \in Z : TRUE
    BY <2>3
  <2> DEFINE r == Z \ {y}
             a == {d \in D : g[d] = y}
             b == over(r)
  <2>5. r \in SUBSET Y /\ r \notin B
    BY <2>2
  <2>6. k[r] = h[b]
    BY <2>5
  <2>7. k[Z] = w[y] + k[r]
    BY <1>h
  <2>8. a \in SUBSET D /\ b \in SUBSET D /\ a \cap b = {} /\ over(Z) = a \cup b
    BY <1>g
  <2>9. w[y] = h[a]
    BY <1>g
  <2>10. k[Z] # h[over(Z)]
    OBVIOUS
  <2> HIDE DEF a, b, over, r, B
  <2>11. h[over(Z)] = h[a] + h[b]
    BY <2>8, SumUnion
  <2> QED
    BY <2>6, <2>7, <2>9, <2>10, <2>11
<1>2. over(Y) = D /\ Y \in SUBSET Y
  BY <1>g
<1>3. k[Y] = h[over(Y)]
  BY <1>1, <1>2
<1> HIDE DEF over
<1> QED
  BY <1>2, <1>3

(* A sum of integers is an integer.                                        *)
LEMMA SumType ==
    ASSUME NEW D, IsFiniteSet(D), NEW v \in [D -> Int]
    PROVE  SumFunction(v) \in Int
<1>1. PICK h : Tabulated(v, D, h)
  BY SumTableExists
<1>2. SumFunction(v) = h[D]
  BY <1>1 DEF Tabulated, PartOf
<1>3. h[D] \in Int
  BY <1>1 DEF Tabulated, SumTable
<1> QED
  BY <1>2, <1>3

(* The sum of a one for each element is their number.                      *)
LEMMA SumOnes ==
    ASSUME NEW D, IsFiniteSet(D)
    PROVE  SumFunction([d \in D |-> 1]) = Cardinality(D)
<1> DEFINE v == [d \in D |-> 1]
<1>1. v \in [D -> Int]
  OBVIOUS
<1>2. PICK h : Tabulated(v, D, h)
  <2> HIDE DEF v
  <2> QED
    BY <1>1, SumTableExists
<1>3. /\ h \in [SUBSET D -> Int] /\ h[{}] = 0
      /\ \A s \in SUBSET D : \A x \in s : h[s] = v[x] + h[s \ {x}]
  BY <1>2 DEF Tabulated, SumTable
<1> DEFINE B == {s \in SUBSET D : h[s] # Cardinality(s)}
<1>4. B = {}
  <2> SUFFICES ASSUME B # {} PROVE FALSE
    OBVIOUS
  <2>1. B \in SUBSET (SUBSET D)
    OBVIOUS
  <2>2. PICK s \in B : \A t \in SUBSET s : t # s => t \notin B
    <3> HIDE DEF B
    <3> QED
      BY <2>1, SmallestSet
  <2>3. s # {}
    BY <1>3, FS_EmptySet
  <2>4. PICK x \in s : TRUE
    BY <2>3
  <2>5. /\ s \ {x} \in SUBSET D /\ s \ {x} # s
        /\ Cardinality(s) \in Nat \ {0}
        /\ Cardinality(s \ {x}) = Cardinality(s) - 1
    BY OneLess
  <2>6. h[s \ {x}] = Cardinality(s \ {x})
    BY <2>2, <2>5
  <2>7. v[x] = 1
    OBVIOUS
  <2>8. h[s] = v[x] + h[s \ {x}]
    <3> HIDE DEF v
    <3> QED
      BY <1>3
  <2> HIDE DEF v
  <2> QED
    BY <2>5, <2>6, <2>7, <2>8
<1>5. SumFunction(v) = h[D]
  <2>1. D \in SUBSET D /\ \A x \in D : v[x] = v[x]
    OBVIOUS
  <2> HIDE DEF v
  <2> QED
    BY <1>1, <1>2, <2>1 DEF Tabulated, PartOf
<1> QED
  BY <1>4, <1>5

(* A sum over D is the sum of the sums over its parts.                     *)
LEMMA SumByParts ==
    ASSUME NEW D, IsFiniteSet(D), NEW v \in [D -> Int],
           NEW Y, IsFiniteSet(Y), NEW g \in [D -> Y], NEW w \in [Y -> Int],
           \A y \in Y : w[y] = SumFunction(On(v, Fibre(g, D, y)))
    PROVE  SumFunction(v) = SumFunction(w)
<1>1. PICK h : Tabulated(v, D, h)
  BY SumTableExists
<1>2. PICK k : Tabulated(w, Y, k)
  BY SumTableExists
<1>3. SumFunction(v) = h[D] /\ SumFunction(w) = k[Y]
  BY <1>1, <1>2 DEF Tabulated, PartOf
<1>4. ASSUME NEW y \in Y PROVE w[y] = h[Fibre(g, D, y)]
  <2> DEFINE s == Fibre(g, D, y)
             u == On(v, s)
  <2>1. s \in SUBSET D
    BY DEF Fibre
  <2> HIDE DEF s
  <2>2. PartOf(v, s, u)
    BY <2>1 DEF On, PartOf
  <2> HIDE DEF u
  <2>3. SumFunction(u) = h[s]
    BY <1>1, <2>1, <2>2 DEF Tabulated
  <2> QED
    BY <2>3 DEF s, u
<1>5. h[D] = k[Y]
  <2>1. Divides(g, D, Y, h, w)
    BY <1>4 DEF Divides
  <2>2. SumTable(v, D, h) /\ SumTable(w, Y, k)
    BY <1>1, <1>2 DEF Tabulated
  <2> QED
    BY <2>1, <2>2, SumOfSums
<1> QED
  BY <1>3, <1>5

-----------------------------------------------------------------------------
(***************************************************************************)
(* Maxima and minima.                                                      *)
(***************************************************************************)
(* The image of a finite set is finite.                                    *)
LEMMA FiniteImage ==
    ASSUME NEW D, IsFiniteSet(D), NEW f, DOMAIN f = D
    PROVE  IsFiniteSet({f[d] : d \in D})
<1> DEFINE T == {f[d] : d \in D}
           g == [d \in D |-> f[d]]
<1>1. g \in Surjection(D, T)
  BY DEF Surjection
<1> HIDE DEF g, T
<1>2. IsFiniteSet(T)
  BY <1>1, FS_Surjection
<1> QED
  BY <1>2 DEF T

(* A finite set of integers that is not empty has a greatest one.          *)
LEMMA MaxFacts ==
    ASSUME NEW S \in SUBSET Int, IsFiniteSet(S), S # {}
    PROVE  Max(S) \in S /\ \A y \in S : y <= Max(S)
<1> DEFINE above(x) == {y \in S : y > x}
           B == {above(x) : x \in S}
<1>1. B \in SUBSET (SUBSET S) /\ B # {}
  OBVIOUS
<1>2. PICK s \in B : \A t \in SUBSET s : t # s => t \notin B
  <2> HIDE DEF B
  <2> QED
    BY <1>1, SmallestSet
<1>3. PICK x \in S : s = above(x)
  OBVIOUS
<1>4. ASSUME NEW y \in S, y > x PROVE FALSE
  <2>1. y \in Int /\ x \in Int /\ \A z \in S : z \in Int
    OBVIOUS
  <2>2. above(y) \in SUBSET s /\ y \in s /\ y \notin above(y)
    <3>1. \A z \in S : z > y => z > x
      BY <1>4, <2>1
    <3>2. ~(y > y)
      BY <2>1
    <3> QED
      BY <1>3, <1>4, <3>1, <3>2
  <2>3. above(y) \in B
    OBVIOUS
  <2> HIDE DEF above, B
  <2> QED
    BY <1>2, <2>2, <2>3
<1>5. \A y \in S : x >= y
  BY <1>4
<1>6. Max(S) \in S /\ \A y \in S : Max(S) >= y
  <2> HIDE DEF B, above
  <2> QED
    BY <1>5 DEF Max
<1> QED
  BY <1>6

(* The maximum of a set is the maximum of the maxima of its parts.         *)
LEMMA MaxOfMaxima ==
    ASSUME NEW S \in SUBSET Int, IsFiniteSet(S), S # {},
           NEW T \in SUBSET S,
           \A x \in S : \E y \in T : x <= y
    PROVE  Max(S) = Max(T)
<1>1. IsFiniteSet(T) /\ T \in SUBSET Int /\ T # {}
  BY FS_Subset
<1>2. Max(S) \in S /\ \A y \in S : y <= Max(S)
  BY MaxFacts
<1>3. Max(T) \in T /\ \A y \in T : y <= Max(T)
  BY <1>1, MaxFacts
<1>4. PICK y \in T : Max(S) <= y
  BY <1>2
<1>5. y <= Max(T) /\ Max(T) <= Max(S)
  BY <1>2, <1>3, <1>4
<1>6. y \in Int /\ Max(S) \in Int /\ Max(T) \in Int
  BY <1>1, <1>2, <1>3
<1> QED
  BY <1>4, <1>5, <1>6

(* A finite set of integers that is not empty has a least one.             *)
LEMMA MinFacts ==
    ASSUME NEW S \in SUBSET Int, IsFiniteSet(S), S # {}
    PROVE  Min(S) \in S /\ \A y \in S : y >= Min(S)
<1> DEFINE below(x) == {y \in S : y < x}
           B == {below(x) : x \in S}
<1>1. B \in SUBSET (SUBSET S) /\ B # {}
  OBVIOUS
<1>2. PICK s \in B : \A t \in SUBSET s : t # s => t \notin B
  <2> HIDE DEF B
  <2> QED
    BY <1>1, SmallestSet
<1>3. PICK x \in S : s = below(x)
  OBVIOUS
<1>4. ASSUME NEW y \in S, y < x PROVE FALSE
  <2>1. y \in Int /\ x \in Int /\ \A z \in S : z \in Int
    OBVIOUS
  <2>2. below(y) \in SUBSET s /\ y \in s /\ y \notin below(y)
    <3>1. \A z \in S : z < y => z < x
      BY <1>4, <2>1
    <3>2. ~(y < y)
      BY <2>1
    <3> QED
      BY <1>3, <1>4, <3>1, <3>2
  <2>3. below(y) \in B
    OBVIOUS
  <2> HIDE DEF below, B
  <2> QED
    BY <1>2, <2>2, <2>3
<1>5. \A y \in S : x <= y
  BY <1>4
<1>6. Min(S) \in S /\ \A y \in S : Min(S) <= y
  <2> HIDE DEF B, below
  <2> QED
    BY <1>5 DEF Min
<1> QED
  BY <1>6

(* The minimum of a set is the minimum of the minima of its parts.         *)
LEMMA MinOfMinima ==
    ASSUME NEW S \in SUBSET Int, IsFiniteSet(S), S # {},
           NEW T \in SUBSET S,
           \A x \in S : \E y \in T : x >= y
    PROVE  Min(S) = Min(T)
<1>1. IsFiniteSet(T) /\ T \in SUBSET Int /\ T # {}
  BY FS_Subset
<1>2. Min(S) \in S /\ \A y \in S : y >= Min(S)
  BY MinFacts
<1>3. Min(T) \in T /\ \A y \in T : y >= Min(T)
  BY <1>1, MinFacts
<1>4. PICK y \in T : Min(S) >= y
  BY <1>2
<1>5. y >= Min(T) /\ Min(T) >= Min(S)
  BY <1>2, <1>3, <1>4
<1>6. y \in Int /\ Min(S) \in Int /\ Min(T) \in Int
  BY <1>1, <1>2, <1>3
<1> QED
  BY <1>4, <1>5, <1>6

-----------------------------------------------------------------------------
(***************************************************************************)
(* The rows of the file and what they are aggregated to.                   *)
(***************************************************************************)
ExpOf(i) == Experiment(file.kind, file.rows[i])
KeyOf(i) == Key(file.kind, file.rows[i])
RowsWith(key) == {j \in ValidRows(file) : Key(file.kind, file.rows[j]) = key}
RowOf(i) == Aggregated(file, KeyOf(i))
EntryOf(i) == Entry(RowOf(i))

(* What the numbers and times of a valid row are.                          *)
LEMMA RowTypes ==
    ASSUME file \in Files
    PROVE  /\ file.kind \in {"container", "namespace"}
           /\ IsFiniteSet(Rows)
           /\ \A i \in Rows :
                 /\ i \in ValidRows(file) /\ file.complete
                 /\ file.rows[i].use \in Int
                 /\ file.rows[i].request \in Int \cup {Missing}
                 /\ file.rows[i].start \in Int \cup {BadTime}
                 /\ file.rows[i].end \in Int \cup {BadTime}
<1>1. /\ file.kind \in {"container", "namespace"} /\ IsFiniteSet(DOMAIN file.rows)
      /\ \A i \in DOMAIN file.rows :
            /\ file.rows[i].use \in Int \cup {Missing}
            /\ file.rows[i].request \in Int \cup {Missing}
            /\ file.rows[i].start \in Int \cup {BadTime}
            /\ file.rows[i].end \in Int \cup {BadTime}
  BY FilesAssumption
<1>2. Rows \in SUBSET (DOMAIN file.rows)
  BY DEF Rows, ValidRows
<1>3. IsFiniteSet(Rows)
  BY <1>1, <1>2, FS_Subset
<1>4. \A i \in Rows : /\ i \in ValidRows(file) /\ file.complete
                      /\ file.rows[i].use # Missing
  BY DEF Rows, ValidRows, Valid
<1> QED
  BY <1>1, <1>2, <1>3, <1>4

(* The columns a row is grouped by.                                        *)
LEMMA KeyFields ==
    \A i : /\ KeyOf(i).experiment = ExpOf(i)
           /\ KeyOf(i).start = file.rows[i].start
           /\ KeyOf(i).end = file.rows[i].end
           /\ KeyOf(i).container = ContainerOf(i)
           /\ KeyOf(i).workload =
                 IF file.kind = "namespace" THEN "" ELSE file.rows[i].workload
           /\ KeyOf(i).image =
                 IF file.kind = "namespace" THEN "" ELSE file.rows[i].image
BY DEF KeyOf, Key, ExpOf, ContainerOf

(* Rows that agree in these columns have the same key.                     *)
LEMMA SameKey ==
    ASSUME NEW i, NEW j, ExpOf(i) = ExpOf(j),
           file.rows[i].start = file.rows[j].start,
           file.rows[i].end = file.rows[j].end, ContainerOf(i) = ContainerOf(j),
           \/ file.kind = "namespace"
           \/ /\ file.rows[i].workload = file.rows[j].workload
              /\ file.rows[i].image = file.rows[j].image
    PROVE  KeyOf(i) = KeyOf(j)
BY DEF KeyOf, Key, ExpOf, ContainerOf

(* The rows with the key of i.                                             *)
LEMMA RowsWithFacts ==
    ASSUME file \in Files, NEW i \in Rows
    PROVE  /\ RowsWith(KeyOf(i)) = {j \in Rows : KeyOf(j) = KeyOf(i)}
           /\ i \in RowsWith(KeyOf(i))
           /\ IsFiniteSet(RowsWith(KeyOf(i)))
<1>1. \A j : j \in Rows <=> j \in ValidRows(file)
  BY DEF Rows
<1>2. RowsWith(KeyOf(i)) = {j \in Rows : KeyOf(j) = KeyOf(i)}
  BY <1>1 DEF RowsWith, KeyOf
<1>3. IsFiniteSet(RowsWith(KeyOf(i)))
  BY <1>2, RowTypes, FS_Subset
<1> QED
  BY <1>2, <1>3

(* What the rows with the key of i are aggregated to.                      *)
LEMMA RowFields ==
    \A i : LET rows == RowsWith(KeyOf(i))
           IN  /\ RowOf(i).key = KeyOf(i)
               /\ RowOf(i).sum = SumFunction([j \in rows |-> file.rows[j].use])
               /\ RowOf(i).count = Cardinality(rows)
               /\ RowOf(i).max = Max({file.rows[j].use : j \in rows})
               /\ RowOf(i).min = Min({file.rows[j].use : j \in rows})
               /\ RowOf(i).request = TotalRequest(file, rows)
BY DEF RowOf, Aggregated, RowsWith

(* What is sent of it.                                                     *)
LEMMA EntryFields ==
    \A i : LET rows == RowsWith(KeyOf(i))
               total == TotalRequest(file, rows)
           IN  /\ EntryOf(i).from = KeyOf(i)
               /\ EntryOf(i).container = ContainerOf(i)
               /\ EntryOf(i).image = KeyOf(i).image
               /\ EntryOf(i).usage.sum = SumFunction([j \in rows |-> file.rows[j].use])
               /\ EntryOf(i).usage.count = Cardinality(rows)
               /\ EntryOf(i).usage.max = Max({file.rows[j].use : j \in rows})
               /\ EntryOf(i).usage.min = Min({file.rows[j].use : j \in rows})
               /\ EntryOf(i).request =
                     IF total = Missing THEN <<>> ELSE [request |-> total]
<1> SUFFICES ASSUME NEW i
             PROVE  LET rows == RowsWith(KeyOf(i))
                        total == TotalRequest(file, rows)
                    IN  /\ EntryOf(i).from = KeyOf(i)
                        /\ EntryOf(i).container = ContainerOf(i)
                        /\ EntryOf(i).image = KeyOf(i).image
                        /\ EntryOf(i).usage.sum = SumFunction([j \in rows |-> file.rows[j].use])
                        /\ EntryOf(i).usage.count = Cardinality(rows)
                        /\ EntryOf(i).usage.max = Max({file.rows[j].use : j \in rows})
                        /\ EntryOf(i).usage.min = Min({file.rows[j].use : j \in rows})
                        /\ EntryOf(i).request =
                              IF total = Missing THEN <<>> ELSE [request |-> total]
  OBVIOUS
<1> DEFINE x == RowOf(i)
<1>1. /\ x.key = KeyOf(i) /\ x.key.container = ContainerOf(i)
  BY RowFields, KeyFields
<1>2. /\ EntryOf(i).from = x.key /\ EntryOf(i).container = x.key.container
      /\ EntryOf(i).image = x.key.image
      /\ EntryOf(i).usage.sum = x.sum /\ EntryOf(i).usage.count = x.count
      /\ EntryOf(i).usage.max = x.max
      /\ EntryOf(i).usage.min = x.min
      /\ EntryOf(i).request = IF x.request = Missing THEN <<>> ELSE [request |-> x.request]
  BY DEF EntryOf, Entry, MetricsOf
<1> HIDE DEF x
<1> QED
  BY <1>1, <1>2, RowFields DEF x

(* The groups of the file.                                                 *)
LEMMA GroupsOfRows ==
    ASSUME file \in Files
    PROVE  /\ Seen = Experiments
           /\ \A e : GroupOf(e) = {RowOf(i) : i \in OfExperiment(e)}
           /\ \A e : Ends(GroupOf(e)) = {file.rows[i].end : i \in OfExperiment(e)}
<1>1. AggregatedRows = {RowOf(i) : i \in Rows}
  <2>1. CASE file.complete
    <3>1. Rows = ValidRows(file)
      BY <2>1 DEF Rows
    <3> QED
      BY <2>1, <3>1 DEF AggregatedRows, hasMissingColumnsCSV, Aggregate_data, RowOf, KeyOf
  <2>2. CASE ~file.complete
    BY <2>2 DEF AggregatedRows, hasMissingColumnsCSV, Rows
  <2> QED
    BY <2>1, <2>2
<1>2. \A i : RowOf(i).key.experiment = ExpOf(i) /\ RowOf(i).key.end = file.rows[i].end
  BY RowFields, KeyFields
<1>3. Seen = Experiments
  BY <1>1, <1>2 DEF Seen, Experiments, ExpOf
<1>4. \A e : GroupOf(e) = {RowOf(i) : i \in OfExperiment(e)}
  BY <1>1, <1>2 DEF GroupOf, OfExperiment, ExpOf
<1>5. \A e : Ends(GroupOf(e)) = {file.rows[i].end : i \in OfExperiment(e)}
  BY <1>2, <1>4 DEF Ends
<1> QED
  BY <1>3, <1>4, <1>5

(* Two rows have the same owner if and only if they are of the same        *)
(* experiment.                                                             *)
LEMMA OwnerExperiment ==
    \A i, j : Owner(i) = Owner(j) <=> ExpOf(i) = ExpOf(j)
<1> SUFFICES ASSUME NEW i, NEW j PROVE Owner(i) = Owner(j) <=> ExpOf(i) = ExpOf(j)
  OBVIOUS
<1>1. CASE file.kind = "namespace"
  BY <1>1 DEF Owner, ExpOf, Experiment
<1>2. CASE file.kind # "namespace"
  BY <1>2 DEF Owner, ExpOf, Experiment, ObjectOf, determine_k8s_object_type
<1> QED
  BY <1>1, <1>2

-----------------------------------------------------------------------------
(***************************************************************************)
(* What is sent of an experiment.                                          *)
(***************************************************************************)
EntriesOf(own) == {EntryOf(i) : i \in own}

(* The rows a result is made of.                                           *)
LEMMA BehindRows ==
    \A x, i : i \in Behind(x) <=>
        /\ i \in Rows /\ ExpOf(i) = x.experiment /\ file.rows[i].end = x.end
        /\ file.kind = "namespace" => file.rows[i].start = x.start
BY DEF Behind, OfExperiment, ExpOf

(* A result has an entry for the rows it is made of, and these only; its   *)
(* start is that of one of them.                                           *)
LEMMA ResultMade ==
    ASSUME file \in Files, NEW e, NEW first \in Picks(GroupOf(e)),
           NEW t \in Ends(GroupOf(e))
    PROVE  LET x == Result(file.kind, e, GroupOf(e), first[t])
           IN  /\ x.experiment = e /\ x.end = t /\ x.start = first[t].key.start
               /\ \E i \in Behind(x) : file.rows[i].start = x.start
               /\ x.entries = EntriesOf(Behind(x))
<1> DEFINE x == Result(file.kind, e, GroupOf(e), first[t])
<1>1. first[t] \in GroupOf(e) /\ first[t].key.end = t
  BY DEF Picks
<1>2. PICK i \in OfExperiment(e) : first[t] = RowOf(i)
  BY <1>1, GroupsOfRows
<1>3. \A j : /\ RowOf(j).key = KeyOf(j) /\ KeyOf(j).end = file.rows[j].end
             /\ KeyOf(j).start = file.rows[j].start
  BY RowFields, KeyFields
<1>4. x.experiment = e /\ x.end = t /\ x.start = first[t].key.start
  BY <1>1 DEF Result
<1>5. /\ i \in Rows /\ ExpOf(i) = e /\ file.rows[i].end = t
      /\ file.rows[i].start = x.start
  BY <1>1, <1>2, <1>3, <1>4 DEF OfExperiment, ExpOf
<1>6. \A j : j \in Behind(x) <=>
         /\ j \in Rows /\ ExpOf(j) = e /\ file.rows[j].end = t
         /\ file.kind = "namespace" => file.rows[j].start = x.start
  BY <1>4, BehindRows
<1>7. x.entries = EntriesOf(Behind(x))
  <2>1. CASE file.kind = "namespace"
    <3>1. x.entries = {Entry(first[t])}
      BY <2>1 DEF Result
    <3>2. ASSUME NEW j \in Behind(x) PROVE EntryOf(j) = EntryOf(i)
      <4>1. ContainerOf(j) = ContainerOf(i)
        BY <2>1 DEF ContainerOf
      <4>2. KeyOf(j) = KeyOf(i)
        BY <1>5, <1>6, <2>1, <3>2, <4>1, SameKey
      <4> QED
        BY <4>2 DEF EntryOf, RowOf
    <3>3. Entry(first[t]) = EntryOf(i)
      BY <1>2 DEF EntryOf
    <3>4. i \in Behind(x)
      BY <1>5, <1>6
    <3> HIDE DEF x
    <3> QED
      BY <3>1, <3>2, <3>3, <3>4 DEF EntriesOf
  <2>2. CASE file.kind # "namespace"
    <3> DEFINE same == {z \in GroupOf(e) : z.key.end = t}
    <3>1. x.entries = {Entry(z) : z \in same}
      BY <1>1, <2>2 DEF Result
    <3>2. \A j : j \in OfExperiment(e) <=> j \in Rows /\ ExpOf(j) = e
      BY DEF OfExperiment, ExpOf
    <3>3. \A j : j \in Behind(x) <=> j \in OfExperiment(e) /\ file.rows[j].end = t
      BY <1>6, <2>2, <3>2
    <3>4. same = {RowOf(j) : j \in Behind(x)}
      BY <1>3, <3>3, GroupsOfRows
    <3> HIDE DEF x, same
    <3> QED
      BY <3>1, <3>4 DEF EntriesOf, EntryOf
  <2> QED
    BY <2>1, <2>2
<1>8. i \in Behind(x)
  BY <1>5, <1>6
<1> HIDE DEF x
<1> QED
  BY <1>4, <1>5, <1>7, <1>8 DEF x

(* So it is in the results.                                                *)
LEMMA SentResult ==
    ASSUME FileInv, NEW x \in results
    PROVE  /\ x.end \in Ends(GroupOf(x.experiment))
           /\ x.start # BadTime
           /\ \E i \in Behind(x) : file.rows[i].start = x.start
           /\ x.entries = EntriesOf(Behind(x))
<1> DEFINE e == x.experiment
           group == GroupOf(e)
<1>1. file \in Files
  BY DEF FileInv
<1>2. x \in SentFor(e) /\ Recorded(e)
  BY ResultRecorded
<1>3. PICK first \in Picks(group) : SentFor(e) = Payload(file.kind, e, group, first)
  BY <1>2 DEF Recorded
<1>4. PICK t \in Ends(group) : /\ x = Result(file.kind, e, group, first[t])
                               /\ first[t].key.start # BadTime
  BY <1>2, <1>3 DEF Payload, Parses
<1> HIDE DEF e
<1>5. /\ x.end = t /\ x.start = first[t].key.start
      /\ \E i \in Behind(x) : file.rows[i].start = x.start
      /\ x.entries = EntriesOf(Behind(x))
  BY <1>1, <1>4, ResultMade
<1> QED
  BY <1>4, <1>5 DEF e

-----------------------------------------------------------------------------
(***************************************************************************)
(* What is sent of an experiment with regular times.                       *)
(***************************************************************************)
AtEnd(e, t) == {i \in OfExperiment(e) : file.rows[i].end = t}

(* Rows of a regular experiment with the same end have the same start, and *)
(* all its times parse.                                                    *)
LEMMA RegularFacts ==
    ASSUME file \in Files, NEW e, Regular(e)
    PROVE  /\ \A i \in OfExperiment(e) :
                 /\ i \in Rows /\ ExpOf(i) = e
                 /\ file.rows[i].start # BadTime /\ file.rows[i].end # BadTime
                 /\ file.rows[i].end \in Int
           /\ \A i, j \in OfExperiment(e) :
                 file.rows[i].end = file.rows[j].end =>
                     file.rows[i].start = file.rows[j].start
           /\ BadTime \notin Ends(GroupOf(e))
<1>1. \A i \in OfExperiment(e) : i \in Rows /\ ExpOf(i) = e
  BY DEF OfExperiment, ExpOf
<1>2. \A i \in OfExperiment(e) :
         file.rows[i].start # BadTime /\ file.rows[i].end # BadTime
  BY DEF Regular, Parses
<1>3. \A i \in OfExperiment(e) : file.rows[i].end \in Int
  BY <1>1, <1>2, RowTypes
<1>4. BadTime \notin Ends(GroupOf(e))
  BY <1>2, GroupsOfRows
<1> QED
  BY <1>1, <1>2, <1>3, <1>4 DEF Regular

(* A result has an entry for the rows that end with it, and these only.    *)
LEMMA ResultEntries ==
    ASSUME file \in Files, NEW e, Regular(e), NEW first \in Picks(GroupOf(e)),
           NEW t \in Ends(GroupOf(e))
    PROVE  LET x == Result(file.kind, e, GroupOf(e), first[t])
           IN  /\ x.experiment = e /\ x.end = t
               /\ \A i \in AtEnd(e, t) : x.start = file.rows[i].start
               /\ x.start # BadTime
               /\ x.entries = {EntryOf(i) : i \in AtEnd(e, t)}
<1> DEFINE x == Result(file.kind, e, GroupOf(e), first[t])
<1>1. /\ x.experiment = e /\ x.end = t
      /\ x.entries = EntriesOf(Behind(x))
  BY ResultMade
<1>2. PICK i \in Behind(x) : file.rows[i].start = x.start
  BY ResultMade
<1> HIDE DEF x
<1>3. \A j : j \in Behind(x) <=>
         /\ j \in AtEnd(e, t)
         /\ file.kind = "namespace" => file.rows[j].start = x.start
  BY <1>1 DEF Behind, AtEnd
<1>4. \A j \in AtEnd(e, t) : file.rows[j].start = x.start
  BY <1>2, <1>3, RegularFacts DEF AtEnd
<1>5. x.start # BadTime
  BY <1>2, <1>3, RegularFacts DEF AtEnd
<1>6. Behind(x) = AtEnd(e, t)
  BY <1>3, <1>4
<1> QED
  BY <1>1, <1>4, <1>5, <1>6 DEF x, EntriesOf

(* So the results of a regular experiment have these entries.              *)
LEMMA SentEntries ==
    ASSUME FileInv, NEW x \in results, Regular(x.experiment)
    PROVE  /\ x.end \in Ends(GroupOf(x.experiment))
           /\ x.entries = {EntryOf(i) : i \in AtEnd(x.experiment, x.end)}
           /\ \A i \in AtEnd(x.experiment, x.end) : x.start = file.rows[i].start
<1> DEFINE e == x.experiment
           group == GroupOf(e)
<1>1. file \in Files
  BY DEF FileInv
<1>2. x \in SentFor(e) /\ Recorded(e)
  BY ResultRecorded
<1>3. PICK first \in Picks(group) : SentFor(e) = Payload(file.kind, e, group, first)
  BY <1>2 DEF Recorded
<1>4. PICK t \in Ends(group) : x = Result(file.kind, e, group, first[t])
  BY <1>2, <1>3 DEF Payload
<1>5. Regular(e)
  OBVIOUS
<1> HIDE DEF e
<1>6. /\ x.end = t /\ x.entries = {EntryOf(i) : i \in AtEnd(e, t)}
      /\ \A i \in AtEnd(e, t) : x.start = file.rows[i].start
  BY <1>1, <1>4, <1>5, ResultEntries
<1> QED
  BY <1>4, <1>6 DEF e

(* And when the file is done there is a result for each row.               *)
LEMMA ResultExists ==
    ASSUME FileInv, pc = "load", NEW i \in Rows, Regular(ExpOf(i))
    PROVE  /\ Recorded(ExpOf(i))
           /\ \E x \in results :
                 /\ x.experiment = ExpOf(i)
                 /\ x.start = file.rows[i].start /\ x.end = file.rows[i].end
<1> DEFINE e == ExpOf(i)
           group == GroupOf(e)
           t == file.rows[i].end
<1>1. file \in Files /\ GroupsInv /\ groups = {}
  BY DEF FileInv, GroupsInv
<1>2. i \in OfExperiment(e) /\ e \in Experiments
  BY DEF OfExperiment, ExpOf, Experiments
<1>3. e \in Seen /\ t \in Ends(group) /\ BadTime \notin Ends(group)
  BY <1>1, <1>2, GroupsOfRows, RegularFacts
<1>4. Done(e)
  BY <1>1, <1>3 DEF GroupsInv
<1>5. Recorded(e)
  BY <1>3, <1>4 DEF Done
<1>6. PICK first \in Picks(group) : SentFor(e) = Payload(file.kind, e, group, first)
  BY <1>5 DEF Recorded
<1> DEFINE x == Result(file.kind, e, group, first[t])
<1>7. i \in AtEnd(e, t) /\ Regular(e)
  BY <1>2 DEF AtEnd
<1> HIDE DEF e, t
<1>8. x.experiment = e /\ x.end = t /\ x.start = file.rows[i].start /\ x.start # BadTime
  BY <1>1, <1>3, <1>6, <1>7, ResultEntries
<1>9. first[t].key.start = x.start
  BY DEF Result
<1> HIDE DEF x
<1>10. x \in Payload(file.kind, e, group, first)
  BY <1>3, <1>8, <1>9 DEF Parses, Payload, x
<1>11. x \in results
  BY <1>6, <1>10 DEF SentFor
<1> QED
  BY <1>5, <1>8, <1>11 DEF e, t

-----------------------------------------------------------------------------
(***************************************************************************)
(* Entries and the rows they stand for.                                    *)
(***************************************************************************)
(* A set of rows that has with each row all others with its key.           *)
Closed(own) ==
    /\ own \in SUBSET Rows
    /\ \A i \in own : RowsWith(KeyOf(i)) \subseteq own

MadeInto(own) == [i \in own |-> EntryOf(i)]

(* The rows that make up an entry are those with its key.                  *)
LEMMA EntryFibre ==
    ASSUME file \in Files, NEW own, Closed(own)
    PROVE  /\ IsFiniteSet(own) /\ IsFiniteSet(EntriesOf(own))
           /\ MadeInto(own) \in [own -> EntriesOf(own)]
           /\ \A i \in own :
                 Fibre(MadeInto(own), own, EntryOf(i)) = RowsWith(KeyOf(i))
<1>1. own \in SUBSET Rows /\ IsFiniteSet(own)
  BY RowTypes, FS_Subset DEF Closed
<1> DEFINE g == MadeInto(own)
<1>2. /\ DOMAIN g = own /\ g \in [own -> EntriesOf(own)]
      /\ \A i \in own : g[i] = EntryOf(i)
      /\ EntriesOf(own) = {g[i] : i \in own}
  BY DEF MadeInto, EntriesOf
<1> HIDE DEF g
<1>3. IsFiniteSet(EntriesOf(own))
  BY <1>1, <1>2, FiniteImage
<1>4. ASSUME NEW i \in own PROVE Fibre(g, own, EntryOf(i)) = RowsWith(KeyOf(i))
  <2>1. \A j : EntryOf(j).from = KeyOf(j)
    BY EntryFields
  <2>2. \A j : KeyOf(j) = KeyOf(i) => EntryOf(j) = EntryOf(i)
    BY DEF EntryOf, RowOf
  <2>3. RowsWith(KeyOf(i)) = {j \in Rows : KeyOf(j) = KeyOf(i)}
    BY <1>1, RowsWithFacts
  <2>4. RowsWith(KeyOf(i)) \subseteq own
    BY DEF Closed
  <2>5. \A j \in own : g[j] = EntryOf(i) <=> KeyOf(j) = KeyOf(i)
    BY <1>2, <2>1, <2>2
  <2> QED
    BY <1>1, <2>3, <2>4, <2>5 DEF Fibre
<1> QED
  BY <1>1, <1>2, <1>3, <1>4 DEF g

(* w has for each entry the sum of v over its rows.                        *)
Totals(own, v, w) ==
    /\ v \in [own -> Int] /\ w \in [EntriesOf(own) -> Int]
    /\ \A i \in own : w[EntryOf(i)] = SumFunction(On(v, RowsWith(KeyOf(i))))

(* No row is left out of the entries or counted twice in them.             *)
LEMMA SumOfEntries ==
    ASSUME file \in Files, NEW own, Closed(own), NEW v, NEW w, Totals(own, v, w)
    PROVE  SumFunction(v) = SumFunction(w)
<1> DEFINE Y == EntriesOf(own)
           g == MadeInto(own)
<1>1. /\ IsFiniteSet(own) /\ IsFiniteSet(Y) /\ g \in [own -> Y]
      /\ \A i \in own : Fibre(g, own, EntryOf(i)) = RowsWith(KeyOf(i))
  BY EntryFibre
<1>2. v \in [own -> Int] /\ w \in [Y -> Int]
  BY DEF Totals
<1>3. ASSUME NEW y \in Y PROVE w[y] = SumFunction(On(v, Fibre(g, own, y)))
  <2>1. PICK i \in own : y = EntryOf(i)
    BY DEF EntriesOf
  <2>2. w[y] = SumFunction(On(v, RowsWith(KeyOf(i))))
    BY <2>1 DEF Totals
  <2> HIDE DEF g
  <2> QED
    BY <1>1, <2>1, <2>2
<1> HIDE DEF g, Y
<1> QED
  BY <1>1, <1>2, <1>3, SumByParts

(* The usage of the entries is that of the rows: its sum, its greatest and *)
(* least value and the number of rows.                                     *)
LEMMA UsageOfEntries ==
    ASSUME file \in Files, NEW own, Closed(own), own # {}
    PROVE  LET sent == EntriesOf(own)
           IN  /\ Cardinality(own) = SumFunction([y \in sent |-> y.usage.count])
               /\ SumFunction([j \in own |-> file.rows[j].use]) =
                  SumFunction([y \in sent |-> y.usage.sum])
               /\ Max({file.rows[j].use : j \in own}) = Max({y.usage.max : y \in sent})
               /\ Min({file.rows[j].use : j \in own}) = Min({y.usage.min : y \in sent})
<1> DEFINE sent == EntriesOf(own)
<1>1. /\ own \in SUBSET Rows /\ IsFiniteSet(own)
      /\ \A i \in own : RowsWith(KeyOf(i)) \subseteq own
  BY EntryFibre DEF Closed
<1>2. \A i \in own : file.rows[i].use \in Int
  BY <1>1, RowTypes
<1>3. \A i \in own : i \in RowsWith(KeyOf(i)) /\ IsFiniteSet(RowsWith(KeyOf(i)))
  BY <1>1, RowsWithFacts
<1>4. \A y \in sent : \E i \in own : y = EntryOf(i)
  BY DEF EntriesOf
<1>5. \A i \in own : EntryOf(i) \in sent
  BY DEF EntriesOf
<1> HIDE DEF sent
<1>6. Cardinality(own) = SumFunction([y \in sent |-> y.usage.count])
  <2> DEFINE v == [j \in own |-> 1]
             w == [y \in sent |-> y.usage.count]
  <2>1. ASSUME NEW i \in own
        PROVE  /\ EntryOf(i).usage.count \in Int
               /\ EntryOf(i).usage.count = SumFunction(On(v, RowsWith(KeyOf(i))))
    <3> DEFINE rows == RowsWith(KeyOf(i))
    <3>1. EntryOf(i).usage.count = Cardinality(rows) /\ Cardinality(rows) \in Int
      BY <1>3, EntryFields, FS_CardinalityType
    <3>2. On(v, rows) = [j \in rows |-> 1]
      BY <1>1 DEF On
    <3>3. SumFunction([j \in rows |-> 1]) = Cardinality(rows)
      BY <1>3, SumOnes
    <3> HIDE DEF rows, v
    <3>4. SumFunction(On(v, rows)) = Cardinality(rows)
      BY <3>2, <3>3
    <3> QED
      BY <3>1, <3>4 DEF rows
  <2>2. w \in [sent -> Int]
    BY <1>4, <2>1
  <2>3. \A i \in own : w[EntryOf(i)] = SumFunction(On(v, RowsWith(KeyOf(i))))
    BY <1>5, <2>1
  <2>4. v \in [own -> Int]
    OBVIOUS
  <2>5. SumFunction(v) = Cardinality(own)
    BY <1>1, SumOnes
  <2> HIDE DEF v, w
  <2>6. Totals(own, v, w)
    BY <2>2, <2>3, <2>4 DEF Totals, sent
  <2>7. SumFunction(v) = SumFunction(w)
    BY <2>6, SumOfEntries
  <2> QED
    BY <2>5, <2>7 DEF w
<1>7. SumFunction([j \in own |-> file.rows[j].use]) =
      SumFunction([y \in sent |-> y.usage.sum])
  <2> DEFINE v == [j \in own |-> file.rows[j].use]
             w == [y \in sent |-> y.usage.sum]
  <2>0. v \in [own -> Int]
    BY <1>2
  <2>1. ASSUME NEW i \in own
        PROVE  /\ EntryOf(i).usage.sum \in Int
               /\ EntryOf(i).usage.sum = SumFunction(On(v, RowsWith(KeyOf(i))))
    <3> DEFINE rows == RowsWith(KeyOf(i))
               u == [j \in rows |-> file.rows[j].use]
    <3>1. EntryOf(i).usage.sum = SumFunction(u)
      BY EntryFields
    <3>2. On(v, rows) = u
      BY <1>1 DEF On
    <3>3. IsFiniteSet(rows) /\ u \in [rows -> Int]
      BY <1>1, <1>2, <1>3
    <3> HIDE DEF rows, v, u
    <3>4. SumFunction(u) \in Int
      BY <3>3, SumType
    <3> QED
      BY <3>1, <3>2, <3>4 DEF rows
  <2>2. w \in [sent -> Int]
    BY <1>4, <2>1
  <2>3. \A i \in own : w[EntryOf(i)] = SumFunction(On(v, RowsWith(KeyOf(i))))
    BY <1>5, <2>1
  <2> HIDE DEF v, w
  <2>6. Totals(own, v, w)
    BY <2>0, <2>2, <2>3 DEF Totals, sent
  <2>7. SumFunction(v) = SumFunction(w)
    BY <2>6, SumOfEntries
  <2> QED
    BY <2>7 DEF v, w
<1>8. Max({file.rows[j].use : j \in own}) = Max({y.usage.max : y \in sent})
  <2> DEFINE S == {file.rows[j].use : j \in own}
             T == {y.usage.max : y \in sent}
             f == [j \in own |-> file.rows[j].use]
  <2>1. S \in SUBSET Int /\ S # {}
    BY <1>2
  <2>2. IsFiniteSet(S)
    <3>1. DOMAIN f = own /\ S = {f[j] : j \in own}
      OBVIOUS
    <3> HIDE DEF f, S
    <3> QED
      BY <1>1, <3>1, FiniteImage
  <2>3. ASSUME NEW i \in own
        PROVE  EntryOf(i).usage.max \in S /\ file.rows[i].use <= EntryOf(i).usage.max
    <3> DEFINE U == {file.rows[j].use : j \in RowsWith(KeyOf(i))}
    <3>1. EntryOf(i).usage.max = Max(U)
      BY EntryFields
    <3>2. U \in SUBSET S /\ file.rows[i].use \in U
      BY <1>1, <1>3
    <3> HIDE DEF U, S
    <3>3. IsFiniteSet(U) /\ U \in SUBSET Int
      BY <2>1, <2>2, <3>2, FS_Subset
    <3>4. Max(U) \in U /\ \A y \in U : y <= Max(U)
      BY <3>2, <3>3, MaxFacts
    <3> QED
      BY <3>1, <3>2, <3>4
  <2>4. T \in SUBSET S
    BY <1>4, <2>3
  <2>5. \A x \in S : \E y \in T : x <= y
    BY <1>5, <2>3
  <2> HIDE DEF S, T
  <2>6. Max(S) = Max(T)
    BY <2>1, <2>2, <2>4, <2>5, MaxOfMaxima
  <2> QED
    BY <2>6 DEF S, T
<1>9. Min({file.rows[j].use : j \in own}) = Min({y.usage.min : y \in sent})
  <2> DEFINE S == {file.rows[j].use : j \in own}
             T == {y.usage.min : y \in sent}
             f == [j \in own |-> file.rows[j].use]
  <2>1. S \in SUBSET Int /\ S # {}
    BY <1>2
  <2>2. IsFiniteSet(S)
    <3>1. DOMAIN f = own /\ S = {f[j] : j \in own}
      OBVIOUS
    <3> HIDE DEF f, S
    <3> QED
      BY <1>1, <3>1, FiniteImage
  <2>3. ASSUME NEW i \in own
        PROVE  EntryOf(i).usage.min \in S /\ file.rows[i].use >= EntryOf(i).usage.min
    <3> DEFINE U == {file.rows[j].use : j \in RowsWith(KeyOf(i))}
    <3>1. EntryOf(i).usage.min = Min(U)
      BY EntryFields
    <3>2. U \in SUBSET S /\ file.rows[i].use \in U
      BY <1>1, <1>3
    <3> HIDE DEF U, S
    <3>3. IsFiniteSet(U) /\ U \in SUBSET Int
      BY <2>1, <2>2, <3>2, FS_Subset
    <3>4. Min(U) \in U /\ \A y \in U : y >= Min(U)
      BY <3>2, <3>3, MinFacts
    <3> QED
      BY <3>1, <3>2, <3>4
  <2>4. T \in SUBSET S
    BY <1>4, <2>3
  <2>5. \A x \in S : \E y \in T : x >= y
    BY <1>5, <2>3
  <2> HIDE DEF S, T
  <2>6. Min(S) = Min(T)
    BY <2>1, <2>2, <2>4, <2>5, MinOfMinima
  <2> QED
    BY <2>6 DEF S, T
<1> QED
  BY <1>6, <1>7, <1>8, <1>9 DEF sent

(* The entries have a request when all their rows have one, and together   *)
(* the total of these.                                                     *)
LEMMA RequestsOfEntries ==
    ASSUME file \in Files, NEW own, Closed(own),
           \A i \in own : file.rows[i].request # Missing
    PROVE  LET sent == EntriesOf(own)
           IN  /\ \A z \in sent : z.request # <<>>
               /\ SumFunction([i \in own |-> file.rows[i].request]) =
                  SumFunction([z \in sent |-> z.request.request])
<1> DEFINE sent == EntriesOf(own)
           v == [j \in own |-> file.rows[j].request]
           w == [z \in sent |-> z.request.request]
<1>1. /\ own \in SUBSET Rows /\ IsFiniteSet(own)
      /\ \A i \in own : RowsWith(KeyOf(i)) \subseteq own
  BY EntryFibre DEF Closed
<1>2. \A i \in own : file.rows[i].request \in Int
  BY <1>1, RowTypes
<1>3. \A i \in own : IsFiniteSet(RowsWith(KeyOf(i)))
  BY <1>1, RowsWithFacts
<1>4. \A y \in sent : \E i \in own : y = EntryOf(i)
  BY DEF EntriesOf
<1>5. \A i \in own : EntryOf(i) \in sent
  BY DEF EntriesOf
<1>6. v \in [own -> Int]
  BY <1>2
<1> HIDE DEF sent
<1>7. ASSUME NEW i \in own
      PROVE  /\ EntryOf(i).request # <<>>
             /\ EntryOf(i).request.request \in Int
             /\ EntryOf(i).request.request = SumFunction(On(v, RowsWith(KeyOf(i))))
  <2> DEFINE rows == RowsWith(KeyOf(i))
             u == [j \in rows |-> file.rows[j].request]
             total == TotalRequest(file, rows)
  <2>1. \A j \in rows : file.rows[j].request \in Int /\ file.rows[j].request # Missing
    BY <1>1, <1>2
  <2>2. total = SumFunction(u)
    BY <2>1 DEF TotalRequest
  <2>3. u \in [rows -> Int] /\ IsFiniteSet(rows)
    BY <1>3, <2>1
  <2>4. On(v, rows) = u
    BY <1>1 DEF On
  <2>5. EntryOf(i).request = IF total = Missing THEN <<>> ELSE [request |-> total]
    BY EntryFields
  <2> HIDE DEF rows, v, u, total
  <2>6. total \in Int
    BY <2>2, <2>3, SumType
  <2>7. total # Missing
    BY <2>6, FilesAssumption
  <2>8. EntryOf(i).request = [request |-> total]
    BY <2>5, <2>7
  <2>9. [request |-> total] # <<>>
    <3>1. DOMAIN [request |-> total] = {"request"}
      OBVIOUS
    <3>2. DOMAIN <<>> = {}
      OBVIOUS
    <3> QED
      BY <3>1, <3>2
  <2>10. [request |-> total].request = total
    OBVIOUS
  <2> QED
    BY <2>2, <2>4, <2>6, <2>8, <2>9, <2>10 DEF rows
<1>8. w \in [sent -> Int]
  BY <1>4, <1>7
<1>9. \A i \in own : w[EntryOf(i)] = SumFunction(On(v, RowsWith(KeyOf(i))))
  BY <1>5, <1>7
<1> HIDE DEF v, w
<1>10. Totals(own, v, w)
  BY <1>6, <1>8, <1>9 DEF Totals, sent
<1>11. SumFunction(v) = SumFunction(w)
  BY <1>10, SumOfEntries
<1>12. \A z \in sent : z.request # <<>>
  BY <1>4, <1>7
<1> QED
  BY <1>11, <1>12 DEF sent, v, w

-----------------------------------------------------------------------------
(***************************************************************************)
(* What Kruize was given when the file is done.                            *)
(***************************************************************************)
(* The rows of the object, container and interval of a row.                *)
OwnRows(i) ==
    {j \in Rows : <<Owner(j), ContainerOf(j), file.rows[j].start, file.rows[j].end>> =
                  <<Owner(i), ContainerOf(i), file.rows[i].start, file.rows[i].end>>}

(* These are rows of the experiment the code names after the object, and   *)
(* no key is shared with a row outside.                                    *)
LEMMA OwnRowsClosed ==
    ASSUME file \in Files, NEW i \in Rows
    PROVE  /\ i \in OwnRows(i) /\ Closed(OwnRows(i))
           /\ \A j : j \in OwnRows(i) <=>
                 /\ j \in Rows /\ ExpOf(j) = ExpOf(i)
                 /\ ContainerOf(j) = ContainerOf(i)
                 /\ file.rows[j].start = file.rows[i].start
                 /\ file.rows[j].end = file.rows[i].end
<1>1. \A j : j \in OwnRows(i) <=>
         /\ j \in Rows /\ ExpOf(j) = ExpOf(i)
         /\ ContainerOf(j) = ContainerOf(i)
         /\ file.rows[j].start = file.rows[i].start
         /\ file.rows[j].end = file.rows[i].end
  BY OwnerExperiment DEF OwnRows
<1>2. \A j \in OwnRows(i) : RowsWith(KeyOf(j)) \subseteq OwnRows(i)
  <2> SUFFICES ASSUME NEW j \in OwnRows(i), NEW k \in RowsWith(KeyOf(j))
               PROVE  k \in OwnRows(i)
    OBVIOUS
  <2>1. j \in Rows
    BY <1>1
  <2>2. k \in Rows /\ KeyOf(k) = KeyOf(j)
    BY <2>1, RowsWithFacts
  <2>3. /\ ExpOf(k) = ExpOf(j) /\ ContainerOf(k) = ContainerOf(j)
        /\ file.rows[k].start = file.rows[j].start
        /\ file.rows[k].end = file.rows[j].end
    BY <2>2, KeyFields
  <2> QED
    BY <1>1, <2>2, <2>3
<1>3. i \in OwnRows(i)
  BY <1>1
<1>4. OwnRows(i) \in SUBSET Rows
  BY <1>1
<1> QED
  BY <1>1, <1>2, <1>3, <1>4 DEF Closed

(* With regular times the entries of the container and interval of a row   *)
(* are exactly those made of its own rows.                                 *)
LEMMA OwnEntries ==
    ASSUME FileInv, pc = "load", NEW i \in Rows, Regular(ExpOf(i))
    PROVE  Entries(ExpOf(i), ContainerOf(i), file.rows[i].start, file.rows[i].end) =
           EntriesOf(OwnRows(i))
<1> DEFINE e == ExpOf(i)
           t == file.rows[i].end
           s == file.rows[i].start
           c == ContainerOf(i)
<1>1. file \in Files
  BY DEF FileInv
<1>2. \A j : j \in OwnRows(i) <=>
         j \in AtEnd(e, t) /\ ContainerOf(j) = c
  <2>1. \A j : j \in AtEnd(e, t) <=>
           j \in Rows /\ ExpOf(j) = e /\ file.rows[j].end = t
    BY DEF AtEnd, OfExperiment, ExpOf
  <2>2. \A j \in AtEnd(e, t) : file.rows[j].start = s
    <3>1. \A j \in AtEnd(e, t) : j \in OfExperiment(e) /\ file.rows[j].end = t
      BY DEF AtEnd
    <3>2. i \in OfExperiment(e)
      BY DEF OfExperiment, ExpOf
    <3> QED
      BY <1>1, <3>1, <3>2, RegularFacts
  <2> QED
    BY <1>1, <2>1, <2>2, OwnRowsClosed
<1>3. PICK x \in results : x.experiment = e /\ x.start = s /\ x.end = t
  BY ResultExists
<1>4. \A z \in results : z.experiment = e /\ z.end = t =>
         z.entries = {EntryOf(j) : j \in AtEnd(e, t)}
  BY SentEntries
<1>5. \A j : EntryOf(j).container = ContainerOf(j)
  BY EntryFields
<1> HIDE DEF e, t, s, c
<1>6. ASSUME NEW y \in Entries(e, c, s, t)
      PROVE  y \in EntriesOf(OwnRows(i))
  <2>1. PICK z \in results : /\ z.experiment = e /\ z.end = t
                             /\ y \in z.entries /\ y.container = c
    BY <1>6 DEF Entries
  <2>2. PICK j \in AtEnd(e, t) : y = EntryOf(j)
    BY <1>4, <2>1
  <2>3. j \in OwnRows(i)
    BY <1>2, <1>5, <2>1, <2>2
  <2> QED
    BY <2>2, <2>3 DEF EntriesOf
<1>7. ASSUME NEW j \in OwnRows(i)
      PROVE  EntryOf(j) \in Entries(e, c, s, t)
  <2>1. EntryOf(j) \in x.entries /\ EntryOf(j).container = c
    BY <1>2, <1>3, <1>4, <1>5
  <2> QED
    BY <1>3, <2>1 DEF Entries
<1>8. \A y \in EntriesOf(OwnRows(i)) : \E j \in OwnRows(i) : y = EntryOf(j)
  BY DEF EntriesOf
<1>9. Entries(e, c, s, t) = EntriesOf(OwnRows(i))
  BY <1>6, <1>7, <1>8
<1> QED
  BY <1>9 DEF e, c, s, t

(* One recommendation is asked for, that of the latest end of the object.  *)
LEMMA OwnRequest ==
    ASSUME FileInv, pc = "load", NEW i \in Rows, Regular(ExpOf(i))
    PROVE  {q.end : q \in {z \in requests : z.experiment = ExpOf(i)}} =
           {Max({file.rows[j].end : j \in {k \in Rows : Owner(k) = Owner(i)}})}
<1> DEFINE e == ExpOf(i)
           all == {k \in Rows : Owner(k) = Owner(i)}
<1>1. file \in Files
  BY DEF FileInv
<1>2. AskedFor(e) = {[experiment |-> e, end |-> MaxIntervalEndTime(GroupOf(e))]}
  BY ResultExists DEF Recorded
<1>3. OfExperiment(e) = all
  BY OwnerExperiment DEF OfExperiment, ExpOf
<1>4. Ends(GroupOf(e)) = {file.rows[j].end : j \in all}
  BY <1>1, <1>3, GroupsOfRows
<1> HIDE DEF e, all
<1>5. MaxIntervalEndTime(GroupOf(e)) = Max({file.rows[j].end : j \in all})
  BY <1>4 DEF MaxIntervalEndTime
<1>6. {q.end : q \in {z \in requests : z.experiment = e}} =
      {MaxIntervalEndTime(GroupOf(e))}
  <2> DEFINE m == MaxIntervalEndTime(GroupOf(e))
  <2> HIDE DEF m
  <2>1. {z \in requests : z.experiment = e} = {[experiment |-> e, end |-> m]}
    BY <1>2 DEF AskedFor, m
  <2>2. [experiment |-> e, end |-> m].end = m
    OBVIOUS
  <2> QED
    BY <2>1, <2>2 DEF m
<1> QED
  BY <1>5, <1>6 DEF e, all

(* What is recorded of a file that is done accounts for its rows.          *)
LEMMA AccountedState ==
    ASSUME FileInv
    PROVE  Accounted
<1> SUFFICES ASSUME pc = "load"
             PROVE  Accounted
  BY DEF Accounted
<1>1. file \in Files /\ OnlySeen
  BY DEF FileInv, GroupsInv
<1>2. \A x \in results : x.experiment \in Experiments
  BY <1>1, GroupsOfRows DEF OnlySeen
<1>3. ASSUME NEW i \in Rows, Regular(ExpOf(i))
      PROVE  LET own == OwnRows(i)
                 sent == Entries(ExpOf(i), ContainerOf(i),
                                 file.rows[i].start, file.rows[i].end)
             IN  /\ Cardinality(own) = SumFunction([y \in sent |-> y.usage.count])
                 /\ SumFunction([j \in own |-> file.rows[j].use]) =
                    SumFunction([y \in sent |-> y.usage.sum])
                 /\ Max({file.rows[j].use : j \in own}) = Max({y.usage.max : y \in sent})
                 /\ Min({file.rows[j].use : j \in own}) = Min({y.usage.min : y \in sent})
  <2>1. Closed(OwnRows(i)) /\ OwnRows(i) # {}
    BY <1>1, OwnRowsClosed
  <2> QED
    BY <1>1, <1>3, <2>1, OwnEntries, UsageOfEntries
<1> QED
  BY <1>2, <1>3, OwnRequest DEF Accounted, OwnRows, ExpOf

(* Accounted: whatever the order of groups and rows, a file that is done   *)
(* has given Kruize, for each object, container and interval, the usage of *)
(* exactly the valid rows that belong to them.                             *)
THEOREM RowsAreAccounted == Spec => []Accounted
<1>1. FileInv => Accounted
  BY AccountedState
<1> QED
  BY <1>1, GroupsAccounted, PTL

-----------------------------------------------------------------------------
(***************************************************************************)
(* Requests and limits, and the cost of bad times.                         *)
(***************************************************************************)
(* Some rows of a closed set make a closed set when they are taken with    *)
(* all that have their key.                                                *)
LEMMA ClosedPart ==
    ASSUME file \in Files, NEW own, Closed(own), NEW part \in SUBSET own,
           \A i \in part, j \in own : KeyOf(j) = KeyOf(i) => j \in part
    PROVE  Closed(part)
<1>1. own \in SUBSET Rows /\ \A i \in own : RowsWith(KeyOf(i)) \subseteq own
  BY DEF Closed
<1>2. ASSUME NEW i \in part, NEW j \in RowsWith(KeyOf(i)) PROVE j \in part
  <2>1. i \in own /\ i \in Rows
    BY <1>1
  <2>2. j \in own
    BY <1>1, <2>1
  <2>3. KeyOf(j) = KeyOf(i)
    BY <2>1, RowsWithFacts
  <2> QED
    BY <2>2, <2>3
<1>3. part \in SUBSET Rows
  BY <1>1
<1>4. \A i \in part : RowsWith(KeyOf(i)) \subseteq part
  BY <1>2
<1> QED
  BY <1>3, <1>4 DEF Closed

(* The rows a result is made of are a closed set.                          *)
LEMMA BehindClosed ==
    ASSUME file \in Files, NEW x
    PROVE  Closed(Behind(x))
<1>1. ASSUME NEW i \in Behind(x), NEW j \in RowsWith(KeyOf(i))
      PROVE  j \in Behind(x)
  <2>1. i \in Rows
    BY BehindRows
  <2>2. j \in Rows /\ KeyOf(j) = KeyOf(i)
    BY <2>1, RowsWithFacts
  <2>3. /\ ExpOf(j) = ExpOf(i) /\ file.rows[j].start = file.rows[i].start
        /\ file.rows[j].end = file.rows[i].end
    BY <2>2, KeyFields
  <2> QED
    BY <2>2, <2>3, BehindRows
<1>2. Behind(x) \in SUBSET Rows
  BY BehindRows
<1> QED
  BY <1>1, <1>2 DEF Closed

(* An entry has a request if and only if all its rows have one.            *)
LEMMA EntryRequest ==
    ASSUME file \in Files, NEW i \in Rows
    PROVE  EntryOf(i).request # <<>> <=>
               \A j \in RowsWith(KeyOf(i)) : file.rows[j].request # Missing
<1> DEFINE rows == RowsWith(KeyOf(i))
           u == [j \in rows |-> file.rows[j].request]
           total == TotalRequest(file, rows)
<1>1. EntryOf(i).request = IF total = Missing THEN <<>> ELSE [request |-> total]
  BY EntryFields
<1>2. [request |-> total] # <<>>
  <2>1. DOMAIN [request |-> total] = {"request"} /\ DOMAIN <<>> = {}
    OBVIOUS
  <2> QED
    BY <2>1
<1>3. ASSUME \A j \in rows : file.rows[j].request # Missing
      PROVE  total # Missing
  <2>1. IsFiniteSet(rows) /\ rows \in SUBSET Rows
    BY RowsWithFacts
  <2>2. u \in [rows -> Int]
    BY <1>3, <2>1, RowTypes
  <2>3. total = SumFunction(u)
    BY <1>3 DEF TotalRequest
  <2> HIDE DEF rows, u, total
  <2>4. total \in Int
    BY <2>1, <2>2, <2>3, SumType
  <2> QED
    BY <2>4, FilesAssumption
<1>4. ASSUME NEW j \in rows, file.rows[j].request = Missing
      PROVE  total = Missing
  BY <1>4 DEF TotalRequest
<1> HIDE DEF rows, total
<1> QED
  BY <1>1, <1>2, <1>3, <1>4 DEF rows

(* What of a container and its result the statement speaks of: its rows,   *)
(* those a row was aggregated with, those whose whole lot has a request,   *)
(* the entries sent and those that have a request.                         *)
PodsOf(x, c) == {i \in Behind(x) : ContainerOf(i) = c}
LotOf(x, c, i) ==
    {j \in PodsOf(x, c) : file.kind = "container" =>
        <<file.rows[j].workload, file.rows[j].image, file.rows[j].start>> =
        <<file.rows[i].workload, file.rows[i].image, file.rows[i].start>>}
WholeOf(x, c) ==
    {i \in PodsOf(x, c) : \A j \in LotOf(x, c, i) : file.rows[j].request # Missing}
SentOf(x, c) == {z \in x.entries : z.container = c}
GivenOf(x, c) == {z \in SentOf(x, c) : z.request # <<>>}

(* The lot of a row is the rows with its key, and the entries sent are     *)
(* those of the rows.                                                      *)
LEMMA ContainerEntries ==
    ASSUME FileInv, NEW x \in results, NEW c
    PROVE  /\ Closed(PodsOf(x, c)) /\ SentOf(x, c) = EntriesOf(PodsOf(x, c))
           /\ \A i \in PodsOf(x, c) : i \in Rows /\ LotOf(x, c, i) = RowsWith(KeyOf(i))
<1> DEFINE own == PodsOf(x, c)
<1>1. file \in Files
  BY DEF FileInv
<1>2. \A i : i \in own <=> i \in Behind(x) /\ ContainerOf(i) = c
  BY DEF PodsOf
<1>3. \A i, j : KeyOf(j) = KeyOf(i) => ContainerOf(j) = ContainerOf(i)
  <2> SUFFICES ASSUME NEW i, NEW j, KeyOf(j) = KeyOf(i)
               PROVE  ContainerOf(j) = ContainerOf(i)
    OBVIOUS
  <2> QED
    BY KeyFields
<1>4. Closed(own)
  <2>1. Closed(Behind(x)) /\ own \in SUBSET Behind(x)
    BY <1>1, <1>2, BehindClosed
  <2>2. \A i \in own, j \in Behind(x) : KeyOf(j) = KeyOf(i) => j \in own
    BY <1>2, <1>3
  <2> HIDE DEF own
  <2> QED
    BY <1>1, <2>1, <2>2, ClosedPart
<1>5. SentOf(x, c) = EntriesOf(own)
  <2>1. x.entries = EntriesOf(Behind(x))
    BY SentResult
  <2>2. \A i : EntryOf(i).container = ContainerOf(i)
    BY EntryFields
  <2>3. \A z : z \in x.entries <=> \E i \in Behind(x) : z = EntryOf(i)
    BY <2>1 DEF EntriesOf
  <2>4. \A z : z \in EntriesOf(own) <=> \E i \in own : z = EntryOf(i)
    BY DEF EntriesOf
  <2>5. \A z : z \in SentOf(x, c) <=> z \in x.entries /\ z.container = c
    BY DEF SentOf
  <2> HIDE DEF own
  <2>6. \A z : z \in SentOf(x, c) <=> z \in EntriesOf(own)
    BY <1>2, <2>2, <2>3, <2>4, <2>5
  <2> QED
    BY <2>6 DEF SentOf
<1>6. ASSUME NEW i \in own
      PROVE  i \in Rows /\ LotOf(x, c, i) = RowsWith(KeyOf(i))
  <2>1. /\ i \in Rows /\ ExpOf(i) = x.experiment /\ file.rows[i].end = x.end
        /\ file.kind = "namespace" => file.rows[i].start = x.start
        /\ ContainerOf(i) = c
    BY <1>2, BehindRows
  <2>2. RowsWith(KeyOf(i)) = {j \in Rows : KeyOf(j) = KeyOf(i)}
    BY <1>1, <2>1, RowsWithFacts
  <2>3. RowsWith(KeyOf(i)) \subseteq own
    BY <1>4 DEF Closed
  <2>4. file.kind \in {"container", "namespace"}
    BY <1>1, RowTypes
  <2>5. ASSUME NEW j \in LotOf(x, c, i) PROVE KeyOf(j) = KeyOf(i) /\ j \in Rows
    <3>1. /\ j \in own
          /\ file.kind = "container" =>
                /\ file.rows[j].workload = file.rows[i].workload
                /\ file.rows[j].image = file.rows[i].image
                /\ file.rows[j].start = file.rows[i].start
      BY DEF LotOf
    <3>2. /\ j \in Rows /\ ExpOf(j) = ExpOf(i)
          /\ file.rows[j].end = file.rows[i].end
          /\ file.kind = "namespace" => file.rows[j].start = file.rows[i].start
          /\ ContainerOf(j) = ContainerOf(i)
      BY <1>2, <2>1, <3>1, BehindRows
    <3> QED
      BY <2>4, <3>1, <3>2, SameKey
  <2>6. ASSUME NEW j \in own, KeyOf(j) = KeyOf(i) PROVE j \in LotOf(x, c, i)
    <3>1. file.kind = "container" =>
             /\ file.rows[j].workload = file.rows[i].workload
             /\ file.rows[j].image = file.rows[i].image
             /\ file.rows[j].start = file.rows[i].start
      BY <2>4, <2>6, KeyFields
    <3> QED
      BY <3>1 DEF LotOf
  <2>7. \A j : j \in LotOf(x, c, i) <=> j \in RowsWith(KeyOf(i))
    BY <2>2, <2>3, <2>5, <2>6
  <2>8. LotOf(x, c, i) \subseteq RowsWith(KeyOf(i)) /\ RowsWith(KeyOf(i)) \subseteq LotOf(x, c, i)
    BY <2>7
  <2> QED
    BY <2>1, <2>8
<1> QED
  BY <1>4, <1>5, <1>6

(* The entries with a request are those of the rows whose lot has one.     *)
LEMMA GivenEntries ==
    ASSUME FileInv, NEW x \in results, NEW c
    PROVE  /\ Closed(WholeOf(x, c)) /\ GivenOf(x, c) = EntriesOf(WholeOf(x, c))
           /\ \A i \in WholeOf(x, c) : file.rows[i].request # Missing
           /\ GivenOf(x, c) = SentOf(x, c) <=>
                 \A i \in PodsOf(x, c) : file.rows[i].request # Missing
<1> DEFINE own == PodsOf(x, c)
           whole == WholeOf(x, c)
           sent == SentOf(x, c)
           given == GivenOf(x, c)
           Has(i) == file.rows[i].request # Missing
<1>1. file \in Files
  BY DEF FileInv
<1>2. /\ Closed(own) /\ sent = EntriesOf(own)
      /\ \A i \in own : i \in Rows /\ LotOf(x, c, i) = RowsWith(KeyOf(i))
  BY ContainerEntries
<1>3. \A i : i \in whole <=>
         i \in own /\ \A j \in RowsWith(KeyOf(i)) : Has(j)
  BY <1>2 DEF WholeOf
<1>4. \A i \in own : i \in RowsWith(KeyOf(i))
  BY <1>1, <1>2, RowsWithFacts
<1>5. \A i \in own : EntryOf(i).request # <<>> <=> i \in whole
  <2>1. \A i \in own : EntryOf(i).request # <<>> <=>
           \A j \in RowsWith(KeyOf(i)) : Has(j)
    BY <1>1, <1>2, EntryRequest
  <2> HIDE DEF whole, own, Has
  <2> QED
    BY <1>3, <2>1
<1>6. /\ \A z : z \in given <=> z \in sent /\ z.request # <<>>
      /\ given \subseteq sent
  BY DEF GivenOf
<1>7. /\ \A z : z \in sent <=> \E i \in own : z = EntryOf(i)
      /\ \A z : z \in EntriesOf(whole) <=> \E i \in whole : z = EntryOf(i)
  BY <1>2 DEF EntriesOf
<1>8. Closed(whole)
  <2>1. whole \in SUBSET own
    BY <1>3
  <2>2. \A i \in whole, j \in own : KeyOf(j) = KeyOf(i) => j \in whole
    BY <1>3
  <2> HIDE DEF whole, own
  <2> QED
    BY <1>1, <1>2, <2>1, <2>2, ClosedPart
<1> HIDE DEF given, sent, whole, own, Has
<1>9. given = EntriesOf(whole)
  <2>1. \A z : z \in given <=> z \in EntriesOf(whole)
    BY <1>3, <1>5, <1>6, <1>7
  <2>2. given \subseteq EntriesOf(whole) /\ EntriesOf(whole) \subseteq given
    BY <2>1
  <2> QED
    BY <2>2
<1>10. ASSUME given = sent, NEW i \in own PROVE Has(i)
  <2>1. EntryOf(i) \in given
    BY <1>7, <1>10
  <2>2. i \in whole
    BY <1>5, <1>6, <2>1
  <2> QED
    BY <1>3, <1>4, <2>2
<1>11. ASSUME \A i \in own : Has(i) PROVE given = sent
  <2>1. \A i \in own : RowsWith(KeyOf(i)) \subseteq own
    BY <1>2 DEF Closed
  <2>2. \A i \in own : i \in whole
    BY <1>3, <1>11, <2>1
  <2>3. sent \subseteq given
    BY <1>5, <1>6, <1>7, <2>2
  <2> QED
    BY <1>6, <2>3
<1>12. \A i \in whole : Has(i)
  BY <1>3, <1>4
<1> QED
  BY <1>8, <1>9, <1>10, <1>11, <1>12 DEF given, sent, whole, own, Has

(* What is sent of requests and limits, at any time.                       *)
LEMMA RequestsState ==
    ASSUME FileInv
    PROVE  RequestsWhole
<1>1. ASSUME NEW x \in results, NEW c
      PROVE  /\ SumFunction([i \in WholeOf(x, c) |-> file.rows[i].request]) =
                SumFunction([z \in GivenOf(x, c) |-> z.request.request])
             /\ GivenOf(x, c) = SentOf(x, c) <=>
                   \A i \in PodsOf(x, c) : file.rows[i].request # Missing
  <2>1. /\ Closed(WholeOf(x, c)) /\ GivenOf(x, c) = EntriesOf(WholeOf(x, c))
        /\ \A i \in WholeOf(x, c) : file.rows[i].request # Missing
        /\ GivenOf(x, c) = SentOf(x, c) <=>
              \A i \in PodsOf(x, c) : file.rows[i].request # Missing
    BY GivenEntries
  <2>2. file \in Files
    BY DEF FileInv
  <2>3. SumFunction([i \in WholeOf(x, c) |-> file.rows[i].request]) =
        SumFunction([z \in GivenOf(x, c) |-> z.request.request])
    BY <2>1, <2>2, RequestsOfEntries
  <2> QED
    BY <2>1, <2>3
<1> QED
  BY <1>1 DEF RequestsWhole, WholeOf, GivenOf, SentOf, PodsOf, LotOf

(* RequestsWhole: pods aggregated together have their requests given as    *)
(* one total or not at all, and a container has one with every entry if    *)
(* and only if all its pods have one, whatever the pods differ in.         *)
THEOREM RequestsAreWhole == Spec => []RequestsWhole
<1>1. FileInv => RequestsWhole
  BY RequestsState
<1> QED
  BY <1>1, GroupsAccounted, PTL

(* What a result keeps of the rows it is made of.                          *)
LEMMA ResultUsage ==
    ASSUME FileInv, NEW x \in results
    PROVE  /\ Cardinality(Behind(x)) = SumFunction([y \in x.entries |-> y.usage.count])
           /\ SumFunction([i \in Behind(x) |-> file.rows[i].use]) =
              SumFunction([y \in x.entries |-> y.usage.sum])
<1>1. file \in Files
  BY DEF FileInv
<1>2. Closed(Behind(x)) /\ Behind(x) # {} /\ x.entries = EntriesOf(Behind(x))
  BY <1>1, BehindClosed, SentResult
<1> QED
  BY <1>1, <1>2, UsageOfEntries

(* What bad times have cost when a file is done.                           *)
LEMMA TimesState ==
    ASSUME FileInv
    PROVE  TimesCost
<1> SUFFICES ASSUME pc = "load", NEW e \in Experiments
             PROVE  LET sent == {x \in results : x.experiment = e}
                        asked == {q.end : q \in {z \in requests : z.experiment = e}}
                        ends == {file.rows[i].end : i \in OfExperiment(e)}
                    IN  IF BadTime \in ends
                        THEN sent = {} /\ asked = {}
                        ELSE /\ asked = {Max(ends)}
                             /\ \A x \in sent :
                                  /\ x.end \in ends
                                  /\ \A z \in sent : z.end = x.end => z = x
                                  /\ Parses(x.start)
                                  /\ \E i \in Behind(x) : file.rows[i].start = x.start
                                  /\ Cardinality(Behind(x)) =
                                     SumFunction([y \in x.entries |-> y.usage.count])
                                  /\ SumFunction([i \in Behind(x) |-> file.rows[i].use]) =
                                     SumFunction([y \in x.entries |-> y.usage.sum])
                             /\ \A i \in OfExperiment(e) :
                                  \/ \E x \in sent : x.end = file.rows[i].end
                                  \/ \E j \in OfExperiment(e) :
                                        /\ file.rows[j].end = file.rows[i].end
                                        /\ ~Parses(file.rows[j].start)
  BY DEF TimesCost
<1> DEFINE sent == {x \in results : x.experiment = e}
           asked == {q.end : q \in {z \in requests : z.experiment = e}}
           ends == {file.rows[i].end : i \in OfExperiment(e)}
           group == GroupOf(e)
<1>1. file \in Files /\ GroupsInv /\ groups = {}
  BY DEF FileInv, GroupsInv
<1>2. e \in Seen /\ Ends(group) = ends
  BY <1>1, GroupsOfRows
<1>3. Done(e)
  BY <1>1, <1>2 DEF GroupsInv
<1>4. CASE BadTime \in ends
  <2>1. SentFor(e) = {} /\ AskedFor(e) = {}
    BY <1>2, <1>3, <1>4 DEF Done, Nothing
  <2> QED
    BY <1>4, <2>1 DEF SentFor, AskedFor
<1>5. CASE BadTime \notin ends
  <2>1. Recorded(e)
    BY <1>2, <1>3, <1>5 DEF Done
  <2>2. PICK first \in Picks(group) : SentFor(e) = Payload(file.kind, e, group, first)
    BY <2>1 DEF Recorded
  <2>3. sent = Payload(file.kind, e, group, first)
    BY <2>2 DEF SentFor
  <2>4. asked = {Max(ends)}
    <3> DEFINE m == MaxIntervalEndTime(group)
    <3>1. {z \in requests : z.experiment = e} = {[experiment |-> e, end |-> m]}
      BY <2>1 DEF Recorded, AskedFor
    <3>2. [experiment |-> e, end |-> m].end = m
      OBVIOUS
    <3>3. m = Max(ends)
      BY <1>2 DEF MaxIntervalEndTime
    <3> HIDE DEF m, ends
    <3> QED
      BY <3>1, <3>2, <3>3
  <2>5. ASSUME NEW x \in sent
        PROVE  /\ x.end \in ends
               /\ \A z \in sent : z.end = x.end => z = x
               /\ Parses(x.start)
               /\ \E i \in Behind(x) : file.rows[i].start = x.start
               /\ Cardinality(Behind(x)) =
                  SumFunction([y \in x.entries |-> y.usage.count])
               /\ SumFunction([i \in Behind(x) |-> file.rows[i].use]) =
                  SumFunction([y \in x.entries |-> y.usage.sum])
    <3>1. x \in results /\ x.experiment = e
      OBVIOUS
    <3>2. /\ x.end \in ends /\ Parses(x.start)
          /\ \E i \in Behind(x) : file.rows[i].start = x.start
      BY <1>2, <3>1, SentResult DEF Parses
    <3>3. \A z \in sent : z.end = x.end => z = x
      <4> HIDE DEF sent, group
      <4> QED
        BY <2>3, OneResult
    <3>4. /\ Cardinality(Behind(x)) =
             SumFunction([y \in x.entries |-> y.usage.count])
          /\ SumFunction([i \in Behind(x) |-> file.rows[i].use]) =
             SumFunction([y \in x.entries |-> y.usage.sum])
      BY <3>1, ResultUsage
    <3> QED
      BY <3>2, <3>3, <3>4
  <2>6. ASSUME NEW i \in OfExperiment(e)
        PROVE  \/ \E x \in sent : x.end = file.rows[i].end
               \/ \E j \in OfExperiment(e) :
                     /\ file.rows[j].end = file.rows[i].end
                     /\ ~Parses(file.rows[j].start)
    <3> DEFINE t == file.rows[i].end
               x == Result(file.kind, e, group, first[t])
    <3>1. t \in Ends(group)
      BY <1>2
    <3> HIDE DEF t
    <3>2. /\ x.end = t /\ x.experiment = e /\ x.start = first[t].key.start
          /\ \E j \in Behind(x) : file.rows[j].start = x.start
      BY <1>1, <2>2, <3>1, ResultMade
    <3>3. CASE Parses(first[t].key.start)
      <4>1. x \in sent
        BY <2>3, <3>1, <3>3 DEF Payload
      <4> QED
        BY <3>2, <4>1 DEF t
    <3>4. CASE ~Parses(first[t].key.start)
      <4> HIDE DEF x
      <4>1. PICK j \in Behind(x) : file.rows[j].start = x.start
        BY <3>2
      <4>2. j \in OfExperiment(e) /\ file.rows[j].end = t
        BY <3>2, <4>1 DEF Behind
      <4> QED
        BY <3>2, <3>4, <4>1, <4>2 DEF t
    <3> QED
      BY <3>3, <3>4
  <2> HIDE DEF sent, asked, ends
  <2>7. IF BadTime \in ends
        THEN sent = {} /\ asked = {}
        ELSE /\ asked = {Max(ends)}
             /\ \A x \in sent :
                  /\ x.end \in ends
                  /\ \A z \in sent : z.end = x.end => z = x
                  /\ Parses(x.start)
                  /\ \E i \in Behind(x) : file.rows[i].start = x.start
                  /\ Cardinality(Behind(x)) =
                     SumFunction([y \in x.entries |-> y.usage.count])
                  /\ SumFunction([i \in Behind(x) |-> file.rows[i].use]) =
                     SumFunction([y \in x.entries |-> y.usage.sum])
             /\ \A i \in OfExperiment(e) :
                  \/ \E x \in sent : x.end = file.rows[i].end
                  \/ \E j \in OfExperiment(e) :
                        /\ file.rows[j].end = file.rows[i].end
                        /\ ~Parses(file.rows[j].start)
    BY <1>5, <2>4, <2>5, <2>6
  <2> QED
    BY <2>7 DEF sent, asked, ends
<1> QED
  BY <1>4, <1>5

(* TimesCost: a time that does not parse costs no more than the file, for  *)
(* an end, or the interval, for a start; and the rows of one end that      *)
(* differ in their start are all in its result, of a namespace those with  *)
(* the start that was sent.                                                *)
THEOREM BadTimesCost == Spec => []TimesCost
<1>1. FileInv => TimesCost
  BY TimesState
<1> QED
  BY <1>1, GroupsAccounted, PTL
=============================================================================
