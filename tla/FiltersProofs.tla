---------------------------- MODULE FiltersProofs ---------------------------
(***************************************************************************)
(* Proofs about the filters, for all values, names, requests and dates:    *)
(* lists of any length, and any relation between names in place of ILIKE.  *)
(***************************************************************************)
EXTENDS Filters, SequenceTheorems, FiniteSetTheorems, TLAPS

(* The window of dates the request asks for.                               *)
AskedWindow ==
    [from |-> IF req.start_date = Empty THEN 2 * FirstOfMonth
              ELSE 2 * req.start_date,
     below |-> Below(req.end_date)]

(* What is left of the plain values.                                       *)
plainVals == Without(includeVals, exactVals)

(* The window is not set yet, or is the one that was asked for.            *)
WindowSet ==
    \/ /\ pc \in {"start", "failed"}
       /\ window = [from |-> 0, below |-> 0]
    \/ /\ pc \in {"filter", "answer", "failed"}
       /\ Bad \notin {req.start_date, req.end_date}
       /\ window = AskedWindow

(* There are no clauses yet, or those of the request.                      *)
ClausesSet ==
    IF pc = "answer"
    THEN /\ ~TooMany
         /\ queryParams = Copy(NoClauses,
               Clauses(req.param, excludeVals, exactVals, includeVals))
    ELSE queryParams = NoClauses

FilterInv == req \in Requests /\ WindowSet /\ ClausesSet

-----------------------------------------------------------------------------
(***************************************************************************)
(* The values kept of a list.                                              *)
(***************************************************************************)
(* The places of a finite set of numbers are 1 to its cardinality: each is *)
(* the place of one number, and it is the place of no other.               *)
LEMMA Places ==
    ASSUME NEW n \in Nat, NEW kept \in SUBSET (1 .. n)
    PROVE  /\ IsFiniteSet(kept) /\ Cardinality(kept) \in 0 .. n
           /\ \A i \in kept :
                 Cardinality({j \in kept : j <= i}) \in 1 .. Cardinality(kept)
           /\ \A m \in 1 .. Cardinality(kept) : \E i \in kept :
                 Cardinality({j \in kept : j <= i}) = m
           /\ \A i, k \in kept :
                 Cardinality({j \in kept : j <= i}) = Cardinality({j \in kept : j <= k})
                     => i = k
<1> DEFINE upto(i) == {j \in kept : j <= i}
           c == Cardinality(kept)
           place == [i \in kept |-> Cardinality(upto(i))]
<1>1. IsFiniteSet(1 .. n) /\ Cardinality(1 .. n) = n
  <2>1. IsFiniteSet(1 .. n) /\ Cardinality(1 .. n) = IF 1 > n THEN 0 ELSE n - 1 + 1
    BY FS_Interval
  <2> QED
    BY <2>1
<1>2. IsFiniteSet(kept) /\ c \in Nat /\ c <= n
  BY <1>1, FS_Subset, FS_CardinalityType
<1>3. ASSUME NEW i \in kept
      PROVE  IsFiniteSet(upto(i)) /\ Cardinality(upto(i)) \in 1 .. c
  <2>1. IsFiniteSet(upto(i)) /\ Cardinality(upto(i)) <= c
    BY <1>2, FS_Subset
  <2>2. Cardinality(upto(i)) \in Nat
    BY <2>1, FS_CardinalityType
  <2>3. i \in upto(i)
    OBVIOUS
  <2>4. Cardinality(upto(i)) # 0
    BY <2>1, <2>3, FS_EmptySet
  <2> QED
    BY <1>2, <2>1, <2>2, <2>4
<1>4. ASSUME NEW i \in kept, NEW k \in kept, i < k
      PROVE  Cardinality(upto(i)) # Cardinality(upto(k))
  <2>1. upto(i) \in SUBSET upto(k) /\ k \in upto(k) /\ k \notin upto(i)
    <3>1. \A j \in kept : j \in Int
      OBVIOUS
    <3>2. i \in Int /\ k \in Int /\ k <= k /\ ~(k <= i)
      BY <1>4, <3>1
    <3>3. \A j \in kept : j <= i => j <= k
      BY <1>4, <3>1
    <3> QED
      BY <3>2, <3>3
  <2>2. upto(i) # upto(k)
    BY <2>1
  <2> HIDE DEF upto
  <2> QED
    BY <1>3, <2>1, <2>2, FS_Subset
<1>5. place \in [kept -> 1 .. c]
  BY <1>3
<1>6. ASSUME NEW i \in kept, NEW k \in kept, place[i] = place[k]
      PROVE  i = k
  <2>1. i \in Int /\ k \in Int
    OBVIOUS
  <2>2. ~(i < k) /\ ~(k < i)
    BY <1>4, <1>6
  <2> QED
    BY <2>1, <2>2
<1>7. place \in Injection(kept, 1 .. c)
  <2>1. DOMAIN place = kept
    OBVIOUS
  <2> HIDE DEF place, c
  <2> QED
    BY <1>5, <1>6, <2>1 DEF Injection, IsInjective
<1>8. IsFiniteSet(1 .. c) /\ Cardinality(1 .. c) = c
  <2> HIDE DEF c
  <2>1. c \in Int /\ 1 \in Int
    BY <1>2
  <2>2. IsFiniteSet(1 .. c) /\ Cardinality(1 .. c) = IF 1 > c THEN 0 ELSE c - 1 + 1
    BY <2>1, FS_Interval
  <2> QED
    BY <1>2, <2>2
<1>9. place \in Surjection(kept, 1 .. c)
  <2> HIDE DEF place
  <2> QED
    BY <1>7, <1>8, FS_Injection
<1>10. \A m \in 1 .. c : \E i \in kept : place[i] = m
  BY <1>9 DEF Surjection
<1>11. c \in 0 .. n
  BY <1>2
<1>12. \A m \in 1 .. c : \E i \in kept : Cardinality(upto(i)) = m
  BY <1>10
<1>13. \A i, k \in kept : Cardinality(upto(i)) = Cardinality(upto(k)) => i = k
  BY <1>6
<1> HIDE DEF place
<1> QED
  BY <1>2, <1>3, <1>11, <1>12, <1>13

(* Without keeps the values that are not among others and no other, and    *)
(* makes the list no longer.                                               *)
LEMMA WithoutFacts ==
    ASSUME NEW S, NEW vals \in Seq(S), NEW others
    PROVE  /\ Without(vals, others) \in Seq(S)
           /\ ToSet(Without(vals, others)) = ToSet(vals) \ ToSet(others)
           /\ Len(Without(vals, others)) <= Len(vals)
<1> DEFINE n == Len(vals)
           kept == {i \in DOMAIN vals : vals[i] \notin ToSet(others)}
           c == Cardinality(kept)
           rank(i) == Cardinality({j \in kept : j <= i})
           place(m) == CHOOSE i \in kept : rank(i) = m
           w == [m \in 1 .. c |-> vals[place(m)]]
<1>1. Without(vals, others) = w
  BY DEF Without
<1>2. n \in Nat /\ DOMAIN vals = 1 .. n /\ \A i \in 1 .. n : vals[i] \in S
  BY LenProperties, ElementOfSeq
<1>3. kept \in SUBSET (1 .. n)
  BY <1>2
<1>k. \A i : i \in kept <=> i \in 1 .. n /\ vals[i] \notin ToSet(others)
  BY <1>2
<1>v. \A x : x \in ToSet(vals) <=> \E i \in 1 .. n : x = vals[i]
  BY <1>2 DEF ToSet
<1> HIDE DEF n, kept
<1>4. /\ c \in 0 .. n
      /\ \A i \in kept : rank(i) \in 1 .. c
      /\ \A m \in 1 .. c : \E i \in kept : rank(i) = m
      /\ \A i, k \in kept : rank(i) = rank(k) => i = k
  BY <1>2, <1>3, Places
<1> HIDE DEF c, rank
<1>5. \A m \in 1 .. c : place(m) \in kept /\ rank(place(m)) = m
  BY <1>4
<1> HIDE DEF place
<1>6. w \in [1 .. c -> S]
  BY <1>2, <1>3, <1>5
<1>7. c \in Nat /\ w \in Seq(S) /\ Len(w) = c /\ DOMAIN w = 1 .. c
  BY <1>2, <1>4, <1>6
<1>8. ASSUME NEW x \in ToSet(w) PROVE x \in ToSet(vals) \ ToSet(others)
  <2>1. PICK m \in 1 .. c : x = vals[place(m)]
    BY <1>7 DEF ToSet
  <2> QED
    BY <1>k, <1>v, <1>5, <2>1
<1>9. ASSUME NEW x \in ToSet(vals) \ ToSet(others) PROVE x \in ToSet(w)
  <2>1. PICK i \in kept : x = vals[i]
    BY <1>k, <1>v
  <2>2. rank(i) \in 1 .. c /\ place(rank(i)) = i
    BY <1>4, <1>5
  <2>3. w[rank(i)] = x
    BY <2>1, <2>2
  <2> QED
    BY <1>7, <2>2, <2>3 DEF ToSet
<1> QED
  BY <1>1, <1>2, <1>4, <1>7, <1>8, <1>9 DEF n

-----------------------------------------------------------------------------
Params == {"cluster", "project", "workload_type"}
Modes == {"include", "exact", "exclude"}

(* The parts of the clauses are typed; only exclusions are joined by AND.  *)
LEMMA PartType ==
    ASSUME NEW param \in Params, NEW mode \in Modes, NEW v
    PROVE  /\ Part(param, mode, v) \in Columns \X Ops
           /\ Part(param, mode, v)[2] = "!=" <=> mode = "exclude"
<1>1. Suffix[mode] \in Ops /\ (Suffix[mode] = "!=" <=> mode = "exclude")
  BY DEF Suffix, Modes, Ops
<1> DEFINE q == Part(param, mode, v)
<1>2. \/ q = <<param, Suffix[mode]>> /\ param # "cluster"
      \/ q = <<"cluster_alias", Suffix[mode]>>
      \/ q = <<"cluster_uuid", Suffix[mode]>>
      \/ q = <<"cluster_uuid", "=">> /\ mode = "include"
  BY DEF Part, parseClusterParams
<1> HIDE DEF q
<1>3. q \in Columns \X Ops /\ (q[2] = "!=" <=> mode = "exclude")
  BY <1>1, <1>2 DEF Columns, Ops, Params
<1> QED
  BY <1>3 DEF q

(* What each part says of a row is what the interface documents.           *)
LEMMA PartMeans ==
    ASSUME NEW v \in Values, NEW row \in Rows, req.param \in Params
    PROVE  /\ Meets(row, Part(req.param, "exclude", v), v)
                 <=> ~NamesRow(v, row, FALSE)
           /\ Meets(row, Part(req.param, "exact", v), v)
                 <=> NamesRow(v, row, FALSE)
           /\ Meets(row, Part(req.param, "include", v), v)
                 <=> NamesRow(v, row, TRUE)
<1>1. \A w \in Names : <<w, w>> \in Like
  BY FiltersAssumption
<1>2. /\ row.cluster_uuid \in Uuids /\ row.cluster_alias \in Names
      /\ row.project \in Names /\ row.workload_type \in Names
  BY FiltersAssumption DEF Rows
<1>3. v \in Uuids \/ v \in Names
  BY DEF Values
<1>4. CASE req.param = "cluster" /\ v \in Uuids
  <2>1. /\ Part(req.param, "exclude", v) = <<"cluster_uuid", "!=">>
        /\ Part(req.param, "exact", v) = <<"cluster_uuid", "=">>
        /\ Part(req.param, "include", v) = <<"cluster_uuid", "=">>
    BY <1>4 DEF Part, parseClusterParams, Suffix
  <2>2. /\ Meets(row, <<"cluster_uuid", "!=">>, v) <=> row.cluster_uuid # v
        /\ Meets(row, <<"cluster_uuid", "=">>, v) <=> row.cluster_uuid = v
    BY DEF Meets
  <2>3. \A partly \in BOOLEAN : NamesRow(v, row, partly) <=> row.cluster_uuid = v
    BY <1>4 DEF NamesRow
  <2> QED
    BY <2>1, <2>2, <2>3
<1>5. CASE req.param = "cluster" /\ v \notin Uuids
  <2>1. /\ Part(req.param, "exclude", v) = <<"cluster_alias", "!=">>
        /\ Part(req.param, "exact", v) = <<"cluster_alias", "=">>
        /\ Part(req.param, "include", v) = <<"cluster_alias", "ILIKE">>
    BY <1>5 DEF Part, parseClusterParams, Suffix
  <2>2. /\ Meets(row, <<"cluster_alias", "!=">>, v) <=> row.cluster_alias # v
        /\ Meets(row, <<"cluster_alias", "=">>, v) <=> row.cluster_alias = v
        /\ Meets(row, <<"cluster_alias", "ILIKE">>, v)
              <=> <<v, row.cluster_alias>> \in Like
    BY DEF Meets
  <2>3. /\ NamesRow(v, row, FALSE) <=> row.cluster_alias = v
        /\ NamesRow(v, row, TRUE)
              <=> row.cluster_alias = v \/ <<v, row.cluster_alias>> \in Like
    BY <1>5 DEF NamesRow
  <2> QED
    BY <1>1, <1>3, <1>5, <2>1, <2>2, <2>3
<1>6. CASE req.param # "cluster"
  <2> DEFINE c == req.param
  <2>1. row[c] \in Names
    BY <1>2, <1>6 DEF Params
  <2>2. /\ Part(c, "exclude", v) = <<c, "!=">>
        /\ Part(c, "exact", v) = <<c, "=">>
        /\ Part(c, "include", v) = <<c, "ILIKE">>
    BY <1>6 DEF Part, Suffix
  <2>3. /\ NamesRow(v, row, FALSE) <=> row[c] = v
        /\ NamesRow(v, row, TRUE) <=> row[c] = v \/ <<v, row[c]>> \in Like
    BY <1>6 DEF NamesRow
  <2> HIDE DEF c
  <2>4. /\ Meets(row, <<c, "!=">>, v) <=> row[c] # v
        /\ Meets(row, <<c, "=">>, v) <=> row[c] = v
        /\ Meets(row, <<c, "ILIKE">>, v) <=> <<v, row[c]>> \in Like
    BY DEF Meets
  <2> QED
    BY <1>1, <2>1, <2>2, <2>3, <2>4 DEF c
<1> QED
  BY <1>4, <1>5, <1>6

(* The lists that make the clauses hold values, none of them empty.        *)
LEMMA ListsTyped ==
    ASSUME req \in Requests
    PROVE  /\ req.param \in Params
           /\ includeVals \in Seq(Values) /\ exactVals \in Seq(Values)
           /\ excludeVals \in Seq(Values) /\ plainVals \in Seq(Values)
           /\ Len(plainVals) <= Len(includeVals)
<1> DEFINE All == Values \cup {Empty}
<1>1. /\ req.param \in Params
      /\ req.include \in Seq(All) /\ req.exact \in Seq(All)
      /\ req.exclude \in Seq(All)
  BY FiltersAssumption DEF Params
<1>2. ASSUME NEW s \in Seq(All)
      PROVE  Given(s) \in Seq(Values)
  <2> DEFINE t == Given(s)
  <2>1. t \in Seq(All) /\ ToSet(t) = ToSet(s) \ ToSet(<<Empty>>)
    BY <1>2, WithoutFacts DEF Given
  <2>2. Empty \in ToSet(<<Empty>>)
    <3>1. <<Empty>>[1] = Empty /\ 1 \in DOMAIN <<Empty>>
      OBVIOUS
    <3> QED
      BY <3>1 DEF ToSet
  <2> HIDE DEF t
  <2>3. \A i \in 1 .. Len(t) : t[i] \in Values
    <3> TAKE i \in 1 .. Len(t)
    <3>1. t[i] \in All
      BY <2>1, ElementOfSeq
    <3>2. DOMAIN t = 1 .. Len(t)
      BY <2>1, LenProperties
    <3>3. t[i] \in ToSet(t)
      BY <3>2 DEF ToSet
    <3> QED
      BY <2>1, <2>2, <3>1, <3>3
  <2>4. Len(t) \in Nat /\ t = [i \in 1 .. Len(t) |-> t[i]]
    BY <2>1, LenProperties
  <2>5. t \in Seq(Values)
    BY <2>3, <2>4, IsASeq
  <2> QED
    BY <2>5 DEF t
<1> HIDE DEF All
<1>3. /\ Given(req.include) \in Seq(Values) /\ Given(req.exact) \in Seq(Values)
      /\ Given(req.exclude) \in Seq(Values) /\ <<>> \in Seq(Values)
  BY <1>1, <1>2, EmptySeq
<1>4. /\ includeVals \in Seq(Values) /\ exactVals \in Seq(Values)
      /\ excludeVals \in Seq(Values)
  <2>1. includeVals \in Seq(Values)
    BY <1>3 DEF includeVals
  <2>2. excludeVals \in Seq(Values)
    BY <1>3 DEF excludeVals
  <2>3. PICK a \in Seq(Values) : exactVals = a \o Given(req.exact)
    BY <1>3 DEF exactVals
  <2>4. exactVals \in Seq(Values)
    BY <1>3, <2>3, ConcatProperties
  <2> QED
    BY <2>1, <2>2, <2>4
<1>5. plainVals \in Seq(Values) /\ Len(plainVals) <= Len(includeVals)
  BY <1>4, WithoutFacts DEF plainVals
<1> QED
  BY <1>1, <1>4, <1>5

(* The text of the clause of a mode.                                       *)
Text(mode, vals) == [i \in DOMAIN vals |-> Part(req.param, mode, vals[i])]

(* There is one comparison for each value, of the column and with the      *)
(* operator of the mode.                                                   *)
LEMMA TextFacts ==
    ASSUME req.param \in Params, NEW mode \in Modes, NEW vals \in Seq(Values),
           vals # <<>>
    PROVE  /\ Text(mode, vals) \in Seq(Columns \X Ops)
           /\ Len(Text(mode, vals)) = Len(vals)
           /\ Len(vals) \in Nat /\ Len(vals) >= 1
           /\ DOMAIN Text(mode, vals) = 1 .. Len(vals)
           /\ DOMAIN vals = 1 .. Len(vals)
           /\ \A i \in 1 .. Len(vals) :
                 /\ vals[i] \in Values
                 /\ Text(mode, vals)[i] = Part(req.param, mode, vals[i])
                 /\ Text(mode, vals)[i][2] = "!=" <=> mode = "exclude"
<1> DEFINE n == Len(vals)
           t == Text(mode, vals)
<1>1. n \in Nat /\ DOMAIN vals = 1 .. n
  BY LenProperties
<1>2. n >= 1
  BY <1>1, EmptySeq
<1>3. t = [i \in 1 .. n |-> Part(req.param, mode, vals[i])]
  BY <1>1 DEF Text
<1>4. \A i \in 1 .. n :
         /\ Part(req.param, mode, vals[i]) \in Columns \X Ops
         /\ Part(req.param, mode, vals[i])[2] = "!=" <=> mode = "exclude"
  BY PartType
<1>5. \A i \in 1 .. n : vals[i] \in Values
  BY ElementOfSeq
<1> HIDE DEF n, t
<1>6. t \in Seq(Columns \X Ops) /\ Len(t) = n
  BY <1>1, <1>3, <1>4, IsASeq
<1> QED
  BY <1>1, <1>2, <1>3, <1>4, <1>5, <1>6 DEF n, t

(* The clauses of the request.                                             *)
AskedClauses ==
    Copy(NoClauses, Clauses(req.param, excludeVals, exactVals, includeVals))

(* The clauses have an entry for vals under the text of its mode.          *)
HasEntry(mode, vals) ==
    /\ Text(mode, vals) \in DOMAIN AskedClauses
    /\ AskedClauses[Text(mode, vals)] = vals

(* Two clauses have the same text only when both are about UUIDs.          *)
LEMMA TextsDiffer ==
    ASSUME req \in Requests
    PROVE  /\ excludeVals # <<>> /\ exactVals # <<>> =>
                 Text("exclude", excludeVals) # Text("exact", exactVals)
           /\ excludeVals # <<>> /\ plainVals # <<>> =>
                 Text("exclude", excludeVals) # Text("include", plainVals)
           /\ exactVals # <<>> /\ plainVals # <<>> /\ ~SameText =>
                 Text("exact", exactVals) # Text("include", plainVals)
<1>1. /\ req.param \in Params /\ excludeVals \in Seq(Values)
      /\ exactVals \in Seq(Values) /\ plainVals \in Seq(Values)
  BY ListsTyped
<1> DEFINE te == Text("exclude", excludeVals)
           tx == Text("exact", exactVals)
           ti == Text("include", plainVals)
<1>2. /\ excludeVals # <<>> => te[1][2] = "!="
      /\ exactVals # <<>> => tx[1][2] # "!="
      /\ plainVals # <<>> => ti[1][2] # "!="
  <2>1. ASSUME NEW mode \in Modes, NEW vals \in Seq(Values), vals # <<>>
        PROVE  Text(mode, vals)[1][2] = "!=" <=> mode = "exclude"
    <3>1. Len(vals) \in Nat /\ Len(vals) >= 1
      BY <1>1, <2>1, TextFacts
    <3>2. 1 \in 1 .. Len(vals)
      BY <3>1
    <3> QED
      BY <1>1, <2>1, <3>2, TextFacts
  <2> QED
    BY <1>1, <2>1 DEF Modes
<1>3. ASSUME exactVals # <<>>, plainVals # <<>>, tx = ti
      PROVE  SameText
  <2>1. /\ DOMAIN exactVals = 1 .. Len(exactVals) /\ Len(tx) = Len(exactVals)
        /\ \A i \in 1 .. Len(exactVals) :
              tx[i] = Part(req.param, "exact", exactVals[i])
        /\ Len(exactVals) \in Nat /\ Len(exactVals) >= 1
    BY <1>1, <1>3, TextFacts DEF Modes
  <2>2. /\ DOMAIN plainVals = 1 .. Len(plainVals) /\ Len(ti) = Len(plainVals)
        /\ \A i \in 1 .. Len(plainVals) :
              ti[i] = Part(req.param, "include", plainVals[i])
    BY <1>1, <1>3, TextFacts DEF Modes
  <2>3. Len(plainVals) = Len(exactVals)
    BY <1>3, <2>1, <2>2
  <2>4. \A i \in 1 .. Len(exactVals) :
           Part(req.param, "exact", exactVals[i])
              = Part(req.param, "include", plainVals[i])
    BY <1>3, <2>1, <2>2, <2>3
  <2>5. ASSUME NEW v, NEW w,
               Part(req.param, "exact", v) = Part(req.param, "include", w)
        PROVE  req.param = "cluster" /\ v \in Uuids /\ w \in Uuids
    <3>1. CASE req.param # "cluster"
      BY <2>5, <3>1 DEF Part, Suffix
    <3>2. CASE req.param = "cluster"
      BY <2>5, <3>2 DEF Part, parseClusterParams, Suffix
    <3> QED
      BY <3>1, <3>2
  <2>6. \A i \in 1 .. Len(exactVals) :
           req.param = "cluster" /\ exactVals[i] \in Uuids /\ plainVals[i] \in Uuids
    BY <2>4, <2>5
  <2>7. req.param = "cluster"
    BY <2>1, <2>6
  <2>8. ToSet(exactVals) \subseteq Uuids /\ ToSet(plainVals) \subseteq Uuids
    BY <2>1, <2>2, <2>3, <2>6 DEF ToSet
  <2> QED
    BY <1>3, <2>3, <2>7, <2>8 DEF SameText, plainVals
<1> QED
  BY <1>2, <1>3

(* Every list of the request has its clause, and there is no other.        *)
LEMMA Entries ==
    ASSUME req \in Requests
    PROVE  /\ \A text \in DOMAIN AskedClauses :
                 \E mode \in Modes, vals \in {excludeVals, exactVals, plainVals} :
                    /\ vals # <<>>
                    /\ text = Text(mode, vals) /\ AskedClauses[text] = vals
                    /\ \/ mode = "exclude" /\ vals = excludeVals
                       \/ mode = "exact" /\ vals = exactVals
                       \/ mode = "include" /\ vals = plainVals
           /\ excludeVals # <<>> => HasEntry("exclude", excludeVals)
           /\ exactVals # <<>> /\ ~SameText => HasEntry("exact", exactVals)
           /\ plainVals # <<>> => HasEntry("include", plainVals)
<1> DEFINE Entry(mode, vals) == buildModeClause(req.param, mode, vals)
           a == Entry("exclude", excludeVals)
           b == Entry("exact", exactVals)
           c == Entry("include", plainVals)
           te == Text("exclude", excludeVals)
           tx == Text("exact", exactVals)
           ti == Text("include", plainVals)
<1>1. AskedClauses = Copy(NoClauses, Copy(Copy(a, b), c))
  BY DEF AskedClauses, Clauses, plainVals
<1>2. DOMAIN NoClauses = {}
  BY DEF NoClauses
<1>3. ASSUME NEW mode, NEW vals
      PROVE  /\ DOMAIN Entry(mode, vals) =
                   IF vals = <<>> THEN {} ELSE {Text(mode, vals)}
             /\ vals # <<>> => Entry(mode, vals)[Text(mode, vals)] = vals
  BY <1>2 DEF buildModeClause, Text
<1>4. /\ DOMAIN a = IF excludeVals = <<>> THEN {} ELSE {te}
      /\ DOMAIN b = IF exactVals = <<>> THEN {} ELSE {tx}
      /\ DOMAIN c = IF plainVals = <<>> THEN {} ELSE {ti}
      /\ excludeVals # <<>> => a[te] = excludeVals
      /\ exactVals # <<>> => b[tx] = exactVals
      /\ plainVals # <<>> => c[ti] = plainVals
  BY <1>3
<1>5. /\ excludeVals # <<>> /\ exactVals # <<>> => te # tx
      /\ excludeVals # <<>> /\ plainVals # <<>> => te # ti
      /\ exactVals # <<>> /\ plainVals # <<>> /\ ~SameText => tx # ti
  BY TextsDiffer
<1> HIDE DEF a, b, c, te, tx, ti
<1>6. /\ DOMAIN AskedClauses = DOMAIN a \cup DOMAIN b \cup DOMAIN c
      /\ \A t \in DOMAIN AskedClauses :
            AskedClauses[t] = IF t \in DOMAIN c THEN c[t]
                              ELSE IF t \in DOMAIN b THEN b[t] ELSE a[t]
  BY <1>1, <1>2 DEF Copy
<1>7. /\ excludeVals # <<>> =>
            te \in DOMAIN AskedClauses /\ AskedClauses[te] = excludeVals
      /\ exactVals # <<>> /\ ~SameText =>
            tx \in DOMAIN AskedClauses /\ AskedClauses[tx] = exactVals
      /\ plainVals # <<>> =>
            ti \in DOMAIN AskedClauses /\ AskedClauses[ti] = plainVals
  BY <1>4, <1>5, <1>6
<1>8. ASSUME NEW t \in DOMAIN AskedClauses
      PROVE  \/ excludeVals # <<>> /\ t = te /\ AskedClauses[t] = excludeVals
             \/ exactVals # <<>> /\ t = tx /\ AskedClauses[t] = exactVals
             \/ plainVals # <<>> /\ t = ti /\ AskedClauses[t] = plainVals
  BY <1>4, <1>5, <1>6, <1>8
<1>9. /\ excludeVals # <<>> => HasEntry("exclude", excludeVals)
      /\ exactVals # <<>> /\ ~SameText => HasEntry("exact", exactVals)
      /\ plainVals # <<>> => HasEntry("include", plainVals)
  BY <1>7 DEF HasEntry, te, tx, ti
<1>10. {"exclude", "exact", "include"} = Modes
  BY DEF Modes
<1> QED
  BY <1>8, <1>9, <1>10 DEF te, tx, ti

(* The clause of a list says of a row what the interface documents.        *)
LEMMA HoldsMeans ==
    ASSUME req.param \in Params, NEW row \in Rows, NEW vals \in Seq(Values),
           vals # <<>>
    PROVE  /\ Holds(row, Text("exclude", vals), vals)
                 <=> \A v \in ToSet(vals) : ~NamesRow(v, row, FALSE)
           /\ Holds(row, Text("exact", vals), vals) <=> Wanted(vals, row, FALSE)
           /\ Holds(row, Text("include", vals), vals) <=> Wanted(vals, row, TRUE)
<1> DEFINE n == Len(vals)
<1>1. /\ n \in Nat /\ n >= 1 /\ DOMAIN vals = 1 .. n
      /\ \A i \in 1 .. n : vals[i] \in Values
  BY TextFacts DEF Modes
<1>2. 1 \in 1 .. n
  BY <1>1
<1> HIDE DEF n
<1>3. Holds(row, Text("exclude", vals), vals)
         <=> \A v \in ToSet(vals) : ~NamesRow(v, row, FALSE)
  <2> DEFINE t == Text("exclude", vals)
  <2>1. /\ DOMAIN t = 1 .. n
        /\ \A i \in 1 .. n : /\ t[i] = Part(req.param, "exclude", vals[i])
                             /\ t[i][2] = "!="
    BY TextFacts DEF Modes, n
  <2>2. \A i \in 1 .. n : Meets(row, t[i], vals[i])
                             <=> ~NamesRow(vals[i], row, FALSE)
    <3>1. \A v \in Values : Meets(row, Part(req.param, "exclude", v), v)
                               <=> ~NamesRow(v, row, FALSE)
      BY PartMeans
    <3> HIDE DEF t
    <3> QED
      BY <1>1, <2>1, <3>1
  <2> HIDE DEF t
  <2>3. Holds(row, t, vals) <=> \A i \in 1 .. n : ~NamesRow(vals[i], row, FALSE)
    BY <1>2, <2>1, <2>2 DEF Holds
  <2>4. Holds(row, t, vals) <=> \A v \in ToSet(vals) : ~NamesRow(v, row, FALSE)
    BY <1>1, <2>3 DEF ToSet
  <2> QED
    BY <2>4 DEF t
<1>4. Holds(row, Text("exact", vals), vals) <=> Wanted(vals, row, FALSE)
  <2> DEFINE t == Text("exact", vals)
  <2>1. /\ DOMAIN t = 1 .. n
        /\ \A i \in 1 .. n : /\ t[i] = Part(req.param, "exact", vals[i])
                             /\ t[i][2] # "!="
    BY TextFacts DEF Modes, n
  <2>2. \A i \in 1 .. n : Meets(row, t[i], vals[i])
                             <=> NamesRow(vals[i], row, FALSE)
    BY <1>1, <2>1, PartMeans
  <2> HIDE DEF t
  <2>3. Holds(row, t, vals) <=> Wanted(vals, row, FALSE)
    BY <1>1, <2>1, <2>2 DEF Holds, Wanted
  <2> QED
    BY <2>3 DEF t
<1>5. Holds(row, Text("include", vals), vals) <=> Wanted(vals, row, TRUE)
  <2> DEFINE t == Text("include", vals)
  <2>1. /\ DOMAIN t = 1 .. n
        /\ \A i \in 1 .. n : /\ t[i] = Part(req.param, "include", vals[i])
                             /\ t[i][2] # "!="
    BY TextFacts DEF Modes, n
  <2>2. \A i \in 1 .. n : Meets(row, t[i], vals[i])
                             <=> NamesRow(vals[i], row, TRUE)
    BY <1>1, <2>1, PartMeans
  <2> HIDE DEF t
  <2>3. Holds(row, t, vals) <=> Wanted(vals, row, TRUE)
    BY <1>1, <2>1, <2>2 DEF Holds, Wanted
  <2> QED
    BY <2>3 DEF t
<1> QED
  BY <1>3, <1>4, <1>5

-----------------------------------------------------------------------------
(* FilterInv holds at first and every step keeps it.                       *)
LEMMA FilterInvInductive ==
    /\ Init => FilterInv
    /\ FilterInv /\ [Next]_vars => FilterInv'
<1>1. ASSUME Init
      PROVE  FilterInv
  BY <1>1 DEF Init, FilterInv, WindowSet, ClausesSet
<1>2. ASSUME FilterInv, [Next]_vars
      PROVE  FilterInv'
  <2>1. CASE SetWindow
    <3>1. /\ pc = "start" /\ req' = req /\ queryParams' = queryParams
          /\ \/ pc' = "failed" /\ window' = window
             \/ /\ Bad \notin {req.start_date, req.end_date}
                /\ pc' = "filter" /\ window' = AskedWindow
      BY <2>1 DEF SetWindow, AskedWindow
    <3>2. queryParams = NoClauses /\ window = [from |-> 0, below |-> 0]
      BY <1>2, <3>1 DEF FilterInv, ClausesSet, WindowSet
    <3>3. AskedWindow' = AskedWindow
      BY <3>1 DEF AskedWindow, Below
    <3>4. WindowSet'
      BY <3>1, <3>2, <3>3 DEF WindowSet
    <3>5. ClausesSet'
      BY <3>1, <3>2 DEF ClausesSet
    <3> QED
      BY <1>2, <3>1, <3>4, <3>5 DEF FilterInv
  <2>2. CASE Filter
    <3>1. /\ pc = "filter" /\ req' = req /\ window' = window
          /\ \/ pc' = "failed" /\ queryParams' = queryParams
             \/ /\ pc' = "answer" /\ ~TooMany
                /\ queryParams' = Copy(queryParams,
                      Clauses(req.param, excludeVals, exactVals, includeVals))
      BY <2>2 DEF Filter
    <3>2. /\ queryParams = NoClauses /\ window = AskedWindow
          /\ Bad \notin {req.start_date, req.end_date}
      BY <1>2, <3>1 DEF FilterInv, ClausesSet, WindowSet
    <3>3. AskedWindow' = AskedWindow
      BY <3>1 DEF AskedWindow, Below
    <3>4. /\ includeVals' = includeVals /\ exactVals' = exactVals
          /\ excludeVals' = excludeVals
      BY <3>1 DEF includeVals, exactVals, excludeVals, AsExact
    <3>5. TooMany' = TooMany
      BY <3>4 DEF TooMany
    <3>6. WindowSet'
      BY <3>1, <3>2, <3>3 DEF WindowSet
    <3>7. ClausesSet'
      <4>1. CASE pc' = "failed"
        BY <3>1, <3>2, <4>1 DEF ClausesSet
      <4>2. CASE pc' = "answer"
        BY <3>1, <3>2, <3>4, <3>5, <4>2 DEF ClausesSet
      <4> QED
        BY <3>1, <4>1, <4>2
    <3> QED
      BY <1>2, <3>1, <3>6, <3>7 DEF FilterInv
  <2>3. CASE UNCHANGED vars
    <3>1. req' = req /\ pc' = pc /\ window' = window /\ queryParams' = queryParams
      BY <2>3 DEF vars
    <3>2. AskedWindow' = AskedWindow
      BY <3>1 DEF AskedWindow, Below
    <3>3. /\ includeVals' = includeVals /\ exactVals' = exactVals
          /\ excludeVals' = excludeVals
      BY <3>1 DEF includeVals, exactVals, excludeVals, AsExact
    <3>4. TooMany' = TooMany
      BY <3>3 DEF TooMany
    <3>5. WindowSet' /\ ClausesSet'
      BY <1>2, <3>1, <3>2, <3>3, <3>4 DEF FilterInv, WindowSet, ClausesSet
    <3> QED
      BY <1>2, <3>1, <3>5 DEF FilterInv
  <2> QED
    BY <1>2, <2>1, <2>2, <2>3 DEF Next, Terminated
<1> QED
  BY <1>1, <1>2

(* Dates are days: the answer has its last day whole.                      *)
LEMMA WindowMeans ==
    ASSUME req \in Requests, Bad \notin {req.start_date, req.end_date},
           NEW t \in Nat
    PROVE  /\ AskedWindow.from \in Nat /\ AskedWindow.below \in Nat
           /\ AskedWindow.from <= t <=>
                 t >= (IF req.start_date = Empty THEN 2 * FirstOfMonth
                       ELSE 2 * req.start_date)
           /\ t < AskedWindow.below <=>
                 IF req.end_date = Empty THEN t < Now
                 ELSE t \div 2 <= req.end_date
<1>1. /\ req.start_date = Empty \/ req.start_date \in Nat
      /\ req.end_date = Empty \/ req.end_date \in Nat
      /\ Now \in Nat /\ FirstOfMonth \in Nat
  BY FiltersAssumption
<1>2. /\ AskedWindow.from = IF req.start_date = Empty THEN 2 * FirstOfMonth
                            ELSE 2 * req.start_date
      /\ AskedWindow.below = IF req.end_date = Empty THEN Now
                             ELSE 2 * (req.end_date + 1)
  BY DEF AskedWindow, Below
<1>3. \A d \in Nat : t < 2 * (d + 1) <=> t \div 2 <= d
  OBVIOUS
<1>4. AskedWindow.from \in Nat /\ AskedWindow.below \in Nat
  BY <1>1, <1>2
<1>5. AskedWindow.from <= t <=>
         t >= (IF req.start_date = Empty THEN 2 * FirstOfMonth
               ELSE 2 * req.start_date)
  BY <1>1, <1>2
<1>6. t < AskedWindow.below <=>
         IF req.end_date = Empty THEN t < Now ELSE t \div 2 <= req.end_date
  BY <1>1, <1>2, <1>3
<1> QED
  BY <1>4, <1>5, <1>6

(* Every clause has as many arguments as placeholders, never more than     *)
(* MAXIMUM_COUNT_PER_QUERY_PARAM, for requests of any length.              *)
THEOREM TypeCorrect == Spec => []TypeOK
<1>1. ASSUME FilterInv
      PROVE  TypeOK
  <2>1. pc \in {"start", "filter", "answer", "failed"}
    BY <1>1 DEF FilterInv, WindowSet
  <2>2. window.from \in Nat /\ window.below \in Nat
    <3>1. CASE window = [from |-> 0, below |-> 0]
      BY <3>1
    <3>2. CASE window = AskedWindow /\ Bad \notin {req.start_date, req.end_date}
      BY <1>1, <3>2, WindowMeans DEF FilterInv
    <3> QED
      BY <1>1, <3>1, <3>2 DEF FilterInv, WindowSet
  <2>3. ASSUME NEW text \in DOMAIN queryParams
        PROVE  /\ text \in Seq(Columns \X Ops)
               /\ queryParams[text] \in Seq(Values)
               /\ Len(text) = Len(queryParams[text])
               /\ Len(text) \in 1 .. MaxCount
    <3>1. DOMAIN NoClauses = {}
      BY DEF NoClauses
    <3>2. queryParams = AskedClauses /\ ~TooMany
      BY <1>1, <2>3, <3>1 DEF FilterInv, ClausesSet, AskedClauses
    <3>3. req \in Requests
      BY <1>1 DEF FilterInv
    <3>4. PICK mode \in Modes, vals \in {excludeVals, exactVals, plainVals} :
             /\ vals # <<>> /\ text = Text(mode, vals)
             /\ AskedClauses[text] = vals
      BY <2>3, <3>2, <3>3, Entries
    <3>5. /\ req.param \in Params
          /\ includeVals \in Seq(Values) /\ exactVals \in Seq(Values)
          /\ excludeVals \in Seq(Values) /\ plainVals \in Seq(Values)
          /\ Len(plainVals) <= Len(includeVals)
      BY <3>3, ListsTyped
    <3>6. vals \in Seq(Values)
      BY <3>4, <3>5
    <3>7. /\ text \in Seq(Columns \X Ops) /\ Len(text) = Len(vals)
          /\ Len(vals) \in Nat /\ Len(vals) >= 1
      BY <3>4, <3>5, <3>6, TextFacts
    <3>8. Len(vals) <= MaxCount
      <4>1. /\ Len(includeVals) \in Nat /\ Len(exactVals) \in Nat
            /\ Len(excludeVals) \in Nat /\ Len(plainVals) \in Nat
        BY <3>5, LenProperties
      <4>2. /\ Len(includeVals) <= MaxCount /\ Len(exactVals) <= MaxCount
            /\ Len(excludeVals) <= MaxCount /\ MaxCount \in Nat
        BY <3>2, <4>1, FiltersAssumption DEF TooMany
      <4>3. Len(plainVals) <= MaxCount
        BY <3>5, <4>1, <4>2
      <4> QED
        BY <3>4, <4>2, <4>3
    <3>9. Len(text) \in 1 .. MaxCount
      BY <3>7, <3>8, FiltersAssumption
    <3> QED
      BY <3>2, <3>4, <3>6, <3>7, <3>9
  <2> QED
    BY <2>1, <2>2, <2>3 DEF TypeOK
<1> QED
  BY <1>1, FilterInvInductive, PTL DEF Spec

(* The answer has the rows the request describes and no other: for any     *)
(* lists, any dates and whatever names occur in one another.               *)
THEOREM SelectsWhatIsAsked == Spec => []SelectsAsked
<1>1. ASSUME FilterInv, pc = "answer", ~SameText, NEW row \in Rows
      PROVE  Selected(row) <=>
                /\ row.end >= (IF req.start_date = Empty THEN 2 * FirstOfMonth
                               ELSE 2 * req.start_date)
                /\ IF req.end_date = Empty THEN row.end < Now
                   ELSE row.end \div 2 <= req.end_date
                /\ \A v \in ToSet(excludeVals) : ~NamesRow(v, row, FALSE)
                /\ Wanted(exactVals, row, FALSE)
                /\ Wanted(Without(includeVals, exactVals), row, TRUE)
  <2>1. /\ req \in Requests /\ window = AskedWindow
        /\ Bad \notin {req.start_date, req.end_date}
        /\ queryParams = AskedClauses
    BY <1>1 DEF FilterInv, WindowSet, ClausesSet, AskedClauses
  <2>2. row.end \in Nat
    BY FiltersAssumption DEF Rows
  <2>3. /\ req.param \in Params /\ exactVals \in Seq(Values)
        /\ excludeVals \in Seq(Values) /\ plainVals \in Seq(Values)
    BY <2>1, ListsTyped
  <2> DEFINE Excluded == \A v \in ToSet(excludeVals) : ~NamesRow(v, row, FALSE)
             Exact == Wanted(exactVals, row, FALSE)
             Plain == Wanted(plainVals, row, TRUE)
             All == \A text \in DOMAIN AskedClauses :
                       Holds(row, text, AskedClauses[text])
  <2>4. /\ excludeVals # <<>> =>
              (Holds(row, Text("exclude", excludeVals), excludeVals) <=> Excluded)
        /\ exactVals # <<>> =>
              (Holds(row, Text("exact", exactVals), exactVals) <=> Exact)
        /\ plainVals # <<>> =>
              (Holds(row, Text("include", plainVals), plainVals) <=> Plain)
    BY <2>3, HoldsMeans
  <2>5. /\ excludeVals = <<>> => Excluded
        /\ exactVals = <<>> => Exact
        /\ plainVals = <<>> => Plain
    <3>1. ToSet(<<>>) = {}
      BY DEF ToSet
    <3> QED
      BY <3>1 DEF Wanted
  <2> HIDE DEF Excluded, Exact, Plain
  <2>6. ASSUME All
        PROVE  Excluded /\ Exact /\ Plain
    <3>1. /\ excludeVals # <<>> => HasEntry("exclude", excludeVals)
          /\ exactVals # <<>> => HasEntry("exact", exactVals)
          /\ plainVals # <<>> => HasEntry("include", plainVals)
      BY <1>1, <2>1, Entries
    <3>2. ASSUME NEW mode, NEW vals, HasEntry(mode, vals)
          PROVE  Holds(row, Text(mode, vals), vals)
      BY <2>6, <3>2 DEF HasEntry
    <3> QED
      BY <2>4, <2>5, <3>1, <3>2
  <2>7. ASSUME Excluded, Exact, Plain
        PROVE  All
    <3> SUFFICES ASSUME NEW text \in DOMAIN AskedClauses
                 PROVE  Holds(row, text, AskedClauses[text])
      OBVIOUS
    <3>1. PICK mode \in Modes, vals \in {excludeVals, exactVals, plainVals} :
             /\ vals # <<>> /\ text = Text(mode, vals)
             /\ AskedClauses[text] = vals
             /\ \/ mode = "exclude" /\ vals = excludeVals
                \/ mode = "exact" /\ vals = exactVals
                \/ mode = "include" /\ vals = plainVals
      BY <2>1, Entries
    <3> QED
      BY <2>4, <2>7, <3>1
  <2>8. Selected(row) <=>
           AskedWindow.from <= row.end /\ row.end < AskedWindow.below /\ All
    BY <2>1 DEF Selected
  <2>9. /\ AskedWindow.from <= row.end <=>
              row.end >= (IF req.start_date = Empty THEN 2 * FirstOfMonth
                          ELSE 2 * req.start_date)
        /\ row.end < AskedWindow.below <=>
              IF req.end_date = Empty THEN row.end < Now
              ELSE row.end \div 2 <= req.end_date
    BY <2>1, <2>2, WindowMeans
  <2> HIDE DEF All
  <2> QED
    BY <2>6, <2>7, <2>8, <2>9 DEF Excluded, Exact, Plain, plainVals
<1>2. ASSUME FilterInv
      PROVE  SelectsAsked
  BY <1>1, <1>2 DEF SelectsAsked
<1> QED
  BY <1>2, FilterInvInductive, PTL DEF Spec
=============================================================================
