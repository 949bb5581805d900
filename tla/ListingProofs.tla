---------------------------- MODULE ListingProofs ---------------------------
(***************************************************************************)
(* Proofs about the list endpoints, for any number of rows, any values to  *)
(* sort by, any limit and any number of writes during the walk.            *)
(***************************************************************************)
EXTENDS Listing, SequenceTheorems, FiniteSetTheorems, TLAPS

(* The number of rows before row i.                                        *)
RowsBefore(t, how, i) == {j \in DOMAIN t : Before(t, how, j, i)}
Rank(t, how, i) == Cardinality(RowsBefore(t, how, i))

(* A query that runs was accepted.                                         *)
Accepted == status \in {"count", "scan", "page", "done"} => ~Refused(ask)

(* Nothing has happened before the first request.                          *)
Fresh ==
    status = "idle" =>
        ask = first /\ got = <<>> /\ again = {} /\ dir = "next" /\ writes = 0

TypeInv == TypeOK /\ Accepted /\ Fresh

(* The client is on its way forward from offset 0.                         *)
Forward ==
    dir = "next" /\ opts.format = "json" /\ ListAPIOptions(first).offset = 0

(* A row that no write has touched is seen already, or still ahead.        *)
Ahead ==
    Forward /\ ~setback =>
        /\ status \in {"count", "scan"} =>
              \A i \in stayed \ ToSet(got) :
                 Rank(rows, opts.how, i) >= opts.offset
        /\ status = "page" =>
              \A i \in stayed \ ToSet(got) :
                 /\ opts.limit >= 0
                 /\ Rank(rows, opts.how, i) >= opts.offset + opts.limit

AheadInv == TypeInv /\ Ahead /\ UnmovedSeen

(* The rows of s come in the order of the list.                            *)
Sorted(t, how, s) ==
    \A m, n \in DOMAIN s : m < n => Before(t, how, s[m], s[n])

(* The client has got the first b rows, in their order and once.           *)
SeenBelow(b) ==
    /\ again = {}
    /\ ToSet(got) = {i \in DOMAIN rows : Rank(rows, opts.how, i) < b}
    /\ Sorted(rows, opts.how, got)

(* Nobody writes: the count is right, and the client has got every row     *)
(* before the page in hand.                                                *)
Undisturbed ==
    writes = 0 =>
        /\ status \in {"scan", "page"} => count = Cardinality(DOMAIN rows)
        /\ Forward /\ opts.limit >= 0 =>
              /\ status \in {"count", "scan"} => SeenBelow(opts.offset)
              /\ status = "page" => SeenBelow(opts.offset + opts.limit)

(* A CSV download is whole, or as long as it may be.                       *)
Download ==
    writes = 0 /\ status = "page" /\ opts.format = "csv" /\ opts.offset = 0 =>
        ToSet(page) = DOMAIN rows \/ Len(page) = RecordLimitCSV

(* Without a limit the next link of the first page leads back to it.       *)
Unlimited ==
    status \in {"count", "scan", "page"} /\ Forward /\ opts.limit < 0 =>
        opts.offset = 0

ExactInv == TypeInv /\ Undisturbed /\ Download /\ Unlimited

-----------------------------------------------------------------------------
(* The ORDER BY clause.                                                    *)

(* A table is finite, and its values are numbers or NULL.                  *)
LEMMA TableFacts ==
    ASSUME NEW t \in Tables
    PROVE  /\ DOMAIN t \in SUBSET Ids /\ IsFiniteSet(DOMAIN t)
           /\ Cardinality(DOMAIN t) \in Nat
           /\ \A i \in DOMAIN t : i \in Nat /\ (t[i] \in Int \/ t[i] = Null)
<1>1. PICK S \in SUBSET Ids : t \in [S -> Keys \cup {Null}]
  BY DEF Tables
<1>2. DOMAIN t = S /\ \A i \in S : t[i] \in Keys \cup {Null}
  BY <1>1
<1>3. IsFiniteSet(S)
  BY FS_Subset, ListingAssumption
<1>4. Cardinality(S) \in Nat
  BY <1>3, FS_CardinalityType
<1> QED
  BY <1>2, <1>3, <1>4, ListingAssumption

(* Of two rows, one comes before the other: no two tie.                    *)
LEMMA BeforeTotal ==
    ASSUME NEW t \in Tables, NEW how, NEW a \in DOMAIN t, NEW b \in DOMAIN t
    PROVE  /\ ~Before(t, how, a, a)
           /\ a # b => (Before(t, how, a, b) <=> ~Before(t, how, b, a))
<1>1. /\ a \in Nat /\ (t[a] \in Int \/ t[a] = Null)
      /\ b \in Nat /\ (t[b] \in Int \/ t[b] = Null)
  BY TableFacts
<1>2. Null \notin Int
  BY ListingAssumption
<1>3. CASE t[a] = t[b]
  BY <1>1, <1>3 DEF Before
<1>4. CASE t[a] # t[b] /\ Null \in {t[a], t[b]}
  BY <1>1, <1>4 DEF Before
<1>5. CASE t[a] # t[b] /\ Null \notin {t[a], t[b]}
  <2>1. t[a] \in Int /\ t[b] \in Int
    BY <1>1, <1>5
  <2> QED
    BY <1>1, <1>5, <2>1 DEF Before
<1> QED
  BY <1>3, <1>4, <1>5

(* s has every row of t once, each before those that follow.               *)
InOrder(t, how, s) ==
    /\ s \in Seq(DOMAIN t)
    /\ Len(s) = Cardinality(DOMAIN t)
    /\ \A m, n \in 1 .. Len(s) : m # n => s[m] # s[n]
    /\ \A i \in DOMAIN t : \E m \in 1 .. Len(s) : s[m] = i
    /\ \A m, n \in 1 .. Len(s) : m < n => Before(t, how, s[m], s[n])

(* Every sequence the ORDER BY clause permits is the one in order.         *)
LEMMA OrdersFacts ==
    ASSUME NEW t \in Tables, NEW how, NEW s \in Orders(t, how)
    PROVE  InOrder(t, how, s)
<1> DEFINE S == DOMAIN t
           n == Cardinality(S)
<1>1. n \in Nat /\ IsFiniteSet(S)
  BY TableFacts
<1>2. /\ s \in [1 .. n -> S]
      /\ \A i, j \in 1 .. n : i # j => s[i] # s[j]
      /\ \A i, j \in DOMAIN s : i < j => ~Before(t, how, s[j], s[i])
  BY DEF Orders, SetToSeqs
<1> HIDE DEF n
<1>3. s \in Seq(S) /\ Len(s) = n
  <2>1. s = [i \in 1 .. n |-> s[i]]
    BY <1>2
  <2>2. s \in Seq(S)
    BY <1>1, <1>2, <2>1, IsASeq
  <2>3. Len(s) \in Nat /\ DOMAIN s = 1 .. Len(s) /\ DOMAIN s = 1 .. n
    BY <1>2, <2>2, LenProperties
  <2>4. Len(s) = n
    <3> DEFINE l == Len(s)
    <3>1. l \in Nat /\ n \in Nat /\ 1 .. l = 1 .. n
      BY <1>1, <2>3
    <3> HIDE DEF l
    <3>2. (l > 0 => l \in 1 .. n) /\ (n > 0 => n \in 1 .. l)
      BY <3>1
    <3>3. l = n
      BY <3>1, <3>2
    <3> QED
      BY <3>3 DEF l
  <2> QED
    BY <2>2, <2>4
<1>4. \A i \in S : \E m \in 1 .. n : s[m] = i
  <2>1. s \in Injection(1 .. n, S)
    BY <1>2 DEF Injection, IsInjective
  <2>2. Cardinality(1 .. n) = n
    BY <1>1, FS_Interval
  <2>3. s \in Surjection(1 .. n, S)
    BY <1>1, <2>1, <2>2, FS_Injection DEF n
  <2> QED
    BY <2>3 DEF Surjection
<1>5. ASSUME NEW i \in 1 .. n, NEW j \in 1 .. n, i < j
      PROVE  Before(t, how, s[i], s[j])
  <2>1. s[i] \in DOMAIN t /\ s[j] \in DOMAIN t /\ s[i] # s[j]
    BY <1>1, <1>2, <1>5
  <2>2. ~Before(t, how, s[j], s[i])
    BY <1>2, <1>5
  <2> QED
    BY <2>1, <2>2, BeforeTotal
<1> QED
  BY <1>2, <1>3, <1>4, <1>5 DEF InOrder, n

(* The row in place p has p - 1 rows before it.                            *)
LEMMA RankFacts ==
    ASSUME NEW t \in Tables, NEW how, NEW s, InOrder(t, how, s),
           NEW p \in 1 .. Len(s)
    PROVE  Rank(t, how, s[p]) = p - 1
<1> DEFINE R == RowsBefore(t, how, s[p])
           I == 1 .. p - 1
           f == [m \in I |-> s[m]]
<1>1. /\ Len(s) \in Nat
      /\ \A m \in 1 .. Len(s) : s[m] \in DOMAIN t
  BY LenProperties, ElementOfSeq DEF InOrder
<1>2. \A m \in I : m \in 1 .. Len(s) /\ m < p
  BY <1>1
<1>3. f \in [I -> R]
  <2>1. \A m \in I : s[m] \in R
    BY <1>1, <1>2 DEF InOrder, RowsBefore
  <2> QED
    BY <2>1
<1>4. \A m, n \in I : f[m] = f[n] => m = n
  BY <1>2 DEF InOrder
<1>5. ASSUME NEW i \in R
      PROVE  \E m \in I : f[m] = i
  <2>1. i \in DOMAIN t /\ Before(t, how, i, s[p])
    BY <1>5 DEF RowsBefore
  <2>2. PICK m \in 1 .. Len(s) : s[m] = i
    BY <2>1 DEF InOrder
  <2>3. m # p
    BY <1>1, <2>1, <2>2, BeforeTotal
  <2>4. ~(p < m)
    <3> SUFFICES ASSUME p < m
                 PROVE  FALSE
      OBVIOUS
    <3>1. Before(t, how, s[p], s[m]) /\ s[p] # s[m]
      BY <2>3 DEF InOrder
    <3> QED
      BY <1>1, <2>1, <2>2, <3>1, BeforeTotal
  <2>5. m \in I
    BY <1>1, <2>3, <2>4
  <2> QED
    BY <2>2, <2>5
<1> HIDE DEF R, I, f
<1>6. f \in Bijection(I, R)
  BY <1>3, <1>4, <1>5 DEF Bijection, Injection, Surjection, IsInjective
<1>7. ExistsBijection(I, R)
  BY <1>6 DEF ExistsBijection
<1>8. IsFiniteSet(I) /\ Cardinality(I) = p - 1
  <2> DEFINE q == p - 1
  <2>1. q \in Nat
    BY <1>1
  <2> HIDE DEF q
  <2>2. /\ IsFiniteSet(1 .. q)
        /\ Cardinality(1 .. q) = IF 1 > q THEN 0 ELSE q - 1 + 1
    BY <2>1, FS_Interval
  <2>3. Cardinality(1 .. q) = q
    BY <2>1, <2>2
  <2> QED
    BY <2>2, <2>3 DEF I, q
<1>9. Cardinality(R) = Cardinality(I)
  BY <1>7, <1>8, FS_Bijection
<1> QED
  BY <1>8, <1>9 DEF Rank, R

(* p is the page of OFFSET and LIMIT: the rows whose rank is in its range, *)
(* in their order.  From offset 0 it has every row, or as many as asked.   *)
IsPage(t, how, offset, limit, p) ==
    /\ p \in Seq(DOMAIN t)
    /\ ToSet(p) = {i \in DOMAIN t :
                      /\ Rank(t, how, i) >= offset
                      /\ limit >= 0 => Rank(t, how, i) < offset + limit}
    /\ Sorted(t, how, p)
    /\ offset = 0 => ToSet(p) = DOMAIN t \/ Len(p) = limit

(* OFFSET and LIMIT cut such a page from the rows in their order.          *)
LEMMA CutFacts ==
    ASSUME NEW t \in Tables, NEW how, NEW s, InOrder(t, how, s),
           NEW offset \in Nat, NEW limit \in Int
    PROVE  IsPage(t, how, offset, limit, Cut(s, offset, limit))
<1> DEFINE l == Len(s)
           e == IF limit \in 0 .. l - offset THEN offset + limit ELSE l
           b == offset + 1
           p == SubSeq(s, b, e)
           D == DOMAIN t
           rank(i) == Rank(t, how, i)
           In(i) == /\ rank(i) >= offset
                    /\ limit >= 0 => rank(i) < offset + limit
<1>1. /\ l \in Nat
      /\ \A m \in 1 .. l : s[m] \in D
      /\ \A m \in 1 .. l : rank(s[m]) = m - 1
      /\ \A i \in D : \E m \in 1 .. l : s[m] = i
      /\ \A m, n \in 1 .. l : m < n => Before(t, how, s[m], s[n])
  <2>1. l \in Nat /\ \A m \in 1 .. l : s[m] \in D
    BY LenProperties, ElementOfSeq DEF InOrder
  <2>2. \A m \in 1 .. l : rank(s[m]) = m - 1
    BY RankFacts
  <2> QED
    BY <2>1, <2>2 DEF InOrder
<1> HIDE DEF l, rank
<1>2. /\ e \in Int /\ e <= l /\ b \in Nat /\ b >= 1
      /\ \/ e = offset + limit /\ limit >= 0
         \/ e = l /\ ~(limit \in 0 .. l - offset)
  BY <1>1
<1>3. Cut(s, offset, limit) = p
  BY DEF Cut, l
<1> HIDE DEF e, b
<1>4. /\ p \in Seq(D)
      /\ Len(p) = IF b <= e THEN e - b + 1 ELSE 0
      /\ \A m \in 1 .. e - b + 1 : p[m] = s[b + m - 1]
  <2>1. \A m \in b .. e : s[m] \in D
    BY <1>1, <1>2
  <2> HIDE DEF D
  <2> QED
    BY <1>2, <2>1, SubSeqProperties
<1> HIDE DEF p, D
<1>p. \A m \in 1 .. l : m <= e <=> (limit >= 0 => m - 1 < offset + limit)
  <2> SUFFICES ASSUME NEW m \in 1 .. l
               PROVE  m <= e <=> (limit >= 0 => m - 1 < offset + limit)
    OBVIOUS
  <2>1. m \in Int /\ m <= l
    BY <1>1
  <2> QED
    BY <1>1, <1>2, <2>1
<1>5. \A m \in 1 .. Len(p) : /\ offset + m \in 1 .. l /\ offset + m <= e
                             /\ p[m] = s[offset + m]
  BY <1>1, <1>2, <1>4 DEF b
<1>6. ASSUME NEW m \in 1 .. l, In(s[m])
      PROVE  m - offset \in 1 .. Len(p)
  <2>1. rank(s[m]) = m - 1 /\ m \in Nat
    BY <1>1
  <2>2. m <= e /\ offset <= m - 1
    <3>1. rank(s[m]) >= offset /\ (limit >= 0 => rank(s[m]) < offset + limit)
      BY <1>6
    <3>2. m - 1 >= offset /\ (limit >= 0 => m - 1 < offset + limit)
      BY <2>1, <3>1
    <3>3. m <= e
      BY <1>p, <3>2
    <3> QED
      BY <2>1, <3>2, <3>3
  <2>3. e \in Int /\ b <= e /\ e - b + 1 = e - offset
    BY <1>2, <2>1, <2>2 DEF b
  <2>4. Len(p) = e - offset
    BY <1>4, <2>3
  <2> QED
    BY <2>1, <2>2, <2>3, <2>4
<1>7. DOMAIN p = 1 .. Len(p) /\ Len(p) \in Nat
  BY <1>4, LenProperties
<1>8. ToSet(p) = {i \in D : In(i)}
  <2>1. ASSUME NEW m \in 1 .. Len(p)
        PROVE  p[m] \in D /\ In(p[m])
    <3> DEFINE k == offset + m
    <3>1. k \in 1 .. l /\ k <= e /\ p[m] = s[k]
      BY <1>5
    <3>2. k >= offset + 1
      BY <1>7
    <3> HIDE DEF k
    <3>3. s[k] \in D /\ rank(s[k]) = k - 1 /\ k \in Nat
      BY <1>1, <3>1
    <3>4. limit >= 0 => k - 1 < offset + limit
      BY <1>p, <3>1
    <3> QED
      BY <3>1, <3>2, <3>3, <3>4
  <2>2. ASSUME NEW i \in D, In(i)
        PROVE  \E m \in 1 .. Len(p) : p[m] = i
    <3>1. PICK m \in 1 .. l : s[m] = i
      BY <1>1
    <3>2. m - offset \in 1 .. Len(p)
      BY <1>6, <2>2, <3>1
    <3>3. p[m - offset] = s[offset + (m - offset)]
      BY <1>5, <3>2
    <3>4. offset + (m - offset) = m
      BY <1>1
    <3> QED
      BY <3>1, <3>2, <3>3, <3>4
  <2> HIDE DEF In
  <2> QED
    BY <1>7, <2>1, <2>2 DEF ToSet
<1>9. \A m, n \in 1 .. Len(p) : m < n => Before(t, how, p[m], p[n])
  <2> SUFFICES ASSUME NEW m \in 1 .. Len(p), NEW n \in 1 .. Len(p), m < n
               PROVE  Before(t, how, p[m], p[n])
    OBVIOUS
  <2>1. offset + m \in 1 .. l /\ offset + n \in 1 .. l
    BY <1>5
  <2>2. offset + m < offset + n
    BY <1>7
  <2> QED
    BY <1>1, <1>5, <2>1, <2>2
<1>10. offset = 0 => ToSet(p) = D \/ Len(p) = limit
  <2> SUFFICES ASSUME offset = 0
               PROVE  ToSet(p) = D \/ Len(p) = limit
    OBVIOUS
  <2>1. CASE e = limit /\ limit >= 0
    BY <1>2, <1>4, <2>1 DEF b
  <2>2. CASE e = l
    <3>1. Len(p) = l
      BY <1>1, <1>2, <1>4, <2>2 DEF b
    <3>2. \A m \in 1 .. l : p[m] = s[m]
      <4> SUFFICES ASSUME NEW m \in 1 .. l
                   PROVE  p[m] = s[m]
        OBVIOUS
      <4>1. offset + m = m
        OBVIOUS
      <4> QED
        BY <1>5, <3>1, <4>1
    <3>3. \A i \in D : i \in ToSet(p)
      BY <1>1, <1>7, <3>1, <3>2 DEF ToSet
    <3>4. ToSet(p) \subseteq D
      BY <1>1, <1>7, <3>1, <3>2 DEF ToSet
    <3> QED
      BY <3>3, <3>4
  <2> QED
    BY <1>2, <2>1, <2>2
<1> QED
  BY <1>3, <1>4, <1>7, <1>8, <1>9, <1>10 DEF IsPage, Sorted, rank, D

-----------------------------------------------------------------------------
(* The types of the state.                                                 *)

(* The options of an accepted request.                                     *)
Options == [limit : Int, offset : Nat, how : {"asc", "desc"}, format : Formats]

(* A request that is not refused has options a query can be made of.       *)
LEMMA OptionsFacts ==
    ASSUME NEW r \in RawRequests, ~Refused(r)
    PROVE  ListAPIOptions(r) \in Options
<1> DEFINE limit == parseInt(r.limit, DefaultLimit)
           o == parseInt(r.offset, 0)
           offset == IF o < 0 THEN 0 ELSE o
           how == IF r.how = Absent THEN "desc" ELSE r.how
           format == resolveResponseFormat(r)
<1>1. limit \in Int
  BY ListingAssumption DEF parseInt, RawRequests
<1>2. offset \in Nat
  <2>1. o \in Int
    BY DEF parseInt, RawRequests
  <2> HIDE DEF o
  <2> QED
    BY <2>1
<1>3. how \in {"asc", "desc"}
  BY DEF RawRequests, Hows, Refused
<1>4. format \in Formats
  BY DEF RawRequests, resolveResponseFormat, Refused, Formats
<1>5. ListAPIOptions(r) = [limit |-> limit, offset |-> offset, how |-> how,
                           format |-> format]
  BY DEF ListAPIOptions
<1> HIDE DEF limit, offset, how, format
<1> QED
  BY <1>1, <1>2, <1>3, <1>4, <1>5 DEF Options

(* A link gives another offset, and repeats the limit, the order and the   *)
(* format of the request it answers.                                       *)
LEMMA LinkFacts ==
    ASSUME NEW r \in RawRequests, ~Refused(r), NEW o \in Int,
           NEW q, q = [r EXCEPT !.limit = ListAPIOptions(r).limit, !.offset = o]
    PROVE  /\ q \in RawRequests /\ ~Refused(q) /\ q.kind = r.kind
           /\ ListAPIOptions(q).limit = ListAPIOptions(r).limit
           /\ ListAPIOptions(q).how = ListAPIOptions(r).how
           /\ ListAPIOptions(q).format = ListAPIOptions(r).format
           /\ ListAPIOptions(q).offset = IF o < 0 THEN 0 ELSE o
<1> DEFINE limit == ListAPIOptions(r).limit
<1>1. limit \in Int
  BY OptionsFacts DEF Options
<1>2. limit = parseInt(r.limit, DefaultLimit)
  BY DEF ListAPIOptions
<1> HIDE DEF limit
<1>3. /\ q \in RawRequests
      /\ q.limit = limit /\ q.offset = o /\ q.kind = r.kind /\ q.how = r.how
      /\ q.by = r.by /\ q.accept = r.accept /\ q.format = r.format
  BY <1>1 DEF RawRequests, limit
<1>4. /\ parseInt(q.limit, DefaultLimit) = limit
      /\ parseInt(q.offset, 0) = o
      /\ resolveResponseFormat(q) = resolveResponseFormat(r)
  BY <1>1, <1>3, ListingAssumption DEF parseInt, resolveResponseFormat
<1>5. ~Refused(q)
  BY <1>2, <1>3, <1>4 DEF Refused
<1>6. /\ ListAPIOptions(q).limit = limit
      /\ ListAPIOptions(q).how = ListAPIOptions(r).how
      /\ ListAPIOptions(q).format = ListAPIOptions(r).format
      /\ ListAPIOptions(q).offset = IF o < 0 THEN 0 ELSE o
  BY <1>3, <1>4 DEF ListAPIOptions
<1> QED
  BY <1>3, <1>5, <1>6 DEF limit

(* The table after an upsert, and after a row has gone.                    *)
LEMMA WriteFacts ==
    ASSUME NEW t \in Tables, NEW i \in Ids, NEW k \in Keys \cup {Null}
    PROVE  /\ [j \in DOMAIN t \cup {i} |-> IF j = i THEN k ELSE t[j]] \in Tables
           /\ [j \in DOMAIN t \ {i} |-> t[j]] \in Tables
<1>1. PICK S \in SUBSET Ids : t \in [S -> Keys \cup {Null}]
  BY DEF Tables
<1>2. DOMAIN t = S
  BY <1>1
<1>3. [j \in S \cup {i} |-> IF j = i THEN k ELSE t[j]]
         \in [S \cup {i} -> Keys \cup {Null}]
  BY <1>1
<1>4. [j \in S \ {i} |-> t[j]] \in [S \ {i} -> Keys \cup {Null}]
  BY <1>1
<1>5. S \cup {i} \in SUBSET Ids /\ S \ {i} \in SUBSET Ids
  OBVIOUS
<1> QED
  BY <1>2, <1>3, <1>4, <1>5 DEF Tables

(* The types of the table and its history, and those of the walk.          *)
StoreTypes ==
    /\ rows \in Tables
    /\ writes \in 0 .. MaxWrites
    /\ stayed \subseteq DOMAIN rows
    /\ setback \in BOOLEAN

WalkTypes ==
    /\ status \in {"idle", "count", "scan", "page", "done", "failed"}
    /\ first \in Requests /\ ask \in RawRequests
    /\ count \in Nat
    /\ page \in Seq(Ids) /\ got \in Seq(Ids) /\ again \subseteq Ids
    /\ dir \in {"next", "previous"}
    /\ torn \in BOOLEAN

(* The type of the options follows from the request being accepted.        *)
LEMMA TypeParts ==
    TypeInv <=> StoreTypes /\ WalkTypes /\ Accepted /\ Fresh
<1>1. ASSUME ask \in RawRequests, Accepted
      PROVE  status \in {"count", "scan", "page", "done"} => opts \in Options
  BY <1>1, OptionsFacts DEF Accepted, opts
<1>2. TypeInv => StoreTypes /\ WalkTypes
  BY DEF TypeInv, TypeOK, StoreTypes, WalkTypes
<1>3. StoreTypes /\ WalkTypes /\ Accepted => TypeOK
  BY <1>1 DEF TypeOK, StoreTypes, WalkTypes, Options
<1> QED
  BY <1>2, <1>3 DEF TypeInv

(* The select answers with the page the options ask for.                   *)
LEMMA ScanFacts ==
    ASSUME TypeInv, Scan
    PROVE  /\ IsPage(rows, opts.how, opts.offset, CutLimit(opts), page')
           /\ page' \in Seq(Ids)
           /\ opts \in Options
<1>1. rows \in Tables /\ ask \in RawRequests /\ ~Refused(ask)
  BY TypeParts DEF StoreTypes, WalkTypes, Accepted, Scan
<1>2. opts \in Options
  BY <1>1, OptionsFacts DEF opts
<1>3. opts.offset \in Nat /\ CutLimit(opts) \in Int
  BY <1>2, ListingAssumption DEF Options, CutLimit
<1>4. PICK s \in Orders(rows, opts.how) :
         page' = Cut(s, opts.offset, CutLimit(opts))
  BY DEF Scan
<1> DEFINE how == opts.how
           offset == opts.offset
           limit == CutLimit(opts)
<1> HIDE DEF how, offset, limit
<1>5. InOrder(rows, how, s)
  BY <1>1, <1>4, OrdersFacts DEF how
<1>6. offset \in Nat /\ limit \in Int
  BY <1>3 DEF offset, limit
<1>7. IsPage(rows, how, offset, limit, Cut(s, offset, limit))
  BY <1>1, <1>5, <1>6, CutFacts
<1>8. IsPage(rows, how, offset, limit, page')
  BY <1>4, <1>7 DEF offset, limit
<1>9. page' \in Seq(Ids)
  <2> DEFINE D == DOMAIN rows
             p == page'
  <2>1. p \in Seq(D) /\ D \subseteq Ids
    BY <1>1, <1>8, TableFacts DEF IsPage
  <2> HIDE DEF D, p
  <2>2. p \in Seq(Ids)
    BY <2>1, SeqMonotonic
  <2> QED
    BY <2>2 DEF p
<1> QED
  BY <1>2, <1>8, <1>9 DEF how, offset, limit

(* The elements of a list put after another.                               *)
LEMMA ConcatSet ==
    ASSUME NEW S, NEW s \in Seq(S), NEW t \in Seq(S)
    PROVE  ToSet(s \o t) = ToSet(s) \cup ToSet(t)
<1> DEFINE u == s \o t
           l == Len(s)
           k == Len(t)
<1>1. /\ u \in Seq(S) /\ Len(u) = l + k
      /\ \A i \in 1 .. l + k : u[i] = IF i <= l THEN s[i] ELSE t[i - l]
  BY ConcatProperties
<1>2. l \in Nat /\ k \in Nat /\ DOMAIN s = 1 .. l /\ DOMAIN t = 1 .. k
  BY LenProperties
<1> HIDE DEF u
<1>3. DOMAIN u = 1 .. l + k
  BY <1>1, LenProperties
<1> HIDE DEF l, k
<1>4. ASSUME NEW i \in 1 .. l
      PROVE  i \in 1 .. l + k /\ u[i] = s[i]
  BY <1>1, <1>2
<1>5. ASSUME NEW i \in 1 .. k
      PROVE  l + i \in 1 .. l + k /\ u[l + i] = t[i]
  <2>1. l \in Nat /\ k \in Nat /\ i \in Nat /\ 1 <= i /\ i <= k
    BY <1>2
  <2>2. l + i \in 1 .. l + k /\ ~(l + i <= l)
    BY <2>1
  <2>3. (l + i) - l = i
    BY <2>1
  <2>4. u[l + i] = t[(l + i) - l]
    BY <1>1, <2>2
  <2> QED
    BY <2>2, <2>3, <2>4
<1>6. ASSUME NEW i \in 1 .. l + k
      PROVE  u[i] \in ToSet(s) \cup ToSet(t)
  <2>1. CASE i <= l
    <3>1. i \in 1 .. l /\ u[i] = s[i]
      BY <1>1, <1>2, <2>1
    <3> QED
      BY <1>2, <3>1 DEF ToSet
  <2>2. CASE ~(i <= l)
    <3>1. i - l \in 1 .. k /\ u[i] = t[i - l]
      BY <1>1, <1>2, <2>2
    <3> QED
      BY <1>2, <3>1 DEF ToSet
  <2> QED
    BY <2>1, <2>2
<1>7. ToSet(u) \subseteq ToSet(s) \cup ToSet(t)
  BY <1>3, <1>6 DEF ToSet
<1>8. ToSet(s) \subseteq ToSet(u)
  BY <1>2, <1>3, <1>4 DEF ToSet
<1>9. ToSet(t) \subseteq ToSet(u)
  BY <1>2, <1>3, <1>5 DEF ToSet
<1> QED
  BY <1>7, <1>8, <1>9 DEF u

(* A list that holds nothing is empty.                                     *)
LEMMA NothingInEmpty ==
    ASSUME NEW S, NEW s \in Seq(S), ToSet(s) = {}
    PROVE  s = <<>>
<1>1. Len(s) \in Nat /\ DOMAIN s = 1 .. Len(s)
  BY LenProperties
<1>2. \A i \in 1 .. Len(s) : FALSE
  BY <1>1 DEF ToSet
<1>3. Len(s) = 0
  BY <1>1, <1>2
<1> QED
  BY <1>3, EmptySeq

(* What the client has after a page.                                       *)
LEMMA ReceiveFacts ==
    ASSUME NEW p \in Seq(Ids), got \in Seq(Ids), again \subseteq Ids, Receive(p)
    PROVE  /\ got' \in Seq(Ids) /\ again' \subseteq Ids
           /\ dir = "next" => /\ ToSet(got') = ToSet(got) \cup ToSet(p)
                              /\ again' = again \cup (ToSet(p) \cap ToSet(got))
<1>1. got \o p \in Seq(Ids)
  BY ConcatProperties
<1>2. ToSet(got \o p) = ToSet(got) \cup ToSet(p)
  BY ConcatSet
<1>3. ToSet(p) \subseteq Ids
  BY LenProperties, ElementOfSeq DEF ToSet
<1>4. CASE dir = "next"
  <2>1. /\ got' = IF ToSet(p) \subseteq ToSet(got) THEN got ELSE got \o p
        /\ again' = again \cup (ToSet(p) \cap ToSet(got))
    BY <1>4 DEF Receive
  <2>2. CASE ToSet(p) \subseteq ToSet(got)
    BY <1>3, <2>1, <2>2
  <2>3. CASE ~(ToSet(p) \subseteq ToSet(got))
    BY <1>1, <1>2, <1>3, <2>1, <2>3
  <2> QED
    BY <2>2, <2>3
<1>5. CASE dir # "next"
  BY <1>5 DEF Receive
<1> QED
  BY <1>4, <1>5

(* Every step keeps the types.                                             *)
LEMMA TypeStep ==
    ASSUME TypeInv, [Next]_vars
    PROVE  TypeInv'
<1> DEFINE Running == {"count", "scan", "page", "done"}
<1>1. StoreTypes /\ WalkTypes /\ Accepted /\ Fresh
  BY TypeParts
<1>2. (TypeInv <=> StoreTypes /\ WalkTypes /\ Accepted /\ Fresh)'
  BY TypeParts, PTL
<1> SUFFICES /\ StoreTypes' /\ WalkTypes' /\ Accepted' /\ Fresh'
  BY <1>2
<1>3. CASE Ask
  <2>1. UNCHANGED <<rows, writes, stayed, setback, count, page, dir, got, again,
                    torn, first, ask>>
    BY <1>3 DEF Ask, Handle, historyVars
  <2>2. status' = IF Refused(ask) THEN "failed" ELSE "count"
    BY <1>3 DEF Ask, Handle
  <2> QED
    BY <1>1, <2>1, <2>2
       DEF StoreTypes, WalkTypes, Accepted, Fresh, Refused
<1>4. CASE Count
  <2>1. count' \in Nat
    BY <1>1, <1>4, TableFacts DEF Count, StoreTypes
  <2> QED
    BY <1>1, <1>4, <2>1 DEF Count, clientVars, historyVars, StoreTypes,
       WalkTypes, Accepted, Fresh, Refused
<1>5. CASE Scan
  <2>1. page' \in Seq(Ids)
    BY <1>5, ScanFacts
  <2>2. got' \in Seq(Ids) /\ again' \subseteq Ids
    <3>1. CASE UNCHANGED <<got, again>>
      BY <1>1, <3>1 DEF WalkTypes
    <3>2. CASE Receive(page')
      BY <1>1, <2>1, <3>2, ReceiveFacts DEF WalkTypes
    <3> QED
      BY <1>5, <3>1, <3>2 DEF Scan
  <2>3. /\ UNCHANGED <<rows, first, ask, count, dir, writes, stayed, setback>>
        /\ torn' \in BOOLEAN
        /\ status = "scan" /\ status' \in {"page", "failed"}
    BY <1>5 DEF Scan, historyVars
  <2> QED
    BY <1>1, <2>1, <2>2, <2>3
       DEF StoreTypes, WalkTypes, Accepted, Fresh, Refused
<1>6. CASE QueryFails
  BY <1>1, <1>6 DEF QueryFails, clientVars, historyVars, StoreTypes,
     WalkTypes, Accepted, Fresh, Refused
<1>7. CASE FollowNext \/ FollowPrevious
  <2>1. PICK o \in Int : ask' = Link(o)
    <3>1. ~Refused(ask) /\ ask \in RawRequests
      BY <1>1, <1>7 DEF FollowNext, FollowPrevious, Accepted, WalkTypes
    <3>2. opts \in Options
      BY <3>1, OptionsFacts DEF opts
    <3>3. next # NoLink => next \in Int
      BY <1>1, <3>2 DEF next, NextLink, Options, WalkTypes
    <3>4. previous # NoLink => previous \in Int
      BY <1>1, <3>2 DEF previous, PreviousLink, Options
    <3> QED
      BY <1>7, <3>3, <3>4 DEF FollowNext, FollowPrevious, Handle
  <2>2. ask' \in RawRequests /\ ~Refused(ask')
    <3>1. ~Refused(ask) /\ ask \in RawRequests
      BY <1>1, <1>7 DEF FollowNext, FollowPrevious, Accepted, WalkTypes
    <3> QED
      BY <2>1, <3>1, LinkFacts DEF Link, opts
  <2>3. /\ UNCHANGED <<rows, first, count, page, got, again, torn, writes,
                       stayed, setback>>
        /\ dir' \in {"next", "previous"}
        /\ status' = "count"
    BY <1>1, <1>7, <2>2 DEF FollowNext, FollowPrevious, Handle, historyVars,
       WalkTypes
  <2>4. StoreTypes' /\ WalkTypes'
    BY <1>1, <2>2, <2>3 DEF StoreTypes, WalkTypes
  <2>5. Accepted' /\ Fresh'
    BY <2>2, <2>3 DEF Accepted, Fresh
  <2> QED
    BY <2>4, <2>5
<1>8. CASE Leave
  BY <1>1, <1>8 DEF Leave, clientVars, historyVars, StoreTypes,
     WalkTypes, Accepted, Fresh, Refused
<1>9. ASSUME NEW i \in Ids, NEW k \in Keys \cup {Null}, Save(i, k)
      PROVE  StoreTypes' /\ WalkTypes' /\ Accepted' /\ Fresh'
  <2>1. rows' \in Tables /\ DOMAIN rows' = DOMAIN rows \cup {i}
    BY <1>1, <1>9, WriteFacts DEF Save, StoreTypes
  <2>2. /\ writes' \in 0 .. MaxWrites /\ setback' \in BOOLEAN
        /\ stayed' \subseteq DOMAIN rows'
    BY <1>1, <1>9, <2>1, ListingAssumption DEF Save, StoreTypes
  <2>3. UNCHANGED <<status, clientVars, count, page, torn>> /\ status # "idle"
    BY <1>9 DEF Save
  <2> QED
    BY <1>1, <2>1, <2>2, <2>3
       DEF clientVars, StoreTypes, WalkTypes, Accepted, Fresh, Refused
<1>10. ASSUME NEW i \in Ids, Drop(i)
       PROVE  StoreTypes' /\ WalkTypes' /\ Accepted' /\ Fresh'
  <2>1. rows' \in Tables /\ DOMAIN rows' = DOMAIN rows \ {i}
    BY <1>1, <1>10, WriteFacts DEF Drop, StoreTypes
  <2>2. /\ writes' \in 0 .. MaxWrites /\ setback' \in BOOLEAN
        /\ stayed' \subseteq DOMAIN rows'
    BY <1>1, <1>10, <2>1, ListingAssumption DEF Drop, StoreTypes
  <2>3. UNCHANGED <<status, clientVars, count, page, torn>> /\ status # "idle"
    BY <1>10 DEF Drop
  <2> QED
    BY <1>1, <2>1, <2>2, <2>3
       DEF clientVars, StoreTypes, WalkTypes, Accepted, Fresh, Refused
<1>11. CASE UNCHANGED vars
  BY <1>1, <1>11 DEF vars, StoreTypes, WalkTypes, Accepted, Fresh, Refused
<1> QED
  BY <1>3, <1>4, <1>5, <1>6, <1>7, <1>8, <1>9, <1>10, <1>11
     DEF Next, Serve, Walk, Terminated

(* So do the states a client may begin in.                                 *)
LEMMA TypeInit ==
    Init => TypeInv
<1> SUFFICES ASSUME Init
             PROVE  StoreTypes /\ WalkTypes /\ Accepted /\ Fresh
  BY TypeParts
<1>1. <<>> \in Seq(Ids)
  OBVIOUS
<1>2. ask \in RawRequests
  BY ListingAssumption DEF Init
<1>3. StoreTypes
  <2>1. 0 \in 0 .. MaxWrites
    BY ListingAssumption
  <2> QED
    BY <2>1 DEF Init, StoreTypes
<1>4. WalkTypes
  BY <1>1, <1>2 DEF Init, WalkTypes
<1>5. Accepted /\ Fresh
  BY DEF Init, Accepted, Fresh
<1> QED
  BY <1>3, <1>4, <1>5

(* The state keeps its types, and no statement runs with an offset below   *)
(* zero or an order it does not know, whatever the client asks for.        *)
THEOREM TypeCorrect == Spec => []TypeOK
<1>1. TypeInv => TypeOK
  BY DEF TypeInv
<1> QED
  BY <1>1, TypeInit, TypeStep, PTL DEF Spec

-----------------------------------------------------------------------------
(* A walk during which others write.                                       *)

(* A row has fewer rows before it than there are rows.                     *)
LEMMA RankBounds ==
    ASSUME NEW t \in Tables, NEW how, NEW i \in DOMAIN t
    PROVE  Rank(t, how, i) \in Nat /\ Rank(t, how, i) < Cardinality(DOMAIN t)
<1> DEFINE D == DOMAIN t
           R == RowsBefore(t, how, i)
<1>1. IsFiniteSet(D) /\ Cardinality(D) \in Nat
  BY TableFacts
<1>2. R \in SUBSET D /\ i \in D /\ i \notin R
  BY BeforeTotal DEF RowsBefore
<1> HIDE DEF D, R
<1>3. /\ IsFiniteSet(R) /\ Cardinality(R) <= Cardinality(D)
      /\ Cardinality(D) = Cardinality(R) => D = R
  BY <1>1, <1>2, FS_Subset
<1>4. Cardinality(R) \in Nat /\ Cardinality(R) # Cardinality(D)
  BY <1>2, <1>3, FS_CardinalityType
<1>5. Cardinality(R) < Cardinality(D)
  BY <1>1, <1>3, <1>4
<1> QED
  BY <1>4, <1>5 DEF Rank, R, D

(* A write that moves no row back leaves no row that it does not touch     *)
(* with fewer rows before it.                                              *)
LEMMA SaveKeepsRank ==
    ASSUME NEW t \in Tables, NEW u \in Tables, NEW how, NEW i, NEW k,
           u = [j \in DOMAIN t \cup {i} |-> IF j = i THEN k ELSE t[j]],
           NEW x \in DOMAIN t, x # i,
           ~(i \in DOMAIN t /\ Before(t, how, i, x) /\ Before(u, how, x, i))
    PROVE  Rank(u, how, x) >= Rank(t, how, x)
<1> DEFINE R == RowsBefore(t, how, x)
           Q == RowsBefore(u, how, x)
<1>1. DOMAIN u = DOMAIN t \cup {i} /\ \A j \in DOMAIN t : j # i => u[j] = t[j]
  OBVIOUS
<1>2. ASSUME NEW j \in DOMAIN t, Before(t, how, j, x)
      PROVE  Before(u, how, j, x)
  <2>1. CASE j # i
    BY <1>1, <1>2, <2>1 DEF Before
  <2>2. CASE j = i
    <3>1. ~Before(u, how, x, i)
      BY <1>2, <2>2
    <3>2. i \in DOMAIN u /\ x \in DOMAIN u
      BY <1>1
    <3> QED
      BY <2>2, <3>1, <3>2, BeforeTotal
  <2> QED
    BY <2>1, <2>2
<1>3. R \in SUBSET Q
  BY <1>1, <1>2 DEF RowsBefore
<1>4. IsFiniteSet(Q)
  <2>1. Q \in SUBSET DOMAIN u
    BY DEF RowsBefore
  <2>2. IsFiniteSet(DOMAIN u)
    BY TableFacts
  <2> HIDE DEF Q
  <2> QED
    BY <2>1, <2>2, FS_Subset
<1> HIDE DEF R, Q
<1>5. /\ Cardinality(R) <= Cardinality(Q) /\ IsFiniteSet(R)
      /\ Cardinality(R) \in Nat /\ Cardinality(Q) \in Nat
  BY <1>3, <1>4, FS_Subset, FS_CardinalityType
<1> QED
  BY <1>5 DEF Rank, R, Q

(* The options of a request that stays in hand.                            *)
LEMMA SameOptions ==
    ASSUME ask' = ask
    PROVE  opts' = opts
BY DEF opts

(* Before the first request every row is ahead.                            *)
LEMMA AheadInit ==
    Init => AheadInv
<1>1. Init => status = "idle"
  BY DEF Init
<1> QED
  BY <1>1, TypeInit DEF AheadInv, Ahead, UnmovedSeen, WalkOver

(* The page a client gets leaves no row behind it.                         *)
LEMMA AheadScan ==
    ASSUME AheadInv, Scan
    PROVE  Ahead' /\ UnmovedSeen'
<1> DEFINE how == opts.how
           offset == opts.offset
           limit == opts.limit
<1>1. TypeInv /\ StoreTypes /\ WalkTypes /\ Accepted
  BY TypeParts DEF AheadInv
<1>2. opts \in Options /\ page' \in Seq(Ids)
  BY <1>1, ScanFacts
<1>3. /\ UNCHANGED <<rows, first, ask, count, dir, stayed, setback>>
      /\ torn' = (count # Cardinality(DOMAIN rows))
      /\ status = "scan"
  BY DEF Scan, historyVars
<1>4. opts' = opts
  BY <1>3, SameOptions
<1>5. offset \in Nat /\ limit \in Int
  BY <1>2 DEF Options
<1>6. ListAPIOptions(first)' = ListAPIOptions(first)
  BY <1>3
<1> SUFFICES ASSUME Forward, ~setback, status' = "page"
             PROVE  /\ \A i \in stayed \ ToSet(got') :
                          /\ limit >= 0
                          /\ Rank(rows, how, i) >= offset + limit
                    /\ next' = NoLink /\ ~torn' => stayed \subseteq ToSet(got')
  BY <1>3, <1>4, <1>6 DEF Ahead, UnmovedSeen, WalkOver, Forward, Scan
<1>7. dir = "next" /\ opts.format = "json" /\ CutLimit(opts) = limit
  BY DEF Forward, CutLimit
<1>8. IsPage(rows, how, offset, limit, page')
  BY <1>1, <1>7, ScanFacts
<1>9. ToSet(got') = ToSet(got) \cup ToSet(page')
  <2>1. Receive(page')
    BY DEF Scan
  <2> QED
    BY <1>1, <1>2, <1>7, <2>1, ReceiveFacts DEF WalkTypes
<1> HIDE DEF how, offset, limit
<1>10. ASSUME NEW i \in stayed \ ToSet(got')
       PROVE  limit >= 0 /\ Rank(rows, how, i) >= offset + limit
  <2>1. i \in DOMAIN rows /\ i \in stayed \ ToSet(got) /\ i \notin ToSet(page')
    BY <1>1, <1>9 DEF StoreTypes
  <2>2. Rank(rows, how, i) >= offset
    BY <1>3, <2>1 DEF AheadInv, Ahead, how, offset
  <2>3. ~(limit >= 0 => Rank(rows, how, i) < offset + limit)
    BY <1>8, <2>1, <2>2 DEF IsPage
  <2>4. Rank(rows, how, i) \in Nat
    BY <1>1, <2>1, RankBounds DEF StoreTypes
  <2> QED
    BY <1>5, <2>3, <2>4
<1>11. ASSUME next' = NoLink, ~torn', NEW i \in stayed, i \notin ToSet(got')
       PROVE  FALSE
  <2>1. next' = NextLink(opts, count)
    BY <1>3, <1>4 DEF next
  <2>2. count = Cardinality(DOMAIN rows) /\ count \in Nat
    BY <1>1, <1>3, <1>11 DEF WalkTypes
  <2>3. ~(offset + limit < count)
    <3>1. offset + limit \in Int /\ NoLink \notin Int
      BY <1>5, ListingAssumption
    <3> QED
      BY <1>11, <2>1, <3>1 DEF NextLink, offset, limit
  <2>4. i \in DOMAIN rows
    BY <1>1 DEF StoreTypes
  <2>5. Rank(rows, how, i) \in Nat /\ Rank(rows, how, i) < count
    BY <1>1, <2>2, <2>4, RankBounds DEF StoreTypes
  <2>6. Rank(rows, how, i) >= offset + limit
    BY <1>10, <1>11
  <2> QED
    BY <1>5, <2>2, <2>3, <2>5, <2>6
<1> QED
  BY <1>10, <1>11

(* The options of the request a link makes.                                *)
LEMMA FollowFacts ==
    ASSUME ask \in RawRequests, ~Refused(ask), NEW o \in Int, ask' = Link(o)
    PROVE  /\ opts'.limit = opts.limit /\ opts'.how = opts.how
           /\ opts'.format = opts.format
           /\ opts'.offset = IF o < 0 THEN 0 ELSE o
<1> DEFINE q == ask'
<1>1. q = [ask EXCEPT !.limit = ListAPIOptions(ask).limit, !.offset = o]
  BY DEF Link, opts
<1>2. opts' = ListAPIOptions(q) /\ opts = ListAPIOptions(ask)
  BY DEF opts
<1> HIDE DEF q
<1>3. /\ ListAPIOptions(q).limit = ListAPIOptions(ask).limit
      /\ ListAPIOptions(q).how = ListAPIOptions(ask).how
      /\ ListAPIOptions(q).format = ListAPIOptions(ask).format
      /\ ListAPIOptions(q).offset = IF o < 0 THEN 0 ELSE o
  BY <1>1, LinkFacts, ZenonT(90)
<1> QED
  BY <1>2, <1>3

(* Every step keeps what no write touched ahead of the client, or seen.    *)
LEMMA AheadStep ==
    ASSUME AheadInv, [Next]_vars
    PROVE  AheadInv'
<1>t. TypeInv /\ StoreTypes /\ WalkTypes /\ Accepted /\ Fresh
  BY TypeParts DEF AheadInv
<1>u. TypeInv'
  BY <1>t, TypeStep
<1> SUFFICES Ahead' /\ UnmovedSeen'
  BY <1>u DEF AheadInv
<1>1. CASE Ask
  <2>1. /\ UNCHANGED <<rows, first, ask, stayed>>
        /\ status' \in {"count", "failed"} /\ ask = first
    BY <1>1, <1>t DEF Ask, Handle, Fresh, historyVars
  <2>2. opts' = ListAPIOptions(first) /\ first' = first
    BY <2>1, SameOptions DEF opts
  <2>3. \A i \in stayed : Rank(rows, opts'.how, i) >= 0
    BY <1>t, RankBounds DEF StoreTypes
  <2>4. UnmovedSeen'
    BY <2>1 DEF UnmovedSeen, WalkOver
  <2>5. Forward' => opts'.offset = 0
    BY <2>2 DEF Forward
  <2> QED
    BY <2>1, <2>3, <2>4, <2>5 DEF Ahead
<1>2. CASE Count
  <2>1. /\ UNCHANGED <<rows, first, ask, dir, got, stayed, setback>>
        /\ status = "count" /\ status' = "scan"
    BY <1>2 DEF Count, clientVars, historyVars
  <2>2. opts' = opts
    BY <2>1, SameOptions
  <2> QED
    BY <2>1, <2>2 DEF AheadInv, Ahead, UnmovedSeen, WalkOver, Forward
<1>3. CASE Scan
  BY <1>3, AheadScan
<1>4. CASE QueryFails \/ Leave
  <2>1. status' \in {"failed", "done"}
    BY <1>4 DEF QueryFails, Leave
  <2> QED
    BY <2>1 DEF Ahead, UnmovedSeen, WalkOver
<1>5. CASE FollowNext
  <2>1. /\ UNCHANGED <<rows, first, dir, got, stayed, setback>>
        /\ status = "page" /\ next # NoLink /\ ask' = Link(next)
        /\ status' \in {"count", "failed"}
    BY <1>5 DEF FollowNext, Handle, historyVars
  <2>2. ~Refused(ask) /\ ask \in RawRequests
    BY <1>t, <2>1 DEF Accepted, WalkTypes
  <2>3. opts \in Options /\ opts.limit \in Int /\ opts.offset \in Nat
    BY <2>2, OptionsFacts DEF opts, Options
  <2>4. next = opts.offset + opts.limit /\ next \in Int
    BY <1>t, <2>1, <2>3 DEF next, NextLink, WalkTypes
  <2>5. /\ opts'.how = opts.how /\ opts'.format = opts.format
        /\ opts'.offset = IF next < 0 THEN 0 ELSE next
    <3> DEFINE o == next
    <3>1. o \in Int /\ ask' = Link(o)
      BY <2>1, <2>4
    <3> HIDE DEF o
    <3>2. /\ opts'.how = opts.how /\ opts'.format = opts.format
          /\ opts'.offset = IF o < 0 THEN 0 ELSE o
      BY <2>2, <3>1, FollowFacts
    <3> QED
      BY <3>2 DEF o
  <2>6. UnmovedSeen'
    BY <2>1 DEF UnmovedSeen, WalkOver
  <2> SUFFICES ASSUME Forward', ~setback', NEW i \in stayed \ ToSet(got)
               PROVE  Rank(rows, opts.how, i) >= opts'.offset
    BY <2>1, <2>5, <2>6 DEF Ahead
  <2>7. Forward
    BY <2>1, <2>5 DEF Forward
  <2>8. opts.limit >= 0 /\ Rank(rows, opts.how, i) >= opts.offset + opts.limit
    BY <2>1, <2>7 DEF AheadInv, Ahead
  <2> QED
    BY <2>3, <2>4, <2>5, <2>8
<1>6. CASE FollowPrevious
  <2>1. dir' = "previous"
    BY <1>6 DEF FollowPrevious
  <2> QED
    BY <2>1 DEF Ahead, UnmovedSeen, WalkOver, Forward
<1>7. ASSUME NEW i \in Ids, NEW k \in Keys \cup {Null}, Save(i, k)
      PROVE  Ahead' /\ UnmovedSeen'
  <2>1. /\ UNCHANGED <<status, first, ask, dir, got, count, torn>>
        /\ stayed' = stayed \ {i}
        /\ ~setback' => ~setback
        /\ ~setback' => \A j \in DOMAIN rows \ {i} :
                           ~(/\ i \in DOMAIN rows
                             /\ Before(rows, opts.how, i, j)
                             /\ Before(rows', opts.how, j, i))
    BY <1>7 DEF Save, clientVars
  <2>2. opts' = opts
    BY <2>1, SameOptions
  <2>3. next' = next /\ (Forward' <=> Forward)
    BY <2>1, <2>2 DEF next, Forward
  <2>4. UnmovedSeen'
    BY <2>1, <2>2, <2>3 DEF AheadInv, UnmovedSeen, WalkOver
  <2> SUFFICES ASSUME Forward, ~setback', NEW x \in stayed \ {i}, x \notin ToSet(got)
               PROVE  /\ status \in {"count", "scan"} =>
                            Rank(rows', opts.how, x) >= opts.offset
                      /\ status = "page" =>
                            /\ opts.limit >= 0
                            /\ Rank(rows', opts.how, x) >= opts.offset + opts.limit
    BY <2>1, <2>2, <2>3, <2>4 DEF Ahead
  <2>5. x \in DOMAIN rows /\ x # i /\ rows \in Tables /\ rows' \in Tables
    <3>1. rows' \in Tables
      BY <1>u DEF TypeInv, TypeOK
    <3> QED
      BY <1>t, <3>1 DEF StoreTypes
  <2>6. rows' = [j \in DOMAIN rows \cup {i} |-> IF j = i THEN k ELSE rows[j]]
    BY <1>7 DEF Save
  <2> DEFINE how == opts.how
             u == rows'
  <2>7. ~(i \in DOMAIN rows /\ Before(rows, how, i, x) /\ Before(u, how, x, i))
    BY <2>1, <2>5
  <2> HIDE DEF how, u
  <2>8. Rank(u, how, x) >= Rank(rows, how, x)
    BY <2>5, <2>6, <2>7, SaveKeepsRank DEF u
  <2>9. x \in DOMAIN u
    BY <2>5, <2>6 DEF u
  <2>10. Rank(u, how, x) \in Nat /\ Rank(rows, how, x) \in Nat
    BY <2>5, <2>9, RankBounds DEF u
  <2>11. status \in {"count", "scan", "page"} =>
           opts.limit \in Int /\ opts.offset \in Nat
    BY <1>t, OptionsFacts DEF Accepted, WalkTypes, opts, Options
  <2>12. /\ status \in {"count", "scan"} => Rank(rows, how, x) >= opts.offset
         /\ status = "page" => /\ opts.limit >= 0
                               /\ Rank(rows, how, x) >= opts.offset + opts.limit
    BY <2>1 DEF AheadInv, Ahead, how
  <2>13. /\ status \in {"count", "scan"} => Rank(u, how, x) >= opts.offset
         /\ status = "page" => /\ opts.limit >= 0
                               /\ Rank(u, how, x) >= opts.offset + opts.limit
    BY <2>8, <2>10, <2>11, <2>12
  <2> QED
    BY <2>13 DEF how, u
<1>8. ASSUME NEW i \in Ids, Drop(i)
      PROVE  Ahead' /\ UnmovedSeen'
  <2>1. setback'
    BY <1>8 DEF Drop
  <2> QED
    BY <2>1 DEF Ahead, UnmovedSeen
<1>9. CASE UNCHANGED vars
  BY <1>9 DEF vars, AheadInv, Ahead, UnmovedSeen, WalkOver, Forward, opts, next
<1> QED
  BY <1>1, <1>2, <1>3, <1>4, <1>5, <1>6, <1>7, <1>8, <1>9
     DEF Next, Serve, Walk, Terminated

(* Rows that appear or move forward during a walk never make the client    *)
(* miss a row that stayed where it was: OFFSET counts rows, and no write   *)
(* but a removal or a move back lowers the number of rows before a row.    *)
THEOREM UnmovedRowsAreSeen == Spec => []UnmovedSeen
<1>1. AheadInv => UnmovedSeen
  BY DEF AheadInv
<1> QED
  BY <1>1, AheadInit, AheadStep, PTL DEF Spec

-----------------------------------------------------------------------------
(* A walk during which nobody writes.                                      *)

(* A row with fewer rows before it comes first.                            *)
LEMMA RankOrders ==
    ASSUME NEW t \in Tables, NEW how, NEW s, InOrder(t, how, s),
           NEW a \in DOMAIN t, NEW b \in DOMAIN t,
           Rank(t, how, a) < Rank(t, how, b)
    PROVE  Before(t, how, a, b)
<1>1. PICK p \in 1 .. Len(s) : s[p] = a
  BY DEF InOrder
<1>2. PICK q \in 1 .. Len(s) : s[q] = b
  BY DEF InOrder
<1>3. Rank(t, how, a) = p - 1
  BY <1>1, RankFacts
<1>4. Rank(t, how, b) = q - 1
  BY <1>2, RankFacts
<1>5. Len(s) \in Nat
  BY LenProperties DEF InOrder
<1>6. p < q
  BY <1>3, <1>4, <1>5
<1> QED
  BY <1>1, <1>2, <1>6 DEF InOrder

(* Rows put after rows that come before them are in order.                 *)
LEMMA ConcatSorted ==
    ASSUME NEW t, NEW how, NEW S, NEW a \in Seq(S), NEW b \in Seq(S),
           Sorted(t, how, a), Sorted(t, how, b),
           \A x \in ToSet(a), y \in ToSet(b) : Before(t, how, x, y)
    PROVE  Sorted(t, how, a \o b)
<1> DEFINE u == a \o b
           l == Len(a)
           k == Len(b)
<1>1. /\ u \in Seq(S) /\ Len(u) = l + k
      /\ \A i \in 1 .. l + k : u[i] = IF i <= l THEN a[i] ELSE b[i - l]
  BY ConcatProperties
<1>2. l \in Nat /\ k \in Nat /\ DOMAIN a = 1 .. l /\ DOMAIN b = 1 .. k
  BY LenProperties
<1> HIDE DEF u
<1>3. DOMAIN u = 1 .. l + k
  BY <1>1, LenProperties
<1> HIDE DEF l, k
<1>4. ASSUME NEW m \in 1 .. l + k, NEW n \in 1 .. l + k, m < n
      PROVE  Before(t, how, u[m], u[n])
  <2>1. m \in Nat /\ n \in Nat /\ m >= 1 /\ n >= 1 /\ m <= l + k /\ n <= l + k
    BY <1>2
  <2>2. CASE n <= l
    <3>1. m \in 1 .. l /\ n \in 1 .. l /\ u[m] = a[m] /\ u[n] = a[n]
      BY <1>1, <1>2, <1>4, <2>1, <2>2
    <3> QED
      BY <1>2, <1>4, <3>1 DEF Sorted
  <2>3. CASE m > l
    <3>1. m - l \in 1 .. k /\ n - l \in 1 .. k /\ m - l < n - l
      BY <1>2, <1>4, <2>1, <2>3
    <3>2. u[m] = b[m - l] /\ u[n] = b[n - l]
      BY <1>1, <1>2, <1>4, <2>1, <2>3
    <3> QED
      BY <1>2, <3>1, <3>2 DEF Sorted
  <2>4. CASE m <= l /\ n > l
    <3>1. m \in 1 .. l /\ u[m] = a[m]
      BY <1>1, <1>2, <2>1, <2>4
    <3>2. n - l \in 1 .. k /\ u[n] = b[n - l]
      BY <1>1, <1>2, <2>1, <2>4
    <3>3. u[m] \in ToSet(a) /\ u[n] \in ToSet(b)
      BY <1>2, <3>1, <3>2 DEF ToSet
    <3> QED
      BY <3>3
  <2> QED
    BY <1>2, <2>1, <2>2, <2>3, <2>4
<1>5. Sorted(t, how, u)
  BY <1>3, <1>4 DEF Sorted
<1> QED
  BY <1>5 DEF u

(* Before the first request there is nothing to be exact about.            *)
LEMMA ExactInit ==
    Init => ExactInv
<1>1. Init => status = "idle"
  BY DEF Init
<1> QED
  BY <1>1, TypeInit DEF ExactInv, Undisturbed, Download, Unlimited

(* A page put after the rows before it makes the rows before the next.     *)
LEMMA ExactScan ==
    ASSUME ExactInv, Scan
    PROVE  Undisturbed' /\ Download' /\ Unlimited'
<1> DEFINE how == opts.how
           offset == opts.offset
           limit == opts.limit
           p == page'
           D == DOMAIN rows
           rank(i) == Rank(rows, how, i)
<1>1. TypeInv /\ rows \in Tables /\ got \in Seq(Ids) /\ again \subseteq Ids
  BY TypeParts DEF ExactInv, StoreTypes, WalkTypes
<1>2. opts \in Options /\ p \in Seq(Ids) /\ offset \in Nat /\ limit \in Int
  BY <1>1, ScanFacts DEF Options
<1>3. /\ UNCHANGED <<rows, first, ask, count, dir, writes>>
      /\ status = "scan" /\ status' \in {"page", "failed"}
  BY DEF Scan, historyVars
<1>4. opts' = opts
  BY <1>3, SameOptions
<1>5. Forward' <=> Forward
  BY <1>3, <1>4 DEF Forward
<1>6. Unlimited'
  BY <1>3, <1>4, <1>5 DEF ExactInv, Unlimited
<1>7. Download'
  <2> SUFFICES ASSUME writes = 0, opts.format = "csv", offset = 0
               PROVE  ToSet(p) = DOMAIN rows \/ Len(p) = RecordLimitCSV
    BY <1>3, <1>4 DEF Download
  <2>1. CutLimit(opts) = RecordLimitCSV
    BY DEF CutLimit
  <2>2. IsPage(rows, how, offset, RecordLimitCSV, p)
    BY <1>1, <2>1, ScanFacts
  <2> HIDE DEF how, offset, p
  <2> QED
    BY <2>2 DEF IsPage
<1>8. writes = 0 => count = Cardinality(DOMAIN rows)
  BY <1>3 DEF ExactInv, Undisturbed
<1>9. ASSUME writes = 0, Forward, limit >= 0, status' = "page"
      PROVE  SeenBelow(offset + limit)'
  <2>1. dir = "next" /\ opts.format = "json" /\ CutLimit(opts) = limit
    BY <1>9 DEF Forward, CutLimit
  <2>2. IsPage(rows, how, offset, limit, p)
    BY <1>1, <2>1, ScanFacts
  <2>3. again = {} /\ ToSet(got) = {i \in D : rank(i) < offset}
        /\ Sorted(rows, how, got)
    BY <1>3, <1>9 DEF ExactInv, Undisturbed, SeenBelow
  <2>4. Receive(p)
    BY <1>9 DEF Scan
  <2>5. \A i \in D : rank(i) \in Nat
    BY <1>1, RankBounds
  <2>6. \A a, b \in D : rank(a) < rank(b) => Before(rows, how, a, b)
    <3>1. PICK s \in Orders(rows, opts.how) : TRUE
      BY DEF Scan
    <3>2. InOrder(rows, how, s)
      BY <1>1, <3>1, OrdersFacts
    <3> QED
      BY <1>1, <3>2, RankOrders
  <2>7. /\ ToSet(p) = {i \in D : rank(i) >= offset /\ rank(i) < offset + limit}
        /\ Sorted(rows, how, p)
    BY <1>9, <2>2 DEF IsPage
  <2> HIDE DEF how, offset, limit, p, D, rank
  <2>8. ToSet(p) \cap ToSet(got) = {}
    BY <1>2, <2>3, <2>5, <2>7
  <2>9. got' = got \o p /\ again' = {}
    <3>1. /\ got' = IF ToSet(p) \subseteq ToSet(got) THEN got ELSE got \o p
          /\ again' = {}
      BY <2>1, <2>3, <2>4, <2>8 DEF Receive
    <3>2. ASSUME ToSet(p) \subseteq ToSet(got) PROVE got \o p = got
      <4>1. ToSet(p) = {}
        BY <2>8, <3>2
      <4>2. p = <<>>
        BY <1>2, <4>1, NothingInEmpty
      <4> QED
        BY <1>1, <4>2, ConcatEmptySeq
    <3> QED
      BY <3>1, <3>2
  <2>10. ToSet(got') = {i \in D : rank(i) < offset + limit}
    <3>1. ToSet(got') = ToSet(got) \cup ToSet(p)
      BY <1>1, <1>2, <2>9, ConcatSet
    <3>2. \A i \in D : rank(i) < offset + limit <=>
             rank(i) < offset \/ (rank(i) >= offset /\ rank(i) < offset + limit)
      BY <1>2, <1>9, <2>5
    <3> QED
      BY <2>3, <2>7, <3>1, <3>2
  <2>11. Sorted(rows, how, got')
    <3>1. \A x \in ToSet(got), y \in ToSet(p) : Before(rows, how, x, y)
      <4> SUFFICES ASSUME NEW x \in ToSet(got), NEW y \in ToSet(p)
                   PROVE  Before(rows, how, x, y)
        OBVIOUS
      <4>1. x \in D /\ y \in D /\ rank(x) < offset /\ rank(y) >= offset
        BY <2>3, <2>7
      <4>2. rank(x) < rank(y)
        BY <1>2, <2>5, <4>1
      <4> QED
        BY <2>6, <4>1, <4>2
    <3>2. Sorted(rows, how, got \o p)
      BY <1>1, <1>2, <2>3, <2>7, <3>1, ConcatSorted
    <3> QED
      BY <2>9, <3>2
  <2> QED
    BY <1>3, <1>4, <2>9, <2>10, <2>11 DEF SeenBelow, how, offset, limit, D, rank
<1>10. Undisturbed'
  BY <1>3, <1>4, <1>5, <1>8, <1>9 DEF Undisturbed
<1> QED
  BY <1>6, <1>7, <1>10

(* Every step keeps the walk exact as long as nobody writes.               *)
LEMMA ExactStep ==
    ASSUME ExactInv, [Next]_vars
    PROVE  ExactInv'
<1>t. TypeInv /\ StoreTypes /\ WalkTypes /\ Accepted /\ Fresh
  BY TypeParts DEF ExactInv
<1>u. TypeInv'
  BY <1>t, TypeStep DEF ExactInv
<1> SUFFICES Undisturbed' /\ Download' /\ Unlimited'
  BY <1>u DEF ExactInv
<1>1. CASE Ask
  <2>1. /\ UNCHANGED <<rows, first, ask, got, again, dir>>
        /\ status' \in {"count", "failed"}
        /\ ask = first /\ got = <<>> /\ again = {}
    BY <1>1, <1>t DEF Ask, Handle, Fresh
  <2>2. opts' = opts /\ opts = ListAPIOptions(first)
    BY <2>1, SameOptions DEF opts
  <2>3. Forward' => opts.offset = 0
    BY <2>1, <2>2 DEF Forward
  <2>4. {i \in DOMAIN rows : Rank(rows, opts.how, i) < 0} = {}
    <3>1. \A i \in DOMAIN rows : ~(Rank(rows, opts.how, i) < 0)
      BY <1>t, RankBounds DEF StoreTypes
    <3> QED
      BY <3>1
  <2>5. ToSet(got) = {} /\ Sorted(rows, opts.how, got)
    BY <2>1 DEF ToSet, Sorted
  <2>6. Forward' => SeenBelow(opts.offset)'
    BY <2>1, <2>2, <2>3, <2>4, <2>5 DEF SeenBelow
  <2> QED
    BY <2>1, <2>2, <2>3, <2>6 DEF Undisturbed, Download, Unlimited
<1>2. CASE Count
  <2>1. /\ UNCHANGED <<rows, first, ask, dir, got, again, writes>>
        /\ count' = Cardinality(DOMAIN rows)
        /\ status = "count" /\ status' = "scan"
    BY <1>2 DEF Count, clientVars, historyVars
  <2>2. opts' = opts
    BY <2>1, SameOptions
  <2>3. Forward' <=> Forward
    BY <2>1, <2>2 DEF Forward
  <2>4. SeenBelow(opts.offset)' <=> SeenBelow(opts.offset)
    BY <2>1, <2>2 DEF SeenBelow
  <2> QED
    BY <2>1, <2>2, <2>3, <2>4 DEF ExactInv, Undisturbed, Download, Unlimited
<1>3. CASE Scan
  BY <1>3, ExactScan
<1>4. CASE QueryFails \/ Leave
  <2>1. status' \in {"failed", "done"}
    BY <1>4 DEF QueryFails, Leave
  <2> QED
    BY <2>1 DEF Undisturbed, Download, Unlimited
<1>5. CASE FollowNext
  <2>1. /\ UNCHANGED <<rows, first, dir, got, again, writes>>
        /\ status = "page" /\ next # NoLink /\ ask' = Link(next)
        /\ status' \in {"count", "failed"}
    BY <1>5 DEF FollowNext, Handle, historyVars
  <2>2. ~Refused(ask) /\ ask \in RawRequests
    BY <1>t, <2>1 DEF Accepted, WalkTypes
  <2>3. opts.limit \in Int /\ opts.offset \in Nat
    BY <2>2, OptionsFacts DEF opts, Options
  <2>4. next = opts.offset + opts.limit /\ next \in Int
    BY <1>t, <2>1, <2>3 DEF next, NextLink, WalkTypes
  <2>5. /\ opts'.limit = opts.limit /\ opts'.how = opts.how
        /\ opts'.format = opts.format
        /\ opts'.offset = IF next < 0 THEN 0 ELSE next
    <3> DEFINE o == next
    <3>1. o \in Int /\ ask' = Link(o)
      BY <2>1, <2>4
    <3> HIDE DEF o
    <3>2. /\ opts'.limit = opts.limit /\ opts'.how = opts.how
          /\ opts'.format = opts.format
          /\ opts'.offset = IF o < 0 THEN 0 ELSE o
      BY <2>2, <3>1, FollowFacts
    <3> QED
      BY <3>2 DEF o
  <2>6. Forward' <=> Forward
    BY <2>1, <2>5 DEF Forward
  <2>7. opts.limit >= 0 => opts'.offset = opts.offset + opts.limit
    BY <2>3, <2>4, <2>5
  <2>8. Unlimited'
    <3> SUFFICES ASSUME Forward, opts.limit < 0
                 PROVE  opts'.offset = 0
      BY <2>5, <2>6 DEF Unlimited
    <3>1. opts.offset = 0
      BY <2>1 DEF ExactInv, Unlimited
    <3> QED
      BY <2>3, <2>4, <2>5, <3>1
  <2>9. ASSUME writes = 0, Forward, opts.limit >= 0
        PROVE  SeenBelow(opts.offset)'
    <3>1. SeenBelow(opts.offset + opts.limit)
      BY <2>1, <2>9 DEF ExactInv, Undisturbed
    <3> QED
      BY <2>1, <2>5, <2>7, <2>9, <3>1 DEF SeenBelow
  <2>10. Undisturbed'
    BY <2>1, <2>5, <2>6, <2>9 DEF Undisturbed
  <2> QED
    BY <2>1, <2>8, <2>10 DEF Download
<1>6. CASE FollowPrevious
  <2>1. dir' = "previous" /\ status' \in {"count", "failed"}
    BY <1>6 DEF FollowPrevious, Handle
  <2> QED
    BY <2>1 DEF Undisturbed, Download, Unlimited, Forward
<1>7. ASSUME NEW i \in Ids,
             Drop(i) \/ \E k \in Keys \cup {Null} : Save(i, k)
      PROVE  Undisturbed' /\ Download' /\ Unlimited'
  <2>1. /\ UNCHANGED <<status, first, ask, dir>>
        /\ writes' = writes + 1
    BY <1>7 DEF Save, Drop, clientVars
  <2>2. writes' # 0
    BY <1>t, <2>1, ListingAssumption DEF StoreTypes
  <2>3. opts' = opts
    BY <2>1, SameOptions
  <2>4. Unlimited'
    BY <2>1, <2>3 DEF ExactInv, Unlimited, Forward
  <2> QED
    BY <2>2, <2>4 DEF Undisturbed, Download
<1>8. CASE UNCHANGED vars
  <2>1. opts' = opts
    BY <1>8, SameOptions DEF vars
  <2> QED
    BY <1>8, <2>1 DEF vars, ExactInv, Undisturbed, Download, Unlimited, Forward,
       SeenBelow
<1> QED
  BY <1>1, <1>2, <1>3, <1>4, <1>5, <1>6, <1>7, <1>8
     DEF Next, Serve, Walk, Terminated

(* When nobody writes, the pages of a walk put together give every row     *)
(* once with NULLs last, and a download is whole up to its limit: the id   *)
(* after the order_by column leaves no ties, so the ranks of a page are    *)
(* the same whichever order the database picks.                            *)
THEOREM WalkIsExact == Spec => []WalkExact
<1>1. ExactInv => WalkExact
  <2> SUFFICES ASSUME ExactInv, writes = 0
               PROVE  WalkExact
    BY DEF WalkExact
  <2>1. StoreTypes /\ WalkTypes /\ Accepted
    BY TypeParts DEF ExactInv
  <2>2. ASSUME WalkOver
        PROVE  /\ again = {} /\ ToSet(got) = DOMAIN rows
               /\ \A m, n \in DOMAIN got :
                     m < n /\ rows[got[m]] = Null => rows[got[n]] = Null
    <3>1. status = "page" /\ Forward /\ next = NoLink
      BY <2>2 DEF WalkOver, Forward
    <3>2. opts.limit \in Int /\ opts.offset \in Nat
      BY <2>1, <3>1, OptionsFacts DEF Accepted, WalkTypes, opts, Options
    <3>3. count \in Nat /\ count = Cardinality(DOMAIN rows)
      BY <2>1, <3>1 DEF ExactInv, Undisturbed, WalkTypes
    <3>4. opts.offset + opts.limit >= count
      <4>1. opts.offset + opts.limit \in Int /\ NoLink \notin Int
        BY <3>2, ListingAssumption
      <4> QED
        BY <3>1, <3>3, <4>1 DEF next, NextLink
    <3>5. opts.limit >= 0
      BY <3>1, <3>2, <3>3, <3>4 DEF ExactInv, Unlimited
    <3>6. SeenBelow(opts.offset + opts.limit)
      BY <3>1, <3>5 DEF ExactInv, Undisturbed
    <3>7. \A i \in DOMAIN rows :
             Rank(rows, opts.how, i) < opts.offset + opts.limit
      <4> SUFFICES ASSUME NEW i \in DOMAIN rows
                   PROVE  Rank(rows, opts.how, i) < opts.offset + opts.limit
        OBVIOUS
      <4>1. /\ Rank(rows, opts.how, i) \in Nat
            /\ Rank(rows, opts.how, i) < Cardinality(DOMAIN rows)
        BY <2>1, RankBounds DEF StoreTypes
      <4> QED
        BY <3>2, <3>3, <3>4, <4>1
    <3>8. again = {} /\ ToSet(got) = DOMAIN rows
      BY <3>6, <3>7 DEF SeenBelow
    <3>9. ASSUME NEW m \in DOMAIN got, NEW n \in DOMAIN got, m < n,
                 rows[got[m]] = Null
          PROVE  rows[got[n]] = Null
      <4>1. Before(rows, opts.how, got[m], got[n])
        BY <3>6, <3>9 DEF SeenBelow, Sorted
      <4> QED
        BY <3>9, <4>1 DEF Before
    <3> QED
      BY <3>8, <3>9
  <2>3. status = "page" /\ opts.format = "csv" /\ opts.offset = 0 =>
           ToSet(page) = DOMAIN rows \/ Len(page) = RecordLimitCSV
    BY DEF ExactInv, Download
  <2> QED
    BY <2>2, <2>3 DEF WalkExact
<1> QED
  BY <1>1, ExactInit, ExactStep, PTL DEF Spec
=============================================================================
