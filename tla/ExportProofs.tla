---------------------------- MODULE ExportProofs ----------------------------
(***************************************************************************)
(* Proofs about the CSV download, for every page, every length of the      *)
(* rows, every size of the buffer and every flush interval.                *)
(***************************************************************************)
EXTENDS Export, SequenceTheorems, WellFoundedInduction, TLAPS

-----------------------------------------------------------------------------
(***************************************************************************)
(* Numbers, folds and lists.  Induction is over a set of numbers, so that  *)
(* it needs no operator as a parameter.                                    *)
(***************************************************************************)
(* A non-empty set of numbers has a least one.                             *)
LEMMA LeastNumber ==
    ASSUME NEW T \in SUBSET Nat, T # {}
    PROVE  \E x \in T : \A y \in T : x <= y
<1>1. IsWellFoundedOn(OpToRel(<, Nat), Nat)
  BY NatLessThanWellFounded
<1>2. PICK x \in T : \A y \in T : ~ (<<y, x>> \in OpToRel(<, Nat))
  BY <1>1, WFMin
<1>3. \A y \in T : ~(y < x)
  BY <1>2 DEF OpToRel
<1> QED
  BY <1>3

(* A set that has 0, and with each number the next, has every number.      *)
LEMMA Induction ==
    ASSUME NEW n \in Nat, NEW G, 0 \in G,
           \A k \in 0 .. n - 1 : k \in G => k + 1 \in G
    PROVE  \A k \in 0 .. n : k \in G
<1> DEFINE Bad == {k \in 0 .. n : k \notin G}
<1> SUFFICES ASSUME Bad # {} PROVE FALSE
  OBVIOUS
<1>1. PICK k \in Bad : \A j \in Bad : k <= j
  <2> Bad \in SUBSET Nat
    OBVIOUS
  <2> HIDE DEF Bad
  <2> QED
    BY LeastNumber
<1>2. k \in 0 .. n /\ k # 0
  OBVIOUS
<1>3. k - 1 \in 0 .. n - 1 /\ k - 1 \notin Bad
  BY <1>1, <1>2
<1>4. k - 1 \in G /\ (k - 1) + 1 = k
  BY <1>2, <1>3
<1> QED
  BY <1>3, <1>4

(* f lists the steps of a fold of step over s, from e on.                  *)
FoldsTo(U, step, e, n, s, f) ==
    /\ f \in [0 .. n -> U]
    /\ f[0] = e
    /\ \A i \in 1 .. n : f[i] = step[<<f[i - 1], s[i]>>]

(* The steps of a fold can be listed.                                      *)
LEMMA FoldExists ==
    ASSUME NEW U, NEW V, NEW step \in [U \X V -> U], NEW e \in U,
           NEW n \in Nat, NEW s \in [1 .. n -> V]
    PROVE  \E f : FoldsTo(U, step, e, n, s, f)
<1> DEFINE Good(k, f) == /\ f[0] = e
                         /\ \A i \in 1 .. k : f[i] = step[<<f[i - 1], s[i]>>]
           G == {k \in Nat : \E f \in [0 .. k -> U] : Good(k, f)}
<1>1. 0 \in G
  <2> DEFINE f == [i \in 0 .. 0 |-> e]
  <2>1. f \in [0 .. 0 -> U] /\ Good(0, f)
    OBVIOUS
  <2> HIDE DEF f, Good
  <2> QED
    BY <2>1
<1>2. ASSUME NEW k \in 0 .. n - 1, k \in G PROVE k + 1 \in G
  <2>1. PICK g \in [0 .. k -> U] : Good(k, g)
    BY <1>2
  <2> DEFINE new == step[<<g[k], s[k + 1]>>]
             f == [i \in 0 .. k + 1 |-> IF i = k + 1 THEN new ELSE g[i]]
  <2>2. new \in U
    OBVIOUS
  <2> HIDE DEF new
  <2>3. f \in [0 .. k + 1 -> U] /\ f[0] = e
    BY <2>1, <2>2
  <2>4. ASSUME NEW i \in 1 .. k + 1 PROVE f[i] = step[<<f[i - 1], s[i]>>]
    <3>1. i - 1 \in 0 .. k + 1 /\ i - 1 # k + 1 /\ f[i - 1] = g[i - 1]
      OBVIOUS
    <3>2. CASE i = k + 1
      BY <3>1, <3>2 DEF new
    <3>3. CASE i # k + 1
      <4>1. i \in 1 .. k /\ f[i] = g[i]
        BY <3>3
      <4> QED
        BY <2>1, <3>1, <4>1
    <3> QED
      BY <3>2, <3>3
  <2> HIDE DEF f
  <2>5. Good(k + 1, f)
    BY <2>3, <2>4
  <2> HIDE DEF Good
  <2> QED
    BY <2>3, <2>5
<1> HIDE DEF G
<1>3. \A k \in 0 .. n - 1 : k \in G => k + 1 \in G
  BY <1>2
<1>4. \A k \in 0 .. n : k \in G
  BY <1>1, <1>3, Induction
<1>5. n \in G
  BY <1>4
<1>6. PICK f \in [0 .. n -> U] : Good(n, f)
  BY <1>5 DEF G
<1> QED
  BY <1>6 DEF FoldsTo

(* Concatenation as a function.                                            *)
Concat(S) == [p \in Seq(S) \X Seq(S) |-> p[1] \o p[2]]

(* Concatenation is closed.                                                *)
LEMMA ConcatType ==
    ASSUME NEW S
    PROVE  /\ Concat(S) \in [Seq(S) \X Seq(S) -> Seq(S)]
           /\ \A s, t \in Seq(S) : Concat(S)[<<s, t>>] = s \o t
           /\ <<>> \in Seq(S)
           /\ \A s \in Seq(S) : Concat(S)[<<<<>>, s>>] = s
<1>1. \A s, t \in Seq(S) : s \o t \in Seq(S)
  BY ConcatProperties
<1>2. <<>> \in Seq(S) /\ \A s \in Seq(S) : <<>> \o s = s
  BY EmptySeq, ConcatEmptySeq
<1> DEFINE Q == Seq(S)
<1> SUFFICES /\ Concat(S) \in [Q \X Q -> Q]
             /\ \A s, t \in Q : Concat(S)[<<s, t>>] = s \o t
  BY <1>2
<1>3. \A s, t \in Q : s \o t \in Q
  BY <1>1
<1> HIDE DEF Q
<1> QED
  BY <1>3 DEF Concat, Q

(* f lists the concatenations of the first 0 to n sequences of s.          *)
Concatenates(S, n, s, f) ==
    /\ f \in [0 .. n -> Seq(S)]
    /\ f[0] = <<>>
    /\ \A i \in 1 .. n : f[i] = Concat(S)[<<f[i - 1], s[i]>>]

(* Any sequences can be concatenated one after the other.                  *)
LEMMA ConcatenationExists ==
    ASSUME NEW S, NEW n \in Nat, NEW s \in [1 .. n -> Seq(S)]
    PROVE  \E f : Concatenates(S, n, s, f)
<1> DEFINE Q == Seq(S)
           c == Concat(S)
           e == <<>>
<1>1. c \in [Q \X Q -> Q] /\ e \in Q
  BY ConcatType
<1>2. s \in [1 .. n -> Q]
  OBVIOUS
<1> HIDE DEF Q, c, e
<1>3. PICK f : FoldsTo(Q, c, e, n, s, f)
  BY <1>1, <1>2, FoldExists
<1> QED
  BY <1>3 DEF Concatenates, FoldsTo, Q, c, e

(* FlattenSeq computes the last of these concatenations.                   *)
LEMMA FlattenConcatenates ==
    ASSUME NEW S, NEW n \in Nat \ {0}, NEW s \in [1 .. n -> Seq(S)],
           NEW f, Concatenates(S, n, s, f)
    PROVE  FlattenSeq(s) = f[n]
<1>f. /\ f \in [0 .. n -> Seq(S)]
      /\ f[0] = <<>>
      /\ \A i \in 1 .. n : f[i] = Concat(S)[<<f[i - 1], s[i]>>]
  BY DEF Concatenates
<1> DEFINE Q == Seq(S)
           c == Concat(S)
           Step(h) == [i \in 1 .. n |-> IF i = 1 THEN s[i] ELSE h[i - 1] \o s[i]]
           flatten == CHOOSE h : h = Step(h)
           g == [i \in 1 .. n |-> f[i]]
<1>a. Len(s) = n
  OBVIOUS
<1>1. FlattenSeq(s) = flatten[n]
  BY <1>a DEF FlattenSeq
<1>2. \A a, b \in Q : c[<<a, b>>] = a \o b
  BY ConcatType
<1>b. \A i \in 1 .. n : f[i - 1] \in Q /\ s[i] \in Q
  BY <1>f
<1>c. \A i \in 1 .. n : f[i] = c[<<f[i - 1], s[i]>>]
  BY <1>f
<1> HIDE DEF c, Q
<1>3. \A i \in 1 .. n : f[i] = f[i - 1] \o s[i]
  <2> SUFFICES ASSUME NEW i \in 1 .. n PROVE f[i] = f[i - 1] \o s[i]
    OBVIOUS
  <2>1. f[i - 1] \in Q /\ s[i] \in Q
    BY <1>b
  <2>2. c[<<f[i - 1], s[i]>>] = f[i - 1] \o s[i]
    BY <1>2, <2>1
  <2> QED
    BY <1>c, <2>2
<1>4. f[1] = s[1]
  <2>a. 1 \in 1 .. n
    OBVIOUS
  <2>1. f[1] = f[1 - 1] \o s[1]
    BY <1>3, <2>a, Zenon
  <2>2. f[1 - 1] = <<>>
    BY <1>f
  <2>3. s[1] \in Seq(S)
    OBVIOUS
  <2>4. <<>> \o s[1] = s[1]
    BY <2>3, ConcatEmptySeq
  <2> QED
    BY <2>1, <2>2, <2>4
<1>5. g = Step(g)
  <2> SUFFICES ASSUME NEW i \in 1 .. n
               PROVE  f[i] = IF i = 1 THEN s[i] ELSE g[i - 1] \o s[i]
    OBVIOUS
  <2>1. i # 1 => i > 1 /\ g[i - 1] = f[i - 1]
    OBVIOUS
  <2> QED
    BY <1>3, <1>4, <2>1
<1>6. flatten = Step(flatten)
  <2> HIDE DEF g, Step
  <2> QED
    BY <1>5
<1> HIDE DEF flatten
<1>7. /\ flatten[1] = s[1]
      /\ \A i \in 1 .. n : i > 1 => flatten[i] = flatten[i - 1] \o s[i]
  <2>1. \A i \in 1 .. n : Step(flatten)[i] = IF i = 1 THEN s[i] ELSE flatten[i - 1] \o s[i]
    OBVIOUS
  <2> HIDE DEF Step
  <2>2. \A i \in 1 .. n : flatten[i] = Step(flatten)[i]
    BY <1>6, Zenon
  <2>3. 1 \in 1 .. n /\ \A i \in 1 .. n : i > 1 => i # 1
    OBVIOUS
  <2> QED
    BY <2>1, <2>2, <2>3, Zenon
<1> DEFINE G == {i \in 0 .. n : i > 0 => flatten[i] = f[i]}
<1>8. 0 \in G
  OBVIOUS
<1>9. ASSUME NEW k \in 0 .. n - 1, k \in G PROVE k + 1 \in G
  <2>1. CASE k = 0
    BY <1>4, <1>7, <2>1
  <2>2. CASE k > 0
    <3>1. k + 1 \in 1 .. n /\ k + 1 > 1 /\ (k + 1) - 1 = k
      BY <2>2
    <3>2. flatten[k] = f[k]
      BY <1>9, <2>2
    <3>3. flatten[k + 1] = flatten[k] \o s[k + 1]
      BY <1>7, <3>1
    <3>4. f[k + 1] = f[k] \o s[k + 1]
      BY <1>3, <3>1
    <3>5. flatten[k + 1] = f[k + 1]
      BY <3>2, <3>3, <3>4
    <3> QED
      BY <3>1, <3>5
  <2> QED
    BY <2>1, <2>2
<1> HIDE DEF G
<1>10. \A k \in 0 .. n - 1 : k \in G => k + 1 \in G
  BY <1>9
<1>11. \A k \in 0 .. n : k \in G
  BY <1>8, <1>10, Induction
<1> QED
  BY <1>1, <1>11 DEF G

-----------------------------------------------------------------------------
(* What it is to be a prefix, element by element.                          *)
LEMMA PrefixElements ==
    ASSUME NEW S, NEW s \in Seq(S), NEW t \in Seq(S)
    PROVE  IsPrefix(s, t) <=> /\ Len(s) <= Len(t)
                              /\ \A i \in 1 .. Len(s) : s[i] = t[i]
<1> DEFINE a == SubSeq(s, 1, Len(s))
           b == SubSeq(t, 1, Len(s))
<1> SUFFICES ASSUME Len(s) <= Len(t)
             PROVE  a = b <=> \A i \in 1 .. Len(s) : s[i] = t[i]
  BY DEF IsPrefix
<1>1. Len(s) \in Nat /\ Len(t) \in Nat
  BY LenProperties
<1>2. \A i \in 1 .. Len(s) : s[i] \in S /\ t[i] \in S
  BY <1>1, ElementOfSeq
<1>3. a \in Seq(S) /\ Len(a) = Len(s) /\ \A i \in 1 .. Len(s) : a[i] = s[i]
  <2>1. \A i \in 1 .. Len(s) - 1 + 1 : a[i] = s[1 + i - 1]
    BY <1>1, <1>2, SubSeqProperties
  <2> QED
    BY <1>1, <1>2, <2>1, SubSeqProperties
<1>4. b \in Seq(S) /\ Len(b) = Len(s) /\ \A i \in 1 .. Len(s) : b[i] = t[i]
  <2>1. \A i \in 1 .. Len(s) - 1 + 1 : b[i] = t[1 + i - 1]
    BY <1>1, <1>2, SubSeqProperties
  <2> QED
    BY <1>1, <1>2, <2>1, SubSeqProperties
<1> HIDE DEF a, b
<1>5. ASSUME a = b, NEW i \in 1 .. Len(s) PROVE s[i] = t[i]
  BY <1>3, <1>4, <1>5
<1>6. ASSUME \A i \in 1 .. Len(s) : s[i] = t[i] PROVE a = b
  <2>1. \A i \in 1 .. Len(a) : a[i] = b[i]
    BY <1>3, <1>4, <1>6
  <2> QED
    BY <1>3, <1>4, <2>1, SeqEqual
<1> QED
  BY <1>5, <1>6

(* A sequence is a prefix of its extensions.                               *)
LEMMA PrefixOfConcat ==
    ASSUME NEW S, NEW s \in Seq(S), NEW t \in Seq(S)
    PROVE  s \o t \in Seq(S) /\ IsPrefix(s, s \o t)
<1>1. s \o t \in Seq(S) /\ Len(s \o t) = Len(s) + Len(t)
  BY ConcatProperties
<1>2. Len(s) \in Nat /\ Len(t) \in Nat
  BY LenProperties
<1>3. \A i \in 1 .. Len(s) + Len(t) :
         (s \o t)[i] = IF i <= Len(s) THEN s[i] ELSE t[i - Len(s)]
  BY ConcatProperties
<1> DEFINE u == s \o t
<1> HIDE DEF u
<1>4. u \in Seq(S) /\ Len(u) >= Len(s) /\ \A i \in 1 .. Len(s) : u[i] = s[i]
  BY <1>1, <1>2, <1>3 DEF u
<1>5. IsPrefix(s, u)
  BY <1>2, <1>4, PrefixElements
<1> QED
  BY <1>4, <1>5 DEF u

(* Prefixes of prefixes.                                                   *)
LEMMA PrefixTransitive ==
    ASSUME NEW S, NEW s \in Seq(S), NEW t \in Seq(S), NEW u \in Seq(S),
           IsPrefix(s, t), IsPrefix(t, u)
    PROVE  IsPrefix(s, u)
<1>1. Len(s) \in Nat /\ Len(t) \in Nat /\ Len(u) \in Nat
  BY LenProperties
<1>2. Len(s) <= Len(t) /\ \A i \in 1 .. Len(s) : s[i] = t[i]
  BY PrefixElements
<1>3. Len(t) <= Len(u) /\ \A i \in 1 .. Len(t) : t[i] = u[i]
  BY PrefixElements
<1>4. Len(s) <= Len(u) /\ \A i \in 1 .. Len(s) : s[i] = u[i]
  BY <1>1, <1>2, <1>3
<1> QED
  BY <1>4, PrefixElements

(* What a prefix holds, the sequence holds.                                *)
LEMMA PrefixHolds ==
    ASSUME NEW S, NEW s \in Seq(S), NEW t \in Seq(S), IsPrefix(s, t)
    PROVE  ToSet(s) \subseteq ToSet(t)
<1>1. Len(s) \in Nat /\ Len(t) \in Nat
  BY LenProperties
<1>2. DOMAIN s = 1 .. Len(s) /\ DOMAIN t = 1 .. Len(t)
  BY LenProperties
<1>3. Len(s) <= Len(t) /\ \A i \in 1 .. Len(s) : s[i] = t[i]
  BY PrefixElements
<1> SUFFICES ASSUME NEW i \in 1 .. Len(s) PROVE s[i] \in ToSet(t)
  BY <1>2 DEF ToSet
<1>4. i \in DOMAIN t /\ t[i] = s[i]
  BY <1>1, <1>2, <1>3
<1> QED
  BY <1>4 DEF ToSet

(* Among any k numbers in a row one is a multiple of k.                    *)
LEMMA MultipleNear ==
    ASSUME NEW k \in Nat \ {0}, NEW r \in Nat, r > k
    PROVE  \E f \in r - k .. r - 1 : f % k = 0
<1> DEFINE x == r - 1
           q == x \div k
           m == x % k
<1>1. x \in Nat /\ q \in Int /\ m \in 0 .. k - 1 /\ x = k * q + m
  OBVIOUS
<1> HIDE DEF q, m
<1> DEFINE f == k * q
           d == f \div k
           n == f % k
<1>2. f \in Int /\ d \in Int /\ n \in 0 .. k - 1 /\ f = k * d + n
  BY <1>1
<1> HIDE DEF d, n, x
<1>3. k * (q - d) = n
  BY <1>1, <1>2
<1>4. q - d \in Int /\ k * (q - d) \in Int
  BY <1>1, <1>2
<1> DEFINE e == q - d
<1> HIDE DEF e
<1>5. e \in Int /\ k * e = n
  BY <1>3, <1>4 DEF e
<1>6. e >= 1 => k * e >= k
  BY <1>5
<1>7. e <= -1 => k * e < 0
  BY <1>5
<1>8. n = 0
  BY <1>2, <1>5, <1>6, <1>7
<1>9. f \in r - k .. r - 1
  BY <1>1, <1>2 DEF x
<1> QED
  BY <1>8, <1>9 DEF n

-----------------------------------------------------------------------------
Piece == Int \X Int

(* The pieces of the records before record i.                              *)
Before[i \in 0 .. Records + 1] ==
    IF i = 0 THEN <<>> ELSE Before[i - 1] \o GenerateCSVRows(i - 1)

(* What the generator has written so far.                                  *)
Written == Before[rec] \o [n \in 1 .. piece |-> <<rec, n>>]

SeqsOK == buf \in Seq(Piece) /\ pipe \in Seq(Piece) /\ body \in Seq(Piece)

(* Where the generator is and what it has left behind.                     *)
GenOK ==
    /\ gen = "run" => rec \in 0 .. Records
    /\ gen = "flush" => rec \in 1 .. Records /\ piece = Pieces(rec)
    /\ gen \in {"last", "closed"} => rec = Records + 1
    /\ gen = "error" => rec \in 1 .. Records
    /\ gen = "closed" => buf = <<>>
    /\ copy = "ended" => gen \in {"closed", "error"} /\ pipe = <<>>

(* While the handler copies, what was written is in the answer, the pipe   *)
(* or the buffer, in this order.                                           *)
NothingLost == copy # "aborted" => body \o (pipe \o buf) = Written

(* A record that called for a flush has reached the client, and everything *)
(* before it.                                                              *)
FlushesArrive ==
    copy # "aborted" =>
       \A i \in 1 .. rec - 1 : FlushDue(i) => IsPrefix(Before[i + 1], body)

(* A handler that gave up had sent the beginning of the file.              *)
CutShort == copy = "aborted" => IsPrefix(body, File)

TypeInv == TypeOK /\ SeqsOK /\ GenOK
StreamInv == TypeInv /\ NothingLost /\ FlushesArrive /\ CutShort

-----------------------------------------------------------------------------
TermsOK == terms \in [1 .. Records -> 0 .. MaxTerms \cup {Broken}]

(* Every record has a number of pieces.                                    *)
LEMMA PiecesType ==
    ASSUME TermsOK
    PROVE  \A i \in 0 .. Records :
              Pieces(i) \in Nat /\ GenerateCSVRows(i) \in Seq(Piece)
<1> SUFFICES ASSUME NEW i \in 0 .. Records
             PROVE  Pieces(i) \in Nat /\ GenerateCSVRows(i) \in Seq(Piece)
  OBVIOUS
<1>1. i # 0 => terms[i] = Broken \/ terms[i] \in Nat
  BY ExportAssumption DEF TermsOK
<1>2. \A a, b \in Nat : 2 * a * b \in Nat
  OBVIOUS
<1>3. RowPieces \in Nat
  BY ExportAssumption
<1>4. Pieces(i) \in Nat
  BY <1>1, <1>2, <1>3 DEF Pieces
<1>5. GenerateCSVRows(i) \in [1 .. Pieces(i) -> Piece]
  <2> \A n \in 1 .. Pieces(i) : <<i, n>> \in Piece
    BY <1>4, ExportAssumption DEF Piece
  <2> QED
    BY DEF GenerateCSVRows
<1>6. \A k \in Nat : \A s \in [1 .. k -> Piece] : s \in Seq(Piece)
  BY SeqDef
<1> QED
  BY <1>4, <1>5, <1>6

(* Before adds the pieces of one record after the other, up to the whole   *)
(* file.                                                                   *)
LEMMA BeforeFacts ==
    ASSUME TermsOK
    PROVE  /\ Before \in [0 .. Records + 1 -> Seq(Piece)]
           /\ Before[0] = <<>>
           /\ \A i \in 0 .. Records :
                 Before[i + 1] = Before[i] \o GenerateCSVRows(i)
           /\ Before[Records + 1] = File
<1> DEFINE n == Records + 1
           Q == Seq(Piece)
           s == [i \in 1 .. n |-> GenerateCSVRows(i - 1)]
           c == Concat(Piece)
           Step(h) == [i \in 0 .. n |-> IF i = 0 THEN <<>>
                                        ELSE h[i - 1] \o GenerateCSVRows(i - 1)]
<1>a. n \in Nat \ {0} /\ n = Records + 1 /\ Records \in Nat
  BY ExportAssumption
<1>b. Before = CHOOSE h : h = Step(h)
  BY DEF Before
<1>c. s \in [1 .. n -> Q]
  <2>1. \A i \in 1 .. n : i - 1 \in 0 .. Records
    BY <1>a
  <2> QED
    BY <2>1, PiecesType
<1>d. c \in [Q \X Q -> Q] /\ <<>> \in Q
  BY ConcatType
<1>e. \A a, b \in Q : c[<<a, b>>] = a \o b
  BY ConcatType
<1>f. File = FlattenSeq(s)
  BY DEF File
<1>g. \A i \in 1 .. n : s[i] = GenerateCSVRows(i - 1)
  OBVIOUS
<1> HIDE DEF n, Q, s, c
<1>1. PICK f : Concatenates(Piece, n, s, f)
  BY <1>a, <1>c, ConcatenationExists DEF Q
<1>h. /\ f \in [0 .. n -> Q] /\ f[0] = <<>>
      /\ \A i \in 1 .. n : f[i] = c[<<f[i - 1], s[i]>>]
  BY <1>1 DEF Concatenates, Q, c
<1>2. ASSUME NEW i \in 1 .. n PROVE f[i] = f[i - 1] \o GenerateCSVRows(i - 1)
  <2>1. f[i - 1] \in Q /\ s[i] \in Q
    BY <1>a, <1>c, <1>h
  <2>2. c[<<f[i - 1], s[i]>>] = f[i - 1] \o s[i]
    BY <1>e, <2>1
  <2> QED
    BY <1>h, <1>g, <2>2
<1>3. f = Step(f)
  <2>1. \A i \in 0 .. n : i # 0 => i \in 1 .. n
    BY <1>a
  <2>2. \A i \in 0 .. n :
           f[i] = IF i = 0 THEN <<>> ELSE f[i - 1] \o GenerateCSVRows(i - 1)
    BY <1>h, <1>2, <2>1, Zenon
  <2> QED
    BY <1>h, <2>2
<1>4. Before = Step(Before)
  <2> HIDE DEF Step
  <2> QED
    BY <1>b, <1>3
<1>5. /\ Before[0] = <<>>
      /\ \A i \in 1 .. n : Before[i] = Before[i - 1] \o GenerateCSVRows(i - 1)
  <2>1. \A i \in 0 .. n :
           Step(Before)[i] = IF i = 0 THEN <<>>
                             ELSE Before[i - 1] \o GenerateCSVRows(i - 1)
    OBVIOUS
  <2> HIDE DEF Step
  <2>2. \A i \in 0 .. n : Before[i] = Step(Before)[i]
    BY <1>4, Zenon
  <2>3. 0 \in 0 .. n /\ \A i \in 1 .. n : i \in 0 .. n /\ i # 0
    BY <1>a
  <2> QED
    BY <2>1, <2>2, <2>3, Zenon
<1>6. ASSUME NEW i \in 0 .. Records
      PROVE  Before[i + 1] = Before[i] \o GenerateCSVRows(i)
  <2> DEFINE j == i + 1
  <2>1. j \in 1 .. n /\ j - 1 = i
    BY <1>a
  <2>2. Before[j] = Before[j - 1] \o GenerateCSVRows(j - 1)
    BY <1>5, <2>1, Zenon
  <2> QED
    BY <2>1, <2>2
<1> DEFINE G == {i \in 0 .. n : Before[i] \in Q}
<1>7. 0 \in G
  BY <1>a, <1>d, <1>5
<1>8. ASSUME NEW k \in 0 .. n - 1, k \in G PROVE k + 1 \in G
  <2>1. k \in 0 .. Records /\ k + 1 \in 0 .. n
    BY <1>a
  <2>2. Before[k] \in Seq(Piece) /\ GenerateCSVRows(k) \in Seq(Piece)
    BY <1>8, <2>1, PiecesType DEF Q
  <2>3. Before[k] \o GenerateCSVRows(k) \in Q
    BY <2>2, ConcatProperties DEF Q
  <2> QED
    BY <1>6, <2>1, <2>3
<1>9. \A i \in 0 .. n : Before[i] \in Q
  <2>1. \A k \in 0 .. n - 1 : k \in G => k + 1 \in G
    BY <1>8
  <2> HIDE DEF G
  <2>2. \A k \in 0 .. n : k \in G
    BY <1>a, <1>7, <2>1, Induction
  <2> QED
    BY <2>2 DEF G
<1>10. Before \in [0 .. n -> Q]
  <2>1. Step(Before) = [i \in 0 .. n |-> Step(Before)[i]]
    OBVIOUS
  <2> HIDE DEF Step
  <2>2. Before = [i \in 0 .. n |-> Before[i]]
    BY <1>4, <2>1
  <2> QED
    BY <1>9, <2>2
<1>11. \A i \in 1 .. n : Before[i] = c[<<Before[i - 1], s[i]>>]
  <2> SUFFICES ASSUME NEW i \in 1 .. n
               PROVE  Before[i] = c[<<Before[i - 1], s[i]>>]
    OBVIOUS
  <2>1. Before[i - 1] \in Q /\ s[i] \in Q
    BY <1>a, <1>c, <1>9
  <2>2. c[<<Before[i - 1], s[i]>>] = Before[i - 1] \o s[i]
    BY <1>e, <2>1
  <2> QED
    BY <1>5, <1>g, <2>2
<1>12. Before[n] = File
  <2>1. FlattenSeq(s) = Before[n]
    <3>1. Concatenates(Piece, n, s, Before)
      BY <1>5, <1>10, <1>11 DEF Concatenates, Q, c
    <3> QED
      BY <1>a, <1>c, <3>1, FlattenConcatenates DEF Q
  <2> QED
    BY <1>f, <2>1
<1> QED
  BY <1>5, <1>6, <1>10, <1>12 DEF n, Q

-----------------------------------------------------------------------------
(* A record's pieces are in the file up to every later record.             *)
LEMMA BeforeGrows ==
    ASSUME TermsOK, NEW j \in 0 .. Records + 1, NEW k \in j .. Records + 1
    PROVE  IsPrefix(Before[j], Before[k])
<1>a. Records \in Nat /\ j \in Nat /\ k \in Nat /\ k - j \in Nat
  BY ExportAssumption
<1> DEFINE G == {m \in 0 .. k - j : IsPrefix(Before[j], Before[j + m])}
<1>1. 0 \in G
  <2>1. Before[j] \in Seq(Piece)
    BY BeforeFacts
  <2>2. IsPrefix(Before[j], Before[j])
    <3>1. Len(Before[j]) \in Nat
      BY <2>1, LenProperties
    <3> QED
      BY <2>1, <3>1, PrefixElements
  <2> QED
    BY <1>a, <2>2
<1>2. ASSUME NEW m \in 0 .. (k - j) - 1, m \in G PROVE m + 1 \in G
  <2> DEFINE i == j + m
  <2>1. i \in 0 .. Records /\ i + 1 = j + (m + 1) /\ m + 1 \in 0 .. k - j
    BY <1>a
  <2> HIDE DEF i
  <2>2. /\ Before[j] \in Seq(Piece) /\ Before[i] \in Seq(Piece)
        /\ Before[i + 1] \in Seq(Piece) /\ GenerateCSVRows(i) \in Seq(Piece)
        /\ Before[i + 1] = Before[i] \o GenerateCSVRows(i)
    <3>1. j \in 0 .. Records + 1 /\ i \in 0 .. Records + 1 /\ i + 1 \in 0 .. Records + 1
      BY <1>a, <2>1
    <3>2. GenerateCSVRows(i) \in Seq(Piece)
      BY <2>1, PiecesType
    <3>3. Before[j] \in Seq(Piece) /\ Before[i] \in Seq(Piece) /\ Before[i + 1] \in Seq(Piece)
      BY <3>1, BeforeFacts
    <3>4. Before[i + 1] = Before[i] \o GenerateCSVRows(i)
      BY <2>1, BeforeFacts
    <3> QED
      BY <3>2, <3>3, <3>4
  <2>3. IsPrefix(Before[j], Before[i])
    BY <1>2 DEF i
  <2>4. IsPrefix(Before[i], Before[i + 1])
    BY <2>2, PrefixOfConcat
  <2>5. IsPrefix(Before[j], Before[i + 1])
    BY <2>2, <2>3, <2>4, PrefixTransitive
  <2> QED
    BY <2>1, <2>5
<1>3. \A m \in 0 .. (k - j) - 1 : m \in G => m + 1 \in G
  BY <1>2
<1> HIDE DEF G
<1>4. \A m \in 0 .. k - j : m \in G
  BY <1>a, <1>1, <1>3, Induction
<1>5. k - j \in G /\ j + (k - j) = k
  BY <1>a, <1>4
<1> QED
  BY <1>5 DEF G

-----------------------------------------------------------------------------
(* The initial states are typed.                                           *)
LEMMA TypeInit == Init => TypeInv
<1> SUFFICES ASSUME Init PROVE TypeInv
  OBVIOUS
<1>1. TermsOK
  BY DEF Init, TermsOK
<1>2. Records \in Nat /\ BufferSize \in Nat
  BY ExportAssumption
<1>3. Pieces(0) \in Nat /\ rec = 0
  BY <1>1, <1>2, PiecesType DEF Init
<1>4. SeqsOK /\ Len(buf) = 0 /\ Len(pipe) = 0
  BY EmptySeq DEF Init, SeqsOK
<1>5. piece \in 0 .. (IF rec \in 0 .. Records THEN Pieces(rec) ELSE 0)
  BY <1>2, <1>3 DEF Init
<1>6. TypeOK
  <2>1. rec \in 0 .. Records + 1 /\ gen = "run" /\ copy = "run"
    BY <1>2, <1>3 DEF Init
  <2>2. gone \in BOOLEAN
    BY DEF Init
  <2> QED
    BY <1>1, <1>2, <1>4, <1>5, <2>1, <2>2 DEF TypeOK, TermsOK
<1>7. GenOK
  BY <1>2, <1>3 DEF Init, GenOK
<1> QED
  BY <1>4, <1>6, <1>7 DEF TypeInv

(* The pieces of a record are the same before and after a step.            *)
LEMMA PiecesKept ==
    ASSUME terms' = terms, NEW i PROVE Pieces(i)' = Pieces(i)
  BY DEF Pieces

(* Moving on to the next record keeps the position typed.                  *)
LEMMA AdvanceTypes ==
    ASSUME TypeInv, Advance, UNCHANGED <<terms, buf, pipe, copy, gone, body>>,
           gen \in {"run", "flush"}
    PROVE  TypeInv'
<1>1. TermsOK /\ TermsOK' /\ Records \in Nat
  BY ExportAssumption DEF TypeInv, TypeOK, TermsOK
<1>2. rec \in 0 .. Records /\ rec' = rec + 1 /\ piece' = 0
  BY DEF TypeInv, GenOK, Advance
<1>3. \A i \in 0 .. Records : Pieces(i) \in Nat
  BY <1>1, PiecesType
<1>4. rec' \in 0 .. Records => Pieces(rec)' \in Nat
  <2> SUFFICES ASSUME NEW i \in 0 .. Records, rec' = i
               PROVE  Pieces(rec)' \in Nat
    OBVIOUS
  <2>1. Pieces(rec)' = Pieces(i)
    BY DEF Pieces
  <2> QED
    BY <1>3, <2>1
<1>5. gen' = IF rec < Records /\ terms[rec + 1] = Broken
             THEN "error" ELSE IF rec = Records THEN "last" ELSE "run"
  BY DEF Advance
<1>6. piece' \in 0 .. (IF rec' \in 0 .. Records THEN Pieces(rec)' ELSE 0)
  BY <1>2, <1>4
<1>7. TypeOK'
  <2>1. rec' \in 0 .. Records + 1
    BY <1>1, <1>2
  <2> QED
    BY <1>5, <1>6, <2>1 DEF TypeInv, TypeOK
<1>8. GenOK'
  BY <1>1, <1>2, <1>5 DEF TypeInv, GenOK
<1> QED
  BY <1>7, <1>8 DEF TypeInv, SeqsOK

(* Every step keeps the state typed, and the buffer and the chunk within   *)
(* their size.                                                             *)
LEMMA TypeStep == TypeInv /\ [Next]_vars => TypeInv'
<1> SUFFICES ASSUME TypeInv, [Next]_vars PROVE TypeInv'
  OBVIOUS
<1>a. TermsOK /\ Records \in Nat /\ BufferSize \in Nat \ {0}
  BY ExportAssumption DEF TypeInv, TypeOK, TermsOK
<1>b. buf \in Seq(Piece) /\ pipe \in Seq(Piece) /\ body \in Seq(Piece)
  BY DEF TypeInv, SeqsOK
<1>c. /\ Len(buf) \in Nat /\ Len(pipe) \in Nat
      /\ <<>> \in Seq(Piece) /\ Len(<<>>) = 0
  BY <1>b, LenProperties, EmptySeq
<1>d. /\ rec \in 0 .. Records + 1 /\ piece \in Int
      /\ rec \in 0 .. Records => Pieces(rec) \in Nat
  BY <1>a, PiecesType DEF TypeInv, TypeOK
<1>e. Len(buf) <= BufferSize /\ Len(pipe) <= BufferSize
  BY DEF TypeInv, TypeOK
<1>1. CASE WritePiece
  <2>1. rec \in 0 .. Records /\ gen = "run" /\ copy # "ended"
    BY <1>1 DEF WritePiece, TypeInv, GenOK
  <2>2. /\ UNCHANGED <<terms, rec, gen, copy, gone, body>>
        /\ piece < Pieces(rec) /\ Pieces(rec)' = Pieces(rec)
    BY <1>1, PiecesKept DEF WritePiece, Pieces
  <2>3. CASE Len(buf) < BufferSize
    <3> DEFINE new == <<rec, piece + 1>>
    <3>1. new \in Piece
      BY <1>a, <1>d DEF Piece
    <3> HIDE DEF new
    <3>2. buf' = Append(buf, new) /\ piece' = piece + 1 /\ pipe' = pipe
      BY <1>1, <2>3 DEF WritePiece, new
    <3>3. buf' \in Seq(Piece) /\ Len(buf') = Len(buf) + 1
      BY <1>b, <3>1, <3>2, AppendProperties
    <3>4. SeqsOK' /\ Len(buf') <= BufferSize
      BY <1>a, <1>b, <1>c, <2>2, <2>3, <3>2, <3>3 DEF SeqsOK
    <3>5. piece' \in 0 .. (IF rec' \in 0 .. Records THEN Pieces(rec)' ELSE 0)
      BY <1>d, <2>1, <2>2, <3>2 DEF TypeInv, TypeOK
    <3>6. TypeOK'
      BY <1>d, <2>2, <3>2, <3>4, <3>5 DEF TypeInv, TypeOK
    <3>7. GenOK'
      BY <2>1, <2>2 DEF GenOK
    <3> QED
      BY <3>4, <3>6, <3>7 DEF TypeInv
  <2>4. CASE ~(Len(buf) < BufferSize)
    <3>1. pipe' = buf /\ buf' = <<>> /\ piece' = piece
      BY <1>1, <2>4 DEF WritePiece
    <3>2. SeqsOK' /\ Len(buf') <= BufferSize /\ Len(pipe') <= BufferSize
      BY <1>a, <1>b, <1>c, <1>e, <2>2, <3>1 DEF SeqsOK
    <3>3. TypeOK'
      BY <2>2, <3>1, <3>2 DEF TypeInv, TypeOK
    <3>4. GenOK'
      BY <2>1, <2>2 DEF GenOK
    <3> QED
      BY <3>2, <3>3, <3>4 DEF TypeInv
  <2> QED
    BY <2>3, <2>4
<1>2. CASE EndRecord
  <2>1. gen = "run" /\ piece = Pieces(rec)
        /\ UNCHANGED <<terms, buf, pipe, copy, gone, body>>
    BY <1>2 DEF EndRecord
  <2>2. CASE FlushDue(rec)
    <3>1. gen' = "flush" /\ UNCHANGED <<rec, piece>>
      BY <1>2, <2>2 DEF EndRecord
    <3>2. rec \in 1 .. Records /\ copy # "ended"
      BY <1>a, <2>1, <2>2 DEF TypeInv, GenOK, FlushDue
    <3>3. Pieces(rec)' = Pieces(rec)
      BY <2>1, <3>1 DEF Pieces
    <3>4. TypeOK'
      BY <2>1, <3>1, <3>3 DEF TypeInv, TypeOK
    <3>5. GenOK'
      BY <2>1, <3>1, <3>2, <3>3 DEF GenOK
    <3> QED
      BY <2>1, <3>4, <3>5 DEF TypeInv, SeqsOK
  <2>3. CASE ~FlushDue(rec)
    <3>1. Advance
      BY <1>2, <2>3 DEF EndRecord
    <3> QED
      BY <2>1, <3>1, AdvanceTypes
  <2> QED
    BY <2>2, <2>3
<1>3. CASE Flush
  <2>1. /\ pipe' = buf /\ buf' = <<>> /\ gen \in {"flush", "last"}
        /\ UNCHANGED <<terms, rec, piece, gen, copy, gone, body>>
    BY <1>3 DEF Flush
  <2>2. Pieces(rec)' = Pieces(rec)
    BY <2>1 DEF Pieces
  <2>3. SeqsOK' /\ Len(buf') <= BufferSize /\ Len(pipe') <= BufferSize
    BY <1>a, <1>b, <1>c, <1>e, <2>1 DEF SeqsOK
  <2>4. TypeOK'
    BY <2>1, <2>2, <2>3 DEF TypeInv, TypeOK
  <2>5. GenOK'
    BY <2>1, <2>2 DEF TypeInv, GenOK
  <2> QED
    BY <2>3, <2>4, <2>5 DEF TypeInv
<1>4. CASE Flushed
  BY <1>4, AdvanceTypes DEF Flushed
<1>5. ASSUME ClosePipe \/ GoAway \/ EndCopy \/ UNCHANGED vars PROVE TypeInv'
  <2>1. UNCHANGED <<terms, rec, piece, buf, pipe, body>>
    BY <1>5 DEF ClosePipe, GoAway, EndCopy, vars
  <2>2. Pieces(rec)' = Pieces(rec)
    BY <2>1 DEF Pieces
  <2>3. /\ gen' = gen \/ (gen' = "closed" /\ gen = "last" /\ buf = <<>>)
        /\ \/ copy' = copy
           \/ copy' = "ended" /\ gen \in {"closed", "error"} /\ pipe = <<>>
        /\ gone' \in {gone, TRUE}
    BY <1>5 DEF ClosePipe, GoAway, EndCopy, vars
  <2>4. gen' # gen => copy' = copy
    BY <1>5 DEF ClosePipe, GoAway, EndCopy, vars
  <2>5. TypeOK'
    BY <2>1, <2>2, <2>3 DEF TypeInv, TypeOK
  <2>6. GenOK'
    BY <2>1, <2>2, <2>3, <2>4 DEF TypeInv, GenOK
  <2> QED
    BY <2>1, <2>5, <2>6 DEF TypeInv, SeqsOK
<1>6. ASSUME CopyChunk \/ AbortCopy PROVE TypeInv'
  <2>1. /\ UNCHANGED <<terms, rec, piece, gen, buf, gone>> /\ pipe' = <<>>
        /\ body' = body \/ body' = body \o pipe
        /\ copy' \in {copy, "aborted"}
    BY <1>6 DEF CopyChunk, AbortCopy
  <2>2. Pieces(rec)' = Pieces(rec)
    BY <2>1 DEF Pieces
  <2>3. SeqsOK' /\ Len(pipe') <= BufferSize
    <3>1. body \o pipe \in Seq(Piece)
      BY <1>b, ConcatProperties
    <3>2. body' \in Seq(Piece)
      BY <1>b, <2>1, <3>1
    <3> QED
      BY <1>a, <1>b, <1>c, <2>1, <3>2 DEF SeqsOK
  <2>4. TypeOK'
    BY <2>1, <2>2, <2>3 DEF TypeInv, TypeOK
  <2>5. GenOK'
    BY <2>1, <2>2 DEF TypeInv, GenOK
  <2> QED
    BY <2>3, <2>4, <2>5 DEF TypeInv
<1> QED
  BY <1>1, <1>2, <1>3, <1>4, <1>5, <1>6 DEF Next, Generate, CopyOut

(* The csv.Writer never holds more than its buffer, hands over no larger   *)
(* chunk, and the generator never leaves the page: for every page, length  *)
(* of the rows and size of the buffer.                                     *)
THEOREM TypeCorrect == Spec => []TypeOK
<1>1. TypeInv => TypeOK
  BY DEF TypeInv
<1> QED
  BY <1>1, TypeInit, TypeStep, PTL DEF Spec

-----------------------------------------------------------------------------
(* The pieces of record i up to the n-th.                                  *)
Row(i, n) == [m \in 1 .. n |-> <<i, m>>]

(* They are pieces, and one more of them is the next one.                  *)
LEMMA RowFacts ==
    ASSUME NEW i \in Nat, NEW n \in Nat
    PROVE  /\ Row(i, n) \in Seq(Piece) /\ Len(Row(i, n)) = n
           /\ \A m \in 1 .. n : Row(i, n)[m] = <<i, m>>
           /\ Row(i, 0) = <<>>
<1>1. Row(i, n) \in [1 .. n -> Piece]
  BY DEF Row, Piece
<1>2. Row(i, n) \in Seq(Piece)
  BY <1>1, SeqDef
<1>3. Len(Row(i, n)) = n
  BY <1>1
<1>4. \A m \in 1 .. n : Row(i, n)[m] = <<i, m>>
  BY DEF Row
<1>5. Row(i, 0) = <<>>
  <2>1. Row(i, 0) \in [1 .. 0 -> Piece]
    BY DEF Row, Piece
  <2>2. Row(i, 0) \in Seq(Piece)
    BY <2>1, SeqDef
  <2>3. Len(Row(i, 0)) = 0
    BY <2>1
  <2> QED
    BY <2>2, <2>3, EmptySeq
<1> QED
  BY <1>2, <1>3, <1>4, <1>5

(* Writing a piece extends its row.                                        *)
LEMMA RowGrows ==
    ASSUME NEW i \in Nat, NEW n \in Nat
    PROVE  Row(i, n + 1) = Append(Row(i, n), <<i, n + 1>>)
<1> DEFINE s == Row(i, n)
           e == <<i, n + 1>>
           t == Row(i, n + 1)
<1>1. s \in Seq(Piece) /\ Len(s) = n /\ \A m \in 1 .. n : s[m] = <<i, m>>
  BY RowFacts
<1>2. /\ t \in Seq(Piece) /\ Len(t) = n + 1
      /\ \A m \in 1 .. n + 1 : t[m] = <<i, m>>
  <2>1. n + 1 \in Nat
    OBVIOUS
  <2> QED
    BY <2>1, RowFacts, Zenon
<1>3. e \in Piece
  BY DEF Piece
<1> HIDE DEF s, t, e
<1>4. /\ Append(s, e) \in Seq(Piece) /\ Len(Append(s, e)) = n + 1
      /\ \A m \in 1 .. n : Append(s, e)[m] = s[m]
      /\ Append(s, e)[n + 1] = e
  <2>1. /\ Append(s, e) \in Seq(Piece) /\ Len(Append(s, e)) = Len(s) + 1
        /\ \A m \in 1 .. Len(s) : Append(s, e)[m] = s[m]
        /\ Append(s, e)[Len(s) + 1] = e
    BY <1>1, <1>3, AppendProperties
  <2> QED
    BY <1>1, <2>1
<1> DEFINE u == Append(s, e)
<1> HIDE DEF u
<1>5. \A m \in 1 .. n + 1 : t[m] = u[m]
  <2> SUFFICES ASSUME NEW m \in 1 .. n + 1 PROVE t[m] = u[m]
    OBVIOUS
  <2>1. CASE m = n + 1
    BY <1>2, <1>4, <2>1 DEF u, e
  <2>2. CASE m \in 1 .. n
    BY <1>1, <1>2, <1>4, <2>2 DEF u
  <2> QED
    BY <2>1, <2>2
<1>6. t = u
  BY <1>2, <1>4, <1>5, SeqEqual DEF u
<1> QED
  BY <1>6 DEF s, t, u, e

(* A shorter row is a prefix of a longer one, after the same pieces.       *)
LEMMA RowPrefix ==
    ASSUME NEW i \in Nat, NEW n \in Nat, NEW k \in Nat, n <= k,
           NEW s \in Seq(Piece)
    PROVE  IsPrefix(s \o Row(i, n), s \o Row(i, k))
<1>1. /\ Row(i, n) \in Seq(Piece) /\ Len(Row(i, n)) = n
      /\ \A m \in 1 .. n : Row(i, n)[m] = <<i, m>>
  BY RowFacts
<1>2. /\ Row(i, k) \in Seq(Piece) /\ Len(Row(i, k)) = k
      /\ \A m \in 1 .. k : Row(i, k)[m] = <<i, m>>
  BY RowFacts
<1> DEFINE a == s \o Row(i, n)
           b == s \o Row(i, k)
<1>3. Len(s) \in Nat
  BY LenProperties
<1>4. /\ a \in Seq(Piece) /\ Len(a) = Len(s) + n
      /\ \A j \in 1 .. Len(s) + n :
            a[j] = IF j <= Len(s) THEN s[j] ELSE Row(i, n)[j - Len(s)]
  BY <1>1, ConcatProperties
<1>5. /\ b \in Seq(Piece) /\ Len(b) = Len(s) + k
      /\ \A j \in 1 .. Len(s) + k :
            b[j] = IF j <= Len(s) THEN s[j] ELSE Row(i, k)[j - Len(s)]
  BY <1>2, ConcatProperties
<1> HIDE DEF a, b
<1>6. ASSUME NEW j \in 1 .. Len(a) PROVE a[j] = b[j]
  <2>1. j \in 1 .. Len(s) + n /\ j \in 1 .. Len(s) + k
    BY <1>3, <1>4
  <2>2. CASE j <= Len(s)
    BY <1>4, <1>5, <2>1, <2>2
  <2>3. CASE ~(j <= Len(s))
    <3>1. j - Len(s) \in 1 .. n /\ j - Len(s) \in 1 .. k
      BY <1>3, <2>1, <2>3
    <3>2. Row(i, n)[j - Len(s)] = Row(i, k)[j - Len(s)]
      BY <1>1, <1>2, <3>1
    <3> QED
      BY <1>4, <1>5, <2>1, <2>3, <3>2
  <2> QED
    BY <2>2, <2>3
<1>7. Len(a) <= Len(b)
  BY <1>3, <1>4, <1>5
<1>8. IsPrefix(a, b)
  BY <1>4, <1>5, <1>6, <1>7, PrefixElements
<1> QED
  BY <1>8 DEF a, b

(* What was written is a beginning of the file.                            *)
LEMMA WrittenFacts ==
    ASSUME TypeInv
    PROVE  /\ Written = Before[rec] \o Row(rec, piece)
           /\ Written \in Seq(Piece) /\ IsPrefix(Written, File)
           /\ rec \in 0 .. Records /\ piece = Pieces(rec)
                 => Written = Before[rec + 1]
           /\ rec = Records + 1 => Written = File
<1>a. TermsOK /\ Records \in Nat /\ rec \in 0 .. Records + 1 /\ rec \in Nat
  BY ExportAssumption DEF TypeInv, TypeOK, TermsOK
<1>b. \A i \in 0 .. Records : Pieces(i) \in Nat
  BY <1>a, PiecesType
<1>c. piece \in Nat /\ (rec \in 0 .. Records => piece <= Pieces(rec))
  <2>1. piece \in 0 .. (IF rec \in 0 .. Records THEN Pieces(rec) ELSE 0)
    BY DEF TypeInv, TypeOK
  <2>2. CASE rec \in 0 .. Records
    BY <1>b, <2>1, <2>2
  <2>3. CASE rec \notin 0 .. Records
    BY <2>1, <2>3
  <2> QED
    BY <2>2, <2>3
<1>1. Written = Before[rec] \o Row(rec, piece)
  BY DEF Written, Row
<1>2. Before[rec] \in Seq(Piece) /\ Row(rec, piece) \in Seq(Piece)
  BY <1>a, <1>c, BeforeFacts, RowFacts
<1>3. Written \in Seq(Piece)
  BY <1>1, <1>2, ConcatProperties
<1>4. File \in Seq(Piece) /\ File = Before[Records + 1]
  <2> Records + 1 \in 0 .. Records + 1
    BY <1>a
  <2> QED
    BY <1>a, BeforeFacts
<1>5. CASE rec \in 0 .. Records
  <2>1. Row(rec, Pieces(rec)) = GenerateCSVRows(rec)
    BY DEF Row, GenerateCSVRows
  <2>2. Before[rec + 1] = Before[rec] \o Row(rec, Pieces(rec))
    BY <1>a, <1>5, <2>1, BeforeFacts
  <2>3. Before[rec + 1] \in Seq(Piece) /\ IsPrefix(Before[rec + 1], File)
    <3>1. /\ rec + 1 \in 0 .. Records + 1
          /\ Records + 1 \in (rec + 1) .. (Records + 1)
      BY <1>a, <1>5
    <3>2. IsPrefix(Before[rec + 1], Before[Records + 1])
      BY <1>a, <3>1, BeforeGrows
    <3> QED
      BY <1>a, <1>4, <3>1, <3>2, BeforeFacts
  <2>4. IsPrefix(Written, Before[rec + 1])
    BY <1>a, <1>b, <1>c, <1>1, <1>2, <1>5, <2>2, RowPrefix
  <2>5. IsPrefix(Written, File)
    BY <1>3, <1>4, <2>3, <2>4, PrefixTransitive
  <2>6. piece = Pieces(rec) => Written = Before[rec + 1]
    BY <1>1, <2>2
  <2>7. rec # Records + 1
    BY <1>a, <1>5
  <2> QED
    BY <1>1, <1>3, <2>5, <2>6, <2>7
<1>6. CASE rec = Records + 1
  <2>1. piece = 0 /\ rec \notin 0 .. Records
    BY <1>a, <1>6 DEF TypeInv, TypeOK
  <2>2. Row(rec, piece) = <<>>
    BY <1>a, <2>1, RowFacts
  <2>3. Written = File
    BY <1>1, <1>2, <1>4, <1>6, <2>2, ConcatEmptySeq
  <2>4. IsPrefix(File, File)
    BY <1>4, LenProperties, PrefixElements
  <2> QED
    BY <1>1, <1>3, <2>1, <2>3, <2>4
<1> QED
  BY <1>a, <1>5, <1>6

(* While the handler copies, the client has a beginning of the file.       *)
LEMMA BodyPrefix ==
    ASSUME TypeInv, NothingLost, copy # "aborted"
    PROVE  IsPrefix(body, File)
<1>1. Written \in Seq(Piece) /\ IsPrefix(Written, File) /\ TermsOK
  BY WrittenFacts DEF TypeInv, TypeOK, TermsOK
<1>2. body \in Seq(Piece) /\ pipe \in Seq(Piece) /\ buf \in Seq(Piece)
  BY DEF TypeInv, SeqsOK
<1>3. pipe \o buf \in Seq(Piece)
  BY <1>2, ConcatProperties
<1>4. IsPrefix(body, body \o (pipe \o buf))
  BY <1>2, <1>3, PrefixOfConcat
<1>5. File \in Seq(Piece)
  <2> Records + 1 \in 0 .. Records + 1
    BY ExportAssumption
  <2> QED
    BY <1>1, BeforeFacts
<1>6. IsPrefix(body, Written)
  BY <1>4 DEF NothingLost
<1> QED
  BY <1>1, <1>2, <1>5, <1>6, PrefixTransitive

(* The file stays what it is.                                              *)
LEMMA FileKept == ASSUME terms' = terms PROVE Before' = Before /\ File' = File
  BY DEF Before, File, GenerateCSVRows, Pieces

(* A step that leaves the generator, and the records, where they are and   *)
(* only moves text on keeps the flushes.                                   *)
LEMMA FlushesKept ==
    ASSUME TypeInv, FlushesArrive, UNCHANGED <<terms, rec>>,
           copy' # "aborted" => copy # "aborted",
           body' = body \/ body' = body \o pipe
    PROVE  FlushesArrive'
<1>1. TermsOK /\ Records \in Nat /\ rec \in 0 .. Records + 1 /\ Before' = Before
  BY FileKept, ExportAssumption DEF TypeInv, TypeOK, TermsOK
<1>2. body \in Seq(Piece) /\ pipe \in Seq(Piece)
  BY DEF TypeInv, SeqsOK
<1>3. body' \in Seq(Piece) /\ IsPrefix(body, body')
  <2>1. body \o pipe \in Seq(Piece) /\ IsPrefix(body, body \o pipe)
    BY <1>2, PrefixOfConcat
  <2>2. IsPrefix(body, body)
    BY <1>2, LenProperties, PrefixElements
  <2> QED
    BY <1>2, <2>1, <2>2
<1> SUFFICES ASSUME copy' # "aborted", NEW i \in 1 .. rec - 1, FlushDue(i)
             PROVE  IsPrefix(Before[i + 1], body')
  BY <1>1 DEF FlushesArrive
<1>4. IsPrefix(Before[i + 1], body) /\ Before[i + 1] \in Seq(Piece)
  <2>1. i + 1 \in 0 .. Records + 1
    BY <1>1
  <2> QED
    BY <1>1, <2>1, BeforeFacts DEF FlushesArrive
<1> QED
  BY <1>2, <1>3, <1>4, PrefixTransitive

(* At the end of a record the generator moves on without writing; if the   *)
(* record called for a flush, the client has all that was written.         *)
LEMMA AdvanceStream ==
    ASSUME StreamInv, TypeInv', Advance, rec \in 0 .. Records,
           piece = Pieces(rec),
           UNCHANGED <<terms, buf, pipe, copy, gone, body>>,
           FlushDue(rec) => buf = <<>> /\ pipe = <<>>
    PROVE  StreamInv'
<1>1. TermsOK /\ Records \in Nat /\ TypeInv
  BY ExportAssumption DEF StreamInv, TypeInv, TypeOK, TermsOK
<1>2. rec' = rec + 1 /\ piece' = 0 /\ Before' = Before /\ File' = File
  BY FileKept DEF Advance
<1>3. Written = Before[rec + 1]
  BY <1>1, WrittenFacts
<1>4. Written' = Written
  <2>1. Written' = Before[rec + 1] \o Row(rec + 1, 0)
    BY <1>2 DEF Written, Row
  <2>2. Row(rec + 1, 0) = <<>>
    <3>1. rec + 1 \in Nat
      BY <1>1
    <3> QED
      BY <3>1, RowFacts
  <2>3. Before[rec + 1] \in Seq(Piece)
    <3>1. rec + 1 \in 0 .. Records + 1
      BY <1>1
    <3> QED
      BY <1>1, <3>1, BeforeFacts
  <2> QED
    BY <1>3, <2>1, <2>2, <2>3, ConcatEmptySeq
<1>5. NothingLost'
  BY <1>4 DEF StreamInv, NothingLost
<1>6. CutShort'
  BY <1>2 DEF StreamInv, CutShort
<1>7. FlushesArrive'
  <2> SUFFICES ASSUME copy # "aborted", NEW i \in 1 .. rec, FlushDue(i)
               PROVE  IsPrefix(Before[i + 1], body)
    BY <1>1, <1>2 DEF FlushesArrive
  <2>1. CASE i \in 1 .. rec - 1
    BY <2>1 DEF StreamInv, FlushesArrive
  <2>2. CASE i = rec
    <3>1. body \in Seq(Piece) /\ <<>> \in Seq(Piece)
      BY <1>1, EmptySeq DEF TypeInv, SeqsOK
    <3>2. <<>> \o <<>> = <<>> /\ body \o <<>> = body
      BY <3>1, ConcatEmptySeq
    <3>3. body \o (<<>> \o <<>>) = Written
      BY <2>2 DEF StreamInv, NothingLost
    <3>4. body = Before[i + 1]
      BY <1>3, <2>2, <3>2, <3>3
    <3>5. IsPrefix(body, body)
      BY <3>1, LenProperties, PrefixElements
    <3> QED
      BY <3>4, <3>5
  <2> QED
    BY <1>1, <2>1, <2>2
<1> QED
  BY <1>5, <1>6, <1>7 DEF StreamInv

(* Every step keeps the text whole and in order on its way to the client.  *)
LEMMA StreamStep == StreamInv /\ [Next]_vars => StreamInv'
<1> SUFFICES ASSUME StreamInv, [Next]_vars PROVE StreamInv'
  OBVIOUS
<1>a. TypeInv /\ TypeInv'
  BY TypeStep DEF StreamInv
<1>b. buf \in Seq(Piece) /\ pipe \in Seq(Piece) /\ body \in Seq(Piece)
  BY <1>a DEF TypeInv, SeqsOK
<1>c. <<>> \in Seq(Piece) /\ <<>> \o buf = buf /\ buf \o <<>> = buf
  BY <1>b, EmptySeq, ConcatEmptySeq
<1>d. FlushesArrive /\ CutShort /\ NothingLost
  BY DEF StreamInv
<1>1. CASE WritePiece
  <2>1. /\ pipe = <<>> /\ gen = "run" /\ rec \in 0 .. Records
        /\ UNCHANGED <<terms, rec, gen, copy, gone, body>>
    BY <1>1, <1>a DEF WritePiece, TypeInv, GenOK
  <2>2. FlushesArrive'
    BY <1>a, <1>d, <2>1, FlushesKept
  <2>3. CutShort'
    BY <1>d, <2>1, FileKept DEF CutShort
  <2>4. CASE Len(buf) < BufferSize
    <3> DEFINE new == <<rec, piece + 1>>
    <3>1. piece \in Nat /\ rec \in Nat /\ piece + 1 \in Nat
      BY <1>a, <2>1, PiecesType, ExportAssumption
         DEF TypeInv, TypeOK, TermsOK
    <3>2. new \in Piece
      BY <3>1 DEF Piece
    <3>3. piece' = piece + 1 /\ buf' = Append(buf, new) /\ pipe' = <<>>
      BY <1>1, <2>1, <2>4 DEF WritePiece
    <3>4. Row(rec, piece + 1) = Append(Row(rec, piece), new)
      BY <3>1, RowGrows
    <3>5. Row(rec, piece) \in Seq(Piece) /\ Before[rec] \in Seq(Piece)
      BY <1>a, <2>1, <3>1, RowFacts, BeforeFacts
         DEF TypeInv, TypeOK, TermsOK
    <3>6. Written' = Before[rec] \o Row(rec, piece + 1)
      BY <2>1, <3>3, FileKept DEF Written, Row
    <3> HIDE DEF new
    <3> DEFINE one == <<new>>
    <3>7. /\ one \in Seq(Piece)
          /\ Append(Row(rec, piece), new) = Row(rec, piece) \o one
          /\ Append(buf, new) = buf \o one
      BY <1>b, <3>2, <3>5, AppendIsConcat
    <3> HIDE DEF one
    <3>a. one \in Seq(Piece)
      BY <3>7
    <3>8. Written' = Written \o one
      <4>1. (Before[rec] \o Row(rec, piece)) \o one
              = Before[rec] \o (Row(rec, piece) \o one)
        <5> DEFINE b == Before[rec]
                   w == Row(rec, piece)
        <5>1. b \in Seq(Piece) /\ w \in Seq(Piece)
          BY <3>5
        <5> HIDE DEF b, w
        <5>2. (b \o w) \o one = b \o (w \o one)
          BY <3>a, <5>1, ConcatAssociative
        <5> QED
          BY <5>2 DEF b, w
      <4>2. Written = Before[rec] \o Row(rec, piece)
        BY <1>a, WrittenFacts
      <4> QED
        BY <3>4, <3>6, <3>7, <4>1, <4>2
    <3>9. (body \o buf) \o one = body \o (buf \o one)
      BY <1>b, <3>a, ConcatAssociative
    <3>10. buf \o one \in Seq(Piece) /\ <<>> \o (buf \o one) = buf \o one
      BY <1>b, <3>7, ConcatProperties, ConcatEmptySeq
    <3>11. NothingLost'
      <4> SUFFICES ASSUME copy # "aborted"
                   PROVE  body \o (<<>> \o (buf \o one)) = Written \o one
        BY <2>1, <3>3, <3>7, <3>8 DEF NothingLost
      <4>1. body \o buf = Written
        BY <1>c, <1>d, <2>1 DEF NothingLost
      <4> QED
        BY <3>9, <3>10, <4>1, Zenon
    <3> QED
      BY <1>a, <2>2, <2>3, <3>11 DEF StreamInv
  <2>5. CASE ~(Len(buf) < BufferSize)
    <3>1. piece' = piece /\ pipe' = buf /\ buf' = <<>>
      BY <1>1, <2>5 DEF WritePiece
    <3>2. Written' = Written
      BY <2>1, <3>1, FileKept DEF Written
    <3>3. NothingLost'
      BY <1>c, <1>d, <2>1, <3>1, <3>2 DEF NothingLost
    <3> QED
      BY <1>a, <2>2, <2>3, <3>3 DEF StreamInv
  <2> QED
    BY <2>4, <2>5
<1>2. CASE EndRecord
  <2>1. /\ gen = "run" /\ piece = Pieces(rec) /\ rec \in 0 .. Records
        /\ UNCHANGED <<terms, buf, pipe, copy, gone, body>>
    BY <1>2, <1>a DEF EndRecord, TypeInv, GenOK
  <2>2. CASE FlushDue(rec)
    <3>1. UNCHANGED <<rec, piece>>
      BY <1>2, <2>2 DEF EndRecord
    <3>2. FlushesArrive'
      BY <1>a, <1>d, <2>1, <3>1, FlushesKept
    <3>3. CutShort' /\ NothingLost'
      BY <1>d, <2>1, <3>1, FileKept DEF CutShort, NothingLost, Written
    <3> QED
      BY <1>a, <3>2, <3>3 DEF StreamInv
  <2>3. CASE ~FlushDue(rec)
    <3>1. Advance
      BY <1>2, <2>3 DEF EndRecord
    <3> QED
      BY <1>a, <2>1, <2>3, <3>1, AdvanceStream
  <2> QED
    BY <2>2, <2>3
<1>3. CASE Flush
  <2>1. /\ pipe' = buf /\ buf' = <<>> /\ pipe = <<>>
        /\ UNCHANGED <<terms, rec, piece, gen, copy, gone, body>>
    BY <1>3 DEF Flush
  <2>2. FlushesArrive'
    BY <1>a, <1>d, <2>1, FlushesKept
  <2>3. CutShort'
    BY <1>d, <2>1, FileKept DEF CutShort
  <2>4. Written' = Written
    BY <2>1, FileKept DEF Written
  <2>5. NothingLost'
    BY <1>c, <1>d, <2>1, <2>4 DEF NothingLost
  <2> QED
    BY <1>a, <2>2, <2>3, <2>5 DEF StreamInv
<1>4. CASE Flushed
  <2>1. rec \in 0 .. Records /\ piece = Pieces(rec)
    BY <1>4, <1>a, ExportAssumption DEF Flushed, TypeInv, GenOK
  <2> QED
    BY <1>4, <1>a, <2>1, AdvanceStream DEF Flushed
<1>5. ASSUME ClosePipe \/ GoAway \/ EndCopy \/ UNCHANGED vars PROVE StreamInv'
  <2>1. /\ UNCHANGED <<terms, rec, piece, buf, pipe, body>>
        /\ copy' = "aborted" <=> copy = "aborted"
    BY <1>5 DEF ClosePipe, GoAway, EndCopy, vars
  <2>2. FlushesArrive'
    BY <1>a, <1>d, <2>1, FlushesKept
  <2>3. Written' = Written
    BY <2>1, FileKept DEF Written
  <2>4. CutShort' /\ NothingLost'
    BY <1>d, <2>1, <2>3, FileKept DEF CutShort, NothingLost
  <2> QED
    BY <1>a, <2>2, <2>4 DEF StreamInv
<1>6. CASE CopyChunk
  <2>1. /\ copy = "run" /\ body' = body \o pipe /\ pipe' = <<>>
        /\ UNCHANGED <<terms, rec, piece, gen, buf, copy, gone>>
    BY <1>6 DEF CopyChunk
  <2>2. FlushesArrive'
    BY <1>a, <1>d, <2>1, FlushesKept
  <2>3. Written' = Written
    BY <2>1, FileKept DEF Written
  <2>4. (body \o pipe) \o buf = body \o (pipe \o buf)
    BY <1>b, ConcatAssociative
  <2>5. CutShort' /\ NothingLost'
    BY <1>c, <1>d, <2>1, <2>3, <2>4 DEF CutShort, NothingLost
  <2> QED
    BY <1>a, <2>2, <2>5 DEF StreamInv
<1>7. CASE AbortCopy
  <2>1. copy' = "aborted" /\ copy = "run" /\ UNCHANGED <<terms, body>>
    BY <1>7 DEF AbortCopy
  <2>2. IsPrefix(body, File)
    BY <1>a, <1>d, <2>1, BodyPrefix
  <2>3. CutShort' /\ FlushesArrive' /\ NothingLost'
    BY <2>1, <2>2, FileKept DEF CutShort, FlushesArrive, NothingLost
  <2> QED
    BY <1>a, <2>3 DEF StreamInv
<1> QED
  BY <1>1, <1>2, <1>3, <1>4, <1>5, <1>6, <1>7 DEF Next, Generate, CopyOut

(* Nothing is written yet.                                                 *)
LEMMA StreamInit == Init => StreamInv
<1> SUFFICES ASSUME Init PROVE StreamInv
  OBVIOUS
<1>1. TypeInv /\ TermsOK
  BY TypeInit DEF TypeInv, TypeOK, TermsOK
<1>2. rec = 0 /\ piece = 0 /\ copy = "run"
  BY DEF Init
<1>3. Written = <<>> \o <<>>
  BY <1>1, <1>2, WrittenFacts, BeforeFacts, RowFacts
<1>4. <<>> \o <<>> = <<>> /\ <<>> \o (<<>> \o <<>>) = <<>>
  BY EmptySeq, ConcatEmptySeq
<1>5. NothingLost
  BY <1>3, <1>4 DEF Init, NothingLost
<1>6. FlushesArrive /\ CutShort
  BY <1>2 DEF FlushesArrive, CutShort
<1> QED
  BY <1>1, <1>5, <1>6 DEF StreamInv

(* For every page, buffer and flush interval, and however the goroutine,   *)
(* the handler and the client take turns, the client gets the beginning of *)
(* the file, and all of it when the download ends without an error.        *)
THEOREM ClientGetsTheFile == Spec => []BodyIsFile
<1>1. StreamInv => BodyIsFile
  <2> SUFFICES ASSUME StreamInv PROVE BodyIsFile
    OBVIOUS
  <2>1. IsPrefix(body, File)
    BY BodyPrefix DEF StreamInv, CutShort
  <2>2. ASSUME copy = "ended", gen = "closed" PROVE body = File
    <3>1. buf = <<>> /\ pipe = <<>> /\ rec = Records + 1 /\ body \in Seq(Piece)
      BY <2>2 DEF StreamInv, TypeInv, GenOK, SeqsOK
    <3>2. Written = File
      BY <3>1, WrittenFacts DEF StreamInv
    <3>3. <<>> \o <<>> = <<>> /\ body \o <<>> = body
      BY <3>1, EmptySeq, ConcatEmptySeq
    <3> QED
      BY <2>2, <3>1, <3>2, <3>3 DEF StreamInv, NothingLost
  <2> QED
    BY <2>1, <2>2 DEF BodyIsFile
<1> QED
  BY <1>1, StreamInit, StreamStep, PTL DEF Spec

(* A record's own pieces are there once it is written.                     *)
LEMMA RecordHeld ==
    ASSUME TermsOK, NEW i \in 0 .. Records, NEW n \in 1 .. Pieces(i)
    PROVE  <<i, n>> \in ToSet(Before[i + 1])
<1>a. Records \in Nat /\ Pieces(i) \in Nat /\ i \in Nat
  BY ExportAssumption, PiecesType
<1> DEFINE b == Before[i]
           w == Row(i, Pieces(i))
           u == Before[i + 1]
           j == Len(b) + n
<1>1. b \in Seq(Piece) /\ u = b \o GenerateCSVRows(i)
  <2> i \in 0 .. Records + 1
    BY <1>a
  <2> QED
    BY <1>a, BeforeFacts
<1>2. GenerateCSVRows(i) = w
  BY DEF GenerateCSVRows, Row
<1>3. w \in Seq(Piece) /\ Len(w) = Pieces(i) /\ w[n] = <<i, n>>
  BY <1>a, RowFacts
<1> HIDE DEF b, w, u
<1>4. u = b \o w
  BY <1>1, <1>2
<1>5. Len(b) \in Nat
  BY <1>1, LenProperties
<1>6. /\ u \in Seq(Piece) /\ Len(u) = Len(b) + Len(w)
      /\ \A m \in 1 .. Len(b) + Len(w) :
            u[m] = IF m <= Len(b) THEN b[m] ELSE w[m - Len(b)]
  <2>1. b \in Seq(Piece) /\ w \in Seq(Piece)
    BY <1>1, <1>3
  <2>2. /\ b \o w \in Seq(Piece) /\ Len(b \o w) = Len(b) + Len(w)
        /\ \A m \in 1 .. Len(b) + Len(w) :
              (b \o w)[m] = IF m <= Len(b) THEN b[m] ELSE w[m - Len(b)]
    BY <2>1, ConcatProperties
  <2> QED
    BY <1>4, <2>2, Zenon
<1>7. j \in 1 .. Len(b) + Len(w) /\ ~(j <= Len(b)) /\ j - Len(b) = n
  BY <1>a, <1>3, <1>5
<1> HIDE DEF j
<1>8. u[j] = <<i, n>>
  BY <1>3, <1>6, <1>7
<1>9. j \in DOMAIN u
  BY <1>6, <1>7, LenProperties
<1>10. <<i, n>> \in ToSet(u)
  BY <1>8, <1>9 DEF ToSet
<1> QED
  BY <1>10 DEF u

(* For every page, buffer and flush interval, a broken record costs the    *)
(* client fewer than CSVStreamInterval of the records before it.           *)
THEOREM LossIsBounded == Spec => []LossBounded
<1>1. StreamInv => LossBounded
  <2> SUFFICES ASSUME StreamInv, copy = "ended", gen = "error",
                      rec > CSVStreamInterval,
                      NEW i \in 0 .. rec - CSVStreamInterval,
                      NEW n \in 1 .. Pieces(i)
               PROVE  <<i, n>> \in ToSet(body)
    BY DEF LossBounded
  <2>a. /\ TermsOK /\ Records \in Nat /\ CSVStreamInterval \in Nat \ {0}
        /\ rec \in 1 .. Records /\ body \in Seq(Piece)
    BY ExportAssumption
       DEF StreamInv, TypeInv, TypeOK, TermsOK, GenOK, SeqsOK
  <2>1. PICK f \in rec - CSVStreamInterval .. rec - 1 :
           f % CSVStreamInterval = 0
    <3> rec \in Nat
      BY <2>a
    <3> QED
      BY <2>a, MultipleNear, Zenon
  <2>2. f \in 1 .. rec - 1 /\ i \in 0 .. f /\ f <= Records /\ f \in Int
    BY <2>a
  <2>3. IsPrefix(Before[f + 1], body)
    BY <2>1, <2>2 DEF FlushDue, StreamInv, FlushesArrive
  <2>4. i \in 0 .. Records /\ i + 1 \in 0 .. Records + 1
        /\ f + 1 \in (i + 1) .. (Records + 1) /\ f + 1 \in 0 .. Records + 1
    BY <2>a, <2>2
  <2>5. IsPrefix(Before[i + 1], Before[f + 1])
    BY <2>a, <2>4, BeforeGrows
  <2>6. Before[i + 1] \in Seq(Piece) /\ Before[f + 1] \in Seq(Piece)
    BY <2>a, <2>4, BeforeFacts
  <2>7. ToSet(Before[i + 1]) \subseteq ToSet(body)
    BY <2>a, <2>3, <2>5, <2>6, PrefixHolds, PrefixTransitive
  <2>8. <<i, n>> \in ToSet(Before[i + 1])
    BY <2>a, <2>4, RecordHeld
  <2> QED
    BY <2>7, <2>8
<1> QED
  BY <1>1, StreamInit, StreamStep, PTL DEF Spec

=============================================================================
