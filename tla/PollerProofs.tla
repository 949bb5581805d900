---------------------------- MODULE PollerProofs ----------------------------
(***************************************************************************)
(* Proofs about the poller, for every number of consumers, workloads,      *)
(* containers, messages and times.                                         *)
(***************************************************************************)
EXTENDS Poller, TLAPS

Working == {"lookup", "exists", "fetch", "save"}

(* A handler at work holds a message it can handle; at its transaction it  *)
(* holds a non-empty answer to that message; at its commit it has decided  *)
(* to commit that message.                                                 *)
HandlerOK ==
    \A p \in Pollers :
       /\ pc[p] \in Working => pos[p] > 0 /\ log[pos[p]] \in Message
       /\ pc[p] = "save" => /\ batch[p] \in Answers(W(p), Msg(p).end)
                            /\ batch[p] # EmptyBatch
       /\ pc[p] = "commit" => pos[p] \in settled

(* What is committed lies behind the point where the group was last        *)
(* started without an offset.  The owner of the partition has read at      *)
(* least what is committed, and every message it has read since that point *)
(* and left has been handled to its end.                                   *)
GroupOK ==
    /\ committed # NoOffset => start <= committed
    /\ owner \in Pollers =>
          /\ committed <= pos[owner]
          /\ start <= pos[owner]
          /\ \A i \in start + 1 .. pos[owner] :
                \/ i \in settled \cup failed
                \/ i = pos[owner] /\ pc[owner] # "idle"

(* Rows and history rows have the names their workload can have.           *)
NamesOK ==
    \A w \in Workloads :
       /\ \A c \in Names : recs[w][c] # Null => c \in NamesOf(w)
       /\ \A h \in hist[w] : h.c \in NamesOf(w)

(* A row of the container history lies in a partition that exists.         *)
HistoryInPartitions ==
    \A w \in Workloads \ NamespaceWorkloads :
       \A h \in hist[w] : h.end \in Times /\ HalfOf[h.end] \in parts

(* With one handler at a time: only the owner handles a message.           *)
OneHandler == \A p \in Pollers : pc[p] # "idle" => owner = p

(* The rows of a workload have different ids.                              *)
IdsDiffer ==
    \A w \in Workloads, c, d \in Names :
       recs[w][c] # Null /\ recs[w][d] # Null /\ c # d =>
          recs[w][c].id # recs[w][d].id

(* What the handler read is still what is stored, unless the workload was  *)
(* deleted; past the check, the report is due.                             *)
Fresh ==
    \A p \in Pollers :
       /\ pc[p] \in {"exists", "fetch", "save"} =>
             \A c \in Names :
                IsFirst(recs[W(p)], c) => stored[p] = recs[W(p)][c].end
       /\ pc[p] \in {"fetch", "save"} => Due(p)

-----------------------------------------------------------------------------
(* The operators of the tables                                             *)

(* End times are numbers, the zero time included.                          *)
LEMMA EndsNat == Ends \subseteq Nat
BY TimesAssumption DEF Ends, ZeroTime

(* An answer is a batch, with items for names of its workload only.        *)
LEMMA AnswersType ==
    ASSUME NEW w \in Workloads, NEW t \in Times, NEW b \in Answers(w, t)
    PROVE  /\ b \in Batches
           /\ \A c \in Names : b[c] # Null => c \in NamesOf(w)
           /\ \A c \in Names : b[c] # Null => b[c] \in Item
           /\ \A c \in Names : b[c] # Null => b[c].end \in AnswerEnds(t)
<1>1. PICK f \in [NamesOf(w) -> [end : AnswerEnds(t), val : Vals] \cup {Null}] :
         b = [c \in Names |-> IF c \in NamesOf(w) THEN f[c] ELSE Null]
  BY DEF Answers
<1>2. AnswerEnds(t) \subseteq Ends
  BY DEF AnswerEnds, Ends
<1>3. [end : AnswerEnds(t), val : Vals] \subseteq Item
  BY <1>2 DEF Item
<1>4. ASSUME NEW c \in Names
      PROVE  b[c] = Null \/ (c \in NamesOf(w) /\ b[c] \in [end : AnswerEnds(t), val : Vals])
  BY <1>1
<1>5. b \in Batches
  BY <1>1, <1>3, <1>4 DEF Batches
<1> QED
  BY <1>3, <1>4, <1>5

(* An upsert of fresh rows keeps the table well typed.                     *)
LEMMA UpsertType ==
    ASSUME NEW rows \in Rows, NEW b \in Batches, NEW ids \in FreshIds(rows, b)
    PROVE  Upsert(rows, b, ids) \in Rows
<1> SUFFICES ASSUME NEW c \in Names
             PROVE  Upsert(rows, b, ids)[c] \in Row \cup {Null}
  BY DEF Upsert, Rows
<1>1. CASE b[c] = Null
  BY <1>1 DEF Upsert, Rows
<1>2. CASE b[c] # Null /\ rows[c] = Null
  <2>1. ids[c] \in RowIds
    BY <1>2 DEF FreshIds
  <2>2. b[c] \in Item
    BY <1>2 DEF Batches
  <2> QED
    BY <1>2, <2>1, <2>2 DEF Upsert, Row, Item
<1>3. CASE b[c] # Null /\ rows[c] # Null
  <2>1. b[c] \in Item /\ rows[c] \in Row
    BY <1>3 DEF Batches, Rows
  <2> QED
    BY <1>3, <2>1 DEF Upsert, Row, Item
<1> QED
  BY <1>1, <1>2, <1>3

(* The history stays a set of history rows.                                *)
LEMMA HistoryType ==
    ASSUME NEW w \in Workloads, NEW old \in SUBSET HistRow, NEW b
    PROVE  HistoryAfter(w, old, b) \in SUBSET HistRow
BY DEF HistoryAfter, Items

(* What a report appends leaves the earlier messages where they are.       *)
LEMMA LogGrows ==
    ASSUME NEW S, NEW s \in Seq(S), NEW n \in Nat, NEW m \in S
    PROVE  LET t == s \o [i \in 1 .. n |-> m]
           IN /\ t \in Seq(S)
              /\ Len(t) = Len(s) + n
              /\ \A i \in 1 .. Len(s) : t[i] = s[i]
<1> DEFINE u == [i \in 1 .. n |-> m]
<1>1. u \in Seq(S) /\ Len(u) = n
  OBVIOUS
<1> QED
  BY <1>1

-----------------------------------------------------------------------------
(* Type correctness                                                        *)

TypeInv == TypeOK /\ HandlerOK

(* The service starts with variables of their types and no handler         *)
(* running.                                                                *)
LEMMA TypeInit == Init => TypeInv
BY MaxMsgsAssumption
   DEF Init, TypeInv, TypeOK, HandlerOK, Rows, Batches, EmptyRows, EmptyBatch,
       Labels, Working

(* No step of a handler, of the group or of another writer breaks the      *)
(* types, nor what a running handler relies on.                            *)
LEMMA TypeStep == TypeInv /\ [Next]_vars => TypeInv'
<1> SUFFICES ASSUME TypeInv, [Next]_vars PROVE TypeInv'
  OBVIOUS
<1> USE DEF TypeInv
<1> EmptyBatch \in Batches
  BY DEF EmptyBatch, Batches
<1> NoRec \in Ends \cup {NoRec}
  OBVIOUS
<1>1. ASSUME NEW p \in Pollers, Receive(p) PROVE TypeInv'
  <2>1. /\ log' = log /\ pos[p] + 1 \in 1 .. Len(log)
        /\ log[pos[p] + 1] \in Message \cup {Poison}
    BY <1>1 DEF Receive, kafkaVars, TypeOK
  <2>2. log[pos[p] + 1] \in Message \/ Unhandled(p, log[pos[p] + 1])
    BY <2>1 DEF Unhandled
  <2>3. TypeOK'
    <3>1. settled' \subseteq 1 .. Len(log)
      <4>1. settled' = settled \/ settled' = settled \cup {pos[p] + 1}
        BY <1>1 DEF Receive
      <4> QED
        BY <2>1, <4>1 DEF TypeOK
    <3>2. pc' \in [Pollers -> Labels] /\ pos' \in [Pollers -> 0 .. Len(log)]
      BY <1>1, <2>1 DEF Receive, TypeOK, GoTo, Labels
    <3> QED
      BY <1>1, <3>1, <3>2 DEF Receive, TypeOK, kafkaVars, storeVars, partVars
  <2>4. HandlerOK'
    BY <1>1, <2>1, <2>2 DEF Receive, TypeOK, HandlerOK, GoTo, kafkaVars, Labels,
       Working, W, Msg
  <2> QED
    BY <2>3, <2>4
<1>2. ASSUME NEW p \in Pollers, Lookup(p) PROVE TypeInv'
  <2>1. W(p) \in Workloads
    BY <1>2 DEF Lookup, HandlerOK, Working, W, Msg, Message
  <2>2. ASSUME NEW c \in Names, IsFirst(recs[W(p)], c)
        PROVE  recs[W(p)][c].end \in Ends
    BY <2>1, <2>2 DEF IsFirst, TypeOK, Rows, Row
  <2>3. TypeOK'
    <3>1. pos[p] \in 1 .. Len(log)
      BY <1>2 DEF Lookup, TypeOK, HandlerOK, Working
    <3>2. settled' \subseteq 1 .. Len(log) /\ failed' \subseteq 1 .. Len(log)
      BY <1>2, <3>1 DEF Lookup, Fail, TypeOK, ghostVars
    <3>3. stored' \in [Pollers -> Ends \cup {NoRec}]
      BY <1>2, <2>2 DEF Lookup, Fail, Forget, TypeOK
    <3>4. pc' \in [Pollers -> Labels] /\ batch' \in [Pollers -> Batches]
          /\ pos' = pos
      BY <1>2, ZenonT(60) DEF Lookup, Fail, Forget, TypeOK, GoTo, Labels
    <3> QED
      BY <1>2, <3>2, <3>3, <3>4 DEF Lookup, TypeOK, kafkaVars, storeVars, partVars
  <2>4. HandlerOK'
    BY <1>2 DEF Lookup, Fail, Forget, TypeOK, HandlerOK, GoTo, kafkaVars,
       ghostVars, Labels, Working, W, Msg
  <2> QED
    BY <2>3, <2>4
<1>3. ASSUME NEW p \in Pollers, Exists(p) PROVE TypeInv'
  <2>3. TypeOK'
    <3>1. pos[p] \in 1 .. Len(log)
      BY <1>3 DEF Exists, TypeOK, HandlerOK, Working
    <3>2. settled' \subseteq 1 .. Len(log) /\ failed' \subseteq 1 .. Len(log)
      BY <1>3, <3>1 DEF Exists, Settle, TypeOK, ghostVars
    <3>3. /\ stored' \in [Pollers -> Ends \cup {NoRec}]
          /\ pc' \in [Pollers -> Labels]
          /\ batch' \in [Pollers -> Batches]
          /\ pos' = pos
      BY <1>3 DEF Exists, Settle, Forget, TypeOK, GoTo, Labels
    <3> QED
      BY <1>3, <3>2, <3>3 DEF Exists, TypeOK, kafkaVars, storeVars, partVars
  <2>4. HandlerOK'
    BY <1>3 DEF Exists, Settle, Forget, TypeOK, HandlerOK, GoTo, kafkaVars,
       ghostVars, Labels, Working, W, Msg
  <2> QED
    BY <2>3, <2>4
<1>4. ASSUME NEW p \in Pollers, Fetch(p) PROVE TypeInv'
  <2>1. W(p) \in Workloads /\ Msg(p).end \in Times
    BY <1>4 DEF Fetch, HandlerOK, Working, W, Msg, Message
  <2>2. Answers(W(p), Msg(p).end) \subseteq Batches
    BY <2>1, AnswersType
  <2>3. TypeOK'
    <3>1. pos[p] \in 1 .. Len(log)
      BY <1>4 DEF Fetch, TypeOK, HandlerOK, Working
    <3>2. settled' \subseteq 1 .. Len(log) /\ failed' \subseteq 1 .. Len(log)
      BY <1>4, <3>1 DEF Fetch, Settle, Fail, TypeOK, ghostVars
    <3>3. /\ stored' \in [Pollers -> Ends \cup {NoRec}]
          /\ pc' \in [Pollers -> Labels]
          /\ batch' \in [Pollers -> Batches]
          /\ pos' = pos
      BY <1>4, <2>2, ZenonT(60)
         DEF Fetch, Settle, Fail, Forget, TypeOK, GoTo, Labels
    <3> QED
      BY <1>4, <3>2, <3>3 DEF Fetch, TypeOK, kafkaVars, storeVars, partVars
  <2>4. HandlerOK'
    BY <1>4 DEF Fetch, Fail, Settle, Forget, TypeOK, HandlerOK, GoTo, kafkaVars,
       ghostVars, Labels, Working, W, Msg
  <2> QED
    BY <2>3, <2>4
<1>5. ASSUME NEW p \in Pollers, Save(p) PROVE TypeInv'
  <2>1. W(p) \in Workloads /\ batch[p] \in Batches /\ pos[p] \in 1 .. Len(log)
    BY <1>5 DEF Save, HandlerOK, Working, W, Msg, Message, TypeOK
  <2>2. recs' \in [Workloads -> Rows]
    <3>1. CASE UNCHANGED storeVars
      BY <3>1 DEF storeVars, TypeOK
    <3>2. CASE Transaction(p)
      BY <3>2, <2>1, UpsertType DEF Transaction, TypeOK
    <3> QED
      BY <1>5, <3>1, <3>2 DEF Save
  <2>3. hist' \in [Workloads -> SUBSET HistRow]
    <3>1. CASE UNCHANGED storeVars
      BY <3>1 DEF storeVars, TypeOK
    <3>2. CASE Transaction(p)
      BY <3>2, <2>1, HistoryType DEF Transaction, TypeOK
    <3> QED
      BY <1>5, <3>1, <3>2 DEF Save
  <2>4. wstate' = wstate
    BY <1>5 DEF Save, Transaction, storeVars
  <2>5. TypeOK'
    BY <1>5, <2>1, <2>2, <2>3, <2>4, ZenonT(60)
       DEF Save, Fail, Settle, Forget, TypeOK, GoTo,
       kafkaVars, partVars, Labels
  <2>6. HandlerOK'
    BY <1>5 DEF Save, Fail, Settle, Forget, TypeOK, HandlerOK, GoTo, kafkaVars,
       Labels, Working, W, Msg
  <2> QED
    BY <2>5, <2>6
<1>6. ASSUME NEW p \in Pollers, Commit(p) PROVE TypeInv'
  BY <1>6 DEF Commit, TypeOK, HandlerOK, GoTo, storeVars, partVars, ghostVars,
     Labels, Working, W, Msg
<1>7. ASSUME NEW p \in Pollers, Assign(p) PROVE TypeInv'
  BY <1>7 DEF Assign, StartOffset, Skip, TypeOK, HandlerOK, storeVars, partVars, ghostVars,
     Labels, Working, W, Msg
<1>8. ASSUME NEW p \in Pollers, Crash(p) PROVE TypeInv'
  BY <1>8 DEF Crash, Forget, GoTo, TypeOK, HandlerOK, storeVars, partVars,
     ghostVars, Labels, Working, W, Msg
<1>9. ASSUME NEW w \in Workloads, NEW t \in Times, NEW n \in Copies,
             Report(w, t, n)
      PROVE  TypeInv'
  <2>1. /\ log' \in Seq(Message \cup {Poison})
        /\ Len(log') = Len(log) + n
        /\ \A i \in 1 .. Len(log) : log'[i] = log[i]
    <3> DEFINE m == [w |-> w, end |-> t]
    <3>1. m \in Message \cup {Poison} /\ log \in Seq(Message \cup {Poison})
      BY DEF Message, TypeOK
    <3>2. log' = log \o [i \in 1 .. n |-> m]
      BY <1>9 DEF Report
    <3>3. n \in Nat
      BY MaxMsgsAssumption
    <3> HIDE DEF m
    <3> DEFINE grown == log \o [i \in 1 .. n |-> m]
    <3>4. /\ grown \in Seq(Message \cup {Poison})
          /\ Len(grown) = Len(log) + n
          /\ \A i \in 1 .. Len(log) : grown[i] = log[i]
      BY <3>1, <3>3, LogGrows, SMTT(60)
    <3>5. log' = grown
      BY <3>2
    <3> HIDE DEF grown
    <3> QED
      BY <3>4, <3>5
  <2>2. HalfOf[t] \in Nat /\ HalfOf[t] - 1 \in Nat
    BY HalfAssumption
  <2>3. TypeOK'
    <3>0. n \in Nat
      BY MaxMsgsAssumption
    <3>1. /\ committed' \in {NoOffset} \cup 0 .. Len(log')
          /\ start' \in 0 .. Len(log')
          /\ pos' \in [Pollers -> 0 .. Len(log')]
          /\ settled' \subseteq 1 .. Len(log')
          /\ failed' \subseteq 1 .. Len(log')
      BY <1>9, <2>1, <3>0 DEF Report, TypeOK, handlerVars, ghostVars
    <3>2. /\ wstate' \in [Workloads -> {"new", "live", "gone"}]
          /\ parts' \subseteq Nat
      BY <1>9, <2>2 DEF Report, TypeOK
    <3> QED
      BY <1>9, <2>1, <3>1, <3>2 DEF Report, TypeOK, handlerVars
  <2>4. HandlerOK'
    <3>1. ASSUME NEW p \in Pollers, pos[p] > 0 PROVE log'[pos[p]] = log[pos[p]]
      BY <2>1, <3>1 DEF TypeOK
    <3> QED
      BY <1>9, <3>1 DEF Report, HandlerOK, handlerVars, ghostVars,
         Working, W, Msg
  <2> QED
    BY <2>3, <2>4
<1>10. ASSUME SendPoison PROVE TypeInv'
  <2>1. /\ log' \in Seq(Message \cup {Poison})
        /\ Len(log') = Len(log) + 1
        /\ \A i \in 1 .. Len(log) : log'[i] = log[i]
    BY <1>10 DEF SendPoison, TypeOK
  <2>2. TypeOK'
    BY <1>10, <2>1 DEF SendPoison, TypeOK, handlerVars, ghostVars, storeVars,
       partVars
  <2>3. HandlerOK'
    BY <1>10, <2>1 DEF SendPoison, TypeOK, HandlerOK, handlerVars, ghostVars,
       Working, W, Msg
  <2> QED
    BY <2>2, <2>3
<1>11. ASSUME NEW k \in Clusters, DeleteCluster(k) PROVE TypeInv'
  <2>1. EmptyRows \in Rows
    BY DEF EmptyRows, Rows
  <2>2. TypeOK'
    BY <1>11, <2>1 DEF DeleteCluster, TypeOK, kafkaVars, handlerVars, ghostVars,
       partVars
  <2>3. HandlerOK'
    BY <1>11 DEF DeleteCluster, HandlerOK, kafkaVars, handlerVars, ghostVars,
       Working, W, Msg
  <2> QED
    BY <2>2, <2>3
<1>12. ASSUME NEW h \in Halves, DropPartitions(h) PROVE TypeInv'
  <2>1. \A w \in Workloads : KeptHistory(w, hist[w], h) \in SUBSET HistRow
    BY DEF KeptHistory, TypeOK
  <2>2. TypeOK'
    BY <1>12, <2>1 DEF DropPartitions, TypeOK, kafkaVars, handlerVars, ghostVars
  <2>3. HandlerOK'
    BY <1>12 DEF DropPartitions, HandlerOK, kafkaVars, handlerVars, ghostVars,
       Working, W, Msg
  <2> QED
    BY <2>2, <2>3
<1>13. ASSUME NEW w \in Workloads, NEW t \in Times, LateRequest(w, t)
       PROVE  TypeInv'
  <2>1. /\ log' \in Seq(Message \cup {Poison})
        /\ Len(log') = Len(log) + 1
        /\ \A i \in 1 .. Len(log) : log'[i] = log[i]
    BY <1>13 DEF LateRequest, TypeOK, Message
  <2>2. TypeOK'
    BY <1>13, <2>1 DEF LateRequest, TypeOK, handlerVars, ghostVars, storeVars,
       partVars
  <2>3. HandlerOK'
    BY <1>13, <2>1 DEF LateRequest, TypeOK, HandlerOK, handlerVars, ghostVars,
       Working, W, Msg
  <2> QED
    BY <2>2, <2>3
<1>14. CASE UNCHANGED vars
  BY <1>14 DEF vars, kafkaVars, handlerVars, ghostVars, storeVars, partVars,
     TypeOK, HandlerOK, Working, W, Msg
<1> QED
  BY <1>1, <1>2, <1>3, <1>4, <1>5, <1>6, <1>7, <1>8, <1>9, <1>10, <1>11, <1>12,
     <1>13, <1>14 DEF Next, Step

(* The poller's variables always have their types: in particular no offset *)
(* ever points outside the log.                                            *)
THEOREM TypeCorrect == Spec => []TypeOK
<1>1. Spec => []TypeInv
  BY TypeInit, TypeStep, PTL DEF Spec
<1>2. TypeInv => TypeOK
  BY DEF TypeInv
<1> QED
  BY <1>1, <1>2, PTL

-----------------------------------------------------------------------------
(* The committed offset                                                    *)

OffsetInv == TypeInv /\ GroupOK /\ CommitSettled /\ NoSilentSkip

(* Nothing is read and nothing is committed at the start.                  *)
LEMMA OffsetInit == Init => OffsetInv
BY TypeInit, PollersAssumption
   DEF Init, OffsetInv, GroupOK, CommitSettled, NoSilentSkip, NoOffset

(* A step that leaves the owner and the offsets alone, and forgets no      *)
(* message that was handled, keeps the invariant if whatever handler of    *)
(* the owner comes to rest leaves its message handled.                     *)
LEMMA OffsetsKept ==
    ASSUME OffsetInv, TypeInv', UNCHANGED <<committed, start, owner, pos>>,
           settled \subseteq settled', failed \subseteq failed',
           ASSUME NEW q \in Pollers, owner = q, pc'[q] = "idle"
           PROVE  pc[q] = "idle" \/ pos[q] \in settled' \cup failed'
    PROVE  OffsetInv'
<1>1. CommitSettled' /\ NoSilentSkip'
  BY DEF OffsetInv, CommitSettled, NoSilentSkip
<1>2. GroupOK'
  <2> SUFFICES ASSUME owner \in Pollers
               PROVE  /\ committed <= pos[owner]
                      /\ start <= pos[owner]
                      /\ \A i \in start + 1 .. pos[owner] :
                            \/ i \in settled' \cup failed'
                            \/ i = pos[owner] /\ pc'[owner] # "idle"
    BY DEF OffsetInv, GroupOK
  <2> QED
    BY DEF OffsetInv, GroupOK
<1> QED
  BY <1>1, <1>2 DEF OffsetInv

(* Every step keeps the committed offset behind the owner and everything   *)
(* the owner has left behind settled or failed.                            *)
LEMMA OffsetStep == OffsetInv /\ [Next]_vars => OffsetInv'
<1> SUFFICES ASSUME OffsetInv, [Next]_vars PROVE OffsetInv'
  OBVIOUS
<1> TypeInv'
  BY TypeStep DEF OffsetInv
<1> TypeOK /\ HandlerOK
  BY DEF OffsetInv, TypeInv
<1>1. ASSUME NEW p \in Pollers, Receive(p) PROVE OffsetInv'
  <2>1. /\ pc[p] = "idle" /\ owner = p /\ owner' = p
        /\ committed' = committed /\ start' = start
        /\ pos'[p] = pos[p] + 1 /\ pc'[p] # "idle"
        /\ settled \subseteq settled' /\ failed' = failed
    BY <1>1 DEF Receive, GoTo, kafkaVars, TypeOK
  <2>2. CommitSettled' /\ NoSilentSkip'
    BY <2>1 DEF OffsetInv, CommitSettled, NoSilentSkip
  <2>3. pos[p] \in Nat /\ committed \in Int /\ start \in Nat
    BY DEF TypeOK, NoOffset
  <2>4. GroupOK'
    <3>1. committed' <= pos'[owner'] /\ start' <= pos'[owner']
      BY <2>1, <2>3 DEF OffsetInv, GroupOK
    <3>2. ASSUME NEW i \in start' + 1 .. pos'[owner'], i # pos'[owner']
          PROVE  i \in settled' \cup failed'
      <4>1. i \in start + 1 .. pos[owner]
        BY <3>2, <2>1, <2>3
      <4> QED
        BY <4>1, <2>1 DEF OffsetInv, GroupOK
    <3> QED
      BY <3>1, <3>2, <2>1 DEF OffsetInv, GroupOK
  <2> QED
    BY <2>2, <2>4 DEF OffsetInv
<1>2. ASSUME NEW p \in Pollers, Lookup(p) \/ Exists(p) \/ Fetch(p) \/ Save(p)
      PROVE  OffsetInv'
  <2>1. CASE Settle(p)
    BY <1>2, <2>1, OffsetsKept DEF Lookup, Exists, Fetch, Save, Settle, GoTo,
       kafkaVars, TypeOK
  <2>2. CASE Fail(p)
    BY <1>2, <2>2, OffsetsKept DEF Lookup, Exists, Fetch, Save, Fail, GoTo,
       kafkaVars, TypeOK
  <2>3. CASE ~Settle(p) /\ ~Fail(p)
    <3>1. /\ UNCHANGED <<pos, ghostVars, kafkaVars>>
          /\ \E l \in {"exists", "fetch", "save"} : GoTo(p, l)
      BY <1>2, <2>3 DEF Lookup, Exists, Fetch, Save
    <3> QED
      BY <3>1, OffsetsKept DEF GoTo, ghostVars, kafkaVars, TypeOK
  <2> QED
    BY <2>1, <2>2, <2>3
<1>3. ASSUME NEW p \in Pollers, Commit(p) PROVE OffsetInv'
  <2>1. pc[p] = "commit" /\ pos[p] \in settled
    BY <1>3 DEF Commit, HandlerOK
  <2>2. CASE committed' = committed
    BY <1>3, <2>1, <2>2, OffsetsKept DEF Commit, GoTo, ghostVars, TypeOK
  <2>3. CASE owner = p /\ committed' = pos[p]
    <3>1. /\ UNCHANGED <<owner, start, pos, settled, failed>>
          /\ \A q \in Pollers : q # p => pc'[q] = pc[q]
      BY <1>3 DEF Commit, GoTo, ghostVars, TypeOK
    <3>2. \A i \in start + 1 .. pos[p] : i \in settled \cup failed
      BY <2>1, <2>3 DEF OffsetInv, GroupOK
    <3>3. CommitSettled' /\ NoSilentSkip'
      BY <2>1, <2>3, <3>1, <3>2 DEF CommitSettled, NoSilentSkip
    <3>4. GroupOK'
      BY <2>3, <3>1, <3>2 DEF OffsetInv, GroupOK, TypeOK
    <3> QED
      BY <3>3, <3>4 DEF OffsetInv
  <2> QED
    BY <1>3, <2>2, <2>3 DEF Commit
<1>4. ASSUME NEW p \in Pollers, Assign(p) PROVE OffsetInv'
  <2>1. /\ owner' = p /\ pos'[p] = StartOffset /\ Skip
        /\ UNCHANGED <<log, committed, settled, failed>>
    BY <1>4 DEF Assign, ghostVars, TypeOK
  <2>2. Len(log) \in Nat /\ committed \in {NoOffset} \cup 0 .. Len(log)
    BY DEF TypeOK
  <2>3. CASE committed = NoOffset
    <3>1. start' = Len(log) /\ pos'[p] = Len(log) /\ committed' = NoOffset
      BY <2>1, <2>3 DEF Skip, StartOffset
    <3>2. CommitSettled' /\ NoSilentSkip'
      BY <2>2, <3>1 DEF CommitSettled, NoSilentSkip, NoOffset
    <3>3. GroupOK'
      BY <2>1, <2>2, <3>1 DEF GroupOK, NoOffset
    <3> QED
      BY <3>2, <3>3 DEF OffsetInv
  <2>4. CASE committed # NoOffset
    <3>1. start' = start /\ pos'[p] = committed
      BY <2>1, <2>4 DEF Skip, StartOffset
    <3>2. CommitSettled' /\ NoSilentSkip'
      BY <2>1, <3>1 DEF OffsetInv, CommitSettled, NoSilentSkip
    <3>3. GroupOK'
      BY <2>1, <2>2, <2>4, <3>1 DEF OffsetInv, GroupOK, NoSilentSkip
    <3> QED
      BY <3>2, <3>3 DEF OffsetInv
  <2> QED
    BY <2>3, <2>4
<1>5. ASSUME NEW p \in Pollers, Crash(p) PROVE OffsetInv'
  <2>1. UNCHANGED <<committed, start, settled, failed>>
    BY <1>5 DEF Crash, ghostVars
  <2>2. CommitSettled' /\ NoSilentSkip'
    BY <2>1 DEF OffsetInv, CommitSettled, NoSilentSkip
  <2>3. CASE owner = p
    BY <1>5, <2>2, <2>3, PollersAssumption DEF Crash, OffsetInv, GroupOK
  <2>4. CASE owner # p
    <3>1. /\ owner' = owner
          /\ \A q \in Pollers : q # p => pc'[q] = pc[q] /\ pos'[q] = pos[q]
      BY <1>5, <2>4 DEF Crash, GoTo, TypeOK
    <3>2. GroupOK'
      BY <2>1, <2>4, <3>1 DEF OffsetInv, GroupOK
    <3> QED
      BY <2>2, <3>2 DEF OffsetInv
  <2> QED
    BY <2>3, <2>4
<1>6. ASSUME \/ \E w \in Workloads, t \in Times, n \in Copies : Report(w, t, n)
             \/ \E w \in Workloads, t \in Times : LateRequest(w, t)
             \/ SendPoison
             \/ \E k \in Clusters : DeleteCluster(k)
             \/ \E h \in Halves : DropPartitions(h)
             \/ UNCHANGED vars
      PROVE  OffsetInv'
  <2>1. UNCHANGED <<committed, start, owner, pos, pc, settled, failed>>
    BY <1>6 DEF Report, SendPoison, LateRequest, DeleteCluster, DropPartitions, vars,
       kafkaVars, handlerVars, ghostVars
  <2> QED
    BY <2>1, OffsetsKept
<1> QED
  BY <1>1, <1>2, <1>3, <1>4, <1>5, <1>6 DEF Next, Step

(* The committed offset always points just past a message that a handler   *)
(* decided to commit, for any number of consumers that crash, lose the     *)
(* partition or outlast their lease on it.                                 *)
THEOREM CommitsAreSettled == Spec => []CommitSettled
<1>1. Spec => []OffsetInv
  BY OffsetInit, OffsetStep, PTL DEF Spec
<1>2. OffsetInv => CommitSettled
  BY DEF OffsetInv
<1> QED
  BY <1>1, <1>2, PTL

(* The group never commits past a message no handler ran to its end, but   *)
(* for those that were in the log when a consumer was assigned the         *)
(* partition before the group's first commit.                              *)
THEOREM NothingIsSkipped == Spec => []NoSilentSkip
<1>1. Spec => []OffsetInv
  BY OffsetInit, OffsetStep, PTL DEF Spec
<1>2. OffsetInv => NoSilentSkip
  BY DEF OffsetInv
<1> QED
  BY <1>1, <1>2, PTL

(* The committed offset never goes back.                                   *)
THEOREM OffsetsOnlyAdvance == Spec => CommittedMonotone
<1>1. Spec => []OffsetInv
  BY OffsetInit, OffsetStep, PTL DEF Spec
<1>2. OffsetInv /\ [Next]_vars => [committed' >= committed]_vars
  <2> SUFFICES ASSUME OffsetInv, Next PROVE committed' >= committed
    OBVIOUS
  <2>1. committed \in Int
    BY DEF OffsetInv, TypeInv, TypeOK, NoOffset
  <2>2. CASE committed' = committed
    BY <2>1, <2>2
  <2>3. CASE committed' # committed
    <3>1. PICK p \in Pollers : Commit(p)
      BY <2>3 DEF Next, Step, Receive, Lookup, Exists, Fetch, Save, Assign, Crash,
         Report, SendPoison, LateRequest, DeleteCluster, DropPartitions, kafkaVars
    <3>2. owner = p /\ committed' = pos[p]
      BY <2>3, <3>1 DEF Commit
    <3> QED
      BY <3>2 DEF OffsetInv, GroupOK, TypeInv, TypeOK
  <2> QED
    BY <2>2, <2>3
<1> QED
  BY <1>1, <1>2, PTL DEF Spec, CommittedMonotone

-----------------------------------------------------------------------------
(* Current recommendations, their history, and the life of a workload      *)

(* One row c of workload w is in the history H, or was lost with D.        *)
CoveredRow(w, row, c, H, D) ==
    \/ \E h \in H :
          /\ h.c = c
          /\ h.end = row.end
          /\ w \notin NamespaceWorkloads => h.val = row.val
    \/ /\ w \notin NamespaceWorkloads
       /\ HalfOf[row.end] \in D

StoreInv ==
    /\ TypeInv
    /\ NamesOK
    /\ HistoryInPartitions
    /\ NoOrphanRows
    /\ ContainerEndNeverZero
    /\ HistoryCoversCurrent

(* The tables start empty.                                                 *)
LEMMA StoreInit == Init => StoreInv
BY TypeInit DEF Init, StoreInv, NamesOK, HistoryInPartitions, NoOrphanRows,
   ContainerEndNeverZero, HistoryCoversCurrent, EmptyRows

(* The items of a batch are in the history a save leaves behind, and the   *)
(* rows it does not touch are still there.                                 *)
LEMMA SaveCovers ==
    ASSUME NEW w \in Workloads, NEW rows \in Rows, NEW H \in SUBSET HistRow,
           NEW D, NEW b \in Batches, NEW ids,
           \A c \in Names : b[c] # Null => c \in NamesOf(w),
           \A c \in Names : rows[c] # Null => c \in NamesOf(w),
           \A h \in H : h.c \in NamesOf(w),
           \A c \in Names : rows[c] # Null => CoveredRow(w, rows[c], c, H, D),
           NEW c \in Names, Upsert(rows, b, ids)[c] # Null
    PROVE  CoveredRow(w, Upsert(rows, b, ids)[c], c, HistoryAfter(w, H, b), D)
<1> DEFINE row == Upsert(rows, b, ids)[c]
<1>1. CASE b[c] # Null
  <2>1. b[c] \in Item
    BY <1>1 DEF Batches
  <2>2. row.end = b[c].end /\ row.val = b[c].val
    BY <1>1 DEF Upsert
  <2> DEFINE h == [c |-> c, end |-> b[c].end, val |-> b[c].val]
  <2>3. h \in HistRow /\ h \in Items(b)
    BY <1>1, <2>1 DEF HistRow, Item, Items
  <2>4. CASE w \in NamespaceWorkloads
    <3>1. c = Namespace /\ \A o \in H : o.c = Namespace
      BY <1>1, <2>4 DEF NamesOf
    <3>2. \E o \in HistoryAfter(w, H, b) : o.c = c /\ o.end = b[c].end
      BY <2>3, <2>4, <3>1 DEF HistoryAfter
    <3> QED
      BY <2>2, <2>4, <3>2 DEF CoveredRow
  <2>5. CASE w \notin NamespaceWorkloads
    <3>1. h \in HistoryAfter(w, H, b)
      BY <2>3, <2>5 DEF HistoryAfter
    <3> QED
      BY <2>2, <3>1 DEF CoveredRow
  <2> QED
    BY <2>4, <2>5
<1>2. CASE b[c] = Null
  <2>1. row = rows[c] /\ rows[c] # Null
    BY <1>2 DEF Upsert
  <2>2. CoveredRow(w, rows[c], c, H, D)
    BY <2>1
  <2>3. \A h \in H : h.c = c => h \in HistoryAfter(w, H, b)
    BY <1>2 DEF HistoryAfter, Items
  <2> QED
    BY <2>1, <2>2, <2>3 DEF CoveredRow
<1> QED
  BY <1>1, <1>2

(* A step that leaves the tables alone keeps what is said of them.         *)
LEMMA StoreKept ==
    ASSUME StoreInv, TypeInv', UNCHANGED <<recs, hist, dropped>>,
           parts \subseteq parts',
           \A w \in Workloads : wstate[w] = "live" => wstate'[w] = "live"
    PROVE  StoreInv'
BY DEF StoreInv, NamesOK, HistoryInPartitions, NoOrphanRows,
   ContainerEndNeverZero, HistoryCoversCurrent

(* Every step keeps the tables consistent: the transaction writes history  *)
(* with the rows, deletion takes both, retention records what it drops.    *)
LEMMA StoreStep == StoreInv /\ [Next]_vars => StoreInv'
<1> SUFFICES ASSUME StoreInv, [Next]_vars PROVE StoreInv'
  OBVIOUS
<1> TypeInv'
  BY TypeStep DEF StoreInv
<1> TypeOK /\ HandlerOK
  BY DEF StoreInv, TypeInv
<1>1. ASSUME \/ \E p \in Pollers : \/ Receive(p) \/ Lookup(p) \/ Exists(p)
                                   \/ Fetch(p) \/ Commit(p) \/ Assign(p)
                                   \/ Crash(p)
             \/ \E w \in Workloads, t \in Times : LateRequest(w, t)
             \/ SendPoison
             \/ UNCHANGED vars
      PROVE  StoreInv'
  <2>1. UNCHANGED <<wstate, recs, hist, parts, dropped>>
    BY <1>1 DEF Receive, Lookup, Exists, Fetch, Commit, Assign, Crash, SendPoison,
       LateRequest, vars, storeVars, partVars
  <2> QED
    BY <2>1, StoreKept
<1>2. ASSUME NEW w \in Workloads, NEW t \in Times, NEW n \in Copies,
             Report(w, t, n)
      PROVE  StoreInv'
  BY <1>2, StoreKept DEF Report, TypeOK
<1>3. ASSUME NEW p \in Pollers, Save(p) PROVE StoreInv'
  <2>1. CASE UNCHANGED storeVars
    BY <1>3, <2>1, StoreKept DEF Save, storeVars, partVars
  <2>2. CASE Transaction(p)
    <3> DEFINE w == W(p)
               b == batch[p]
    <3>1. /\ w \in Workloads /\ Msg(p).end \in Times
          /\ b \in Answers(w, Msg(p).end)
      BY <1>3 DEF Save, HandlerOK, Working, W, Msg, Message
    <3>2. /\ b \in Batches
          /\ \A c \in Names : b[c] # Null => c \in NamesOf(w)
          /\ \A c \in Names : b[c] # Null => b[c] \in Item
      BY <3>1, AnswersType
    <3>3. PICK ids \in FreshIds(recs[w], b) :
             recs' = [recs EXCEPT ![w] = Upsert(recs[w], b, ids)]
      BY <2>2 DEF Transaction
    <3>4. /\ hist' = [hist EXCEPT ![w] = HistoryAfter(w, hist[w], b)]
          /\ UNCHANGED <<wstate, parts, dropped>>
          /\ wstate[w] = "live"
          /\ \A c \in Names : b[c] # Null => HasPartition(w, b[c].end, parts)
      BY <1>3, <2>2 DEF Transaction, Save, partVars, CanCommit
    <3>5. /\ recs'[w] = Upsert(recs[w], b, ids)
          /\ hist'[w] = HistoryAfter(w, hist[w], b)
          /\ recs[w] \in Rows /\ hist[w] \in SUBSET HistRow
      BY <3>1, <3>3, <3>4 DEF TypeOK
    <3>6. \A u \in Workloads : u # w => recs'[u] = recs[u] /\ hist'[u] = hist[u]
      BY <3>3, <3>4 DEF TypeOK
    <3> HIDE DEF w, b
    <3>7. NamesOK'
      <4>1. \A c \in Names : recs'[w][c] # Null => c \in NamesOf(w)
        BY <3>1, <3>2, <3>5 DEF Upsert, StoreInv, NamesOK
      <4>2. \A h \in hist'[w] : h.c \in NamesOf(w)
        BY <3>1, <3>2, <3>5 DEF HistoryAfter, Items, StoreInv, NamesOK, HistRow
      <4> QED
        BY <4>1, <4>2, <3>6 DEF StoreInv, NamesOK
    <3>8. NoOrphanRows'
      BY <3>4, <3>6 DEF StoreInv, NoOrphanRows
    <3>9. ContainerEndNeverZero'
      <4>1. ASSUME w \notin NamespaceWorkloads, NEW c \in Names, recs'[w][c] # Null
            PROVE  recs'[w][c].end # ZeroTime
        <5>1. CASE b[c] = Null
          BY <3>1, <3>5, <4>1, <5>1 DEF Upsert, StoreInv, ContainerEndNeverZero
        <5>2. CASE b[c] # Null
          <6>1. b[c].end \in Times
            BY <3>4, <4>1, <5>2 DEF HasPartition
          <6>2. recs'[w][c].end = b[c].end
            BY <3>5, <5>2 DEF Upsert
          <6> QED
            BY <6>1, <6>2, TimesAssumption
        <5> QED
          BY <5>1, <5>2
      <4> QED
        BY <4>1, <3>6 DEF StoreInv, ContainerEndNeverZero
    <3>10. HistoryCoversCurrent'
      <4>1. \A c \in Names :
               recs[w][c] # Null => CoveredRow(w, recs[w][c], c, hist[w], dropped)
        BY <3>1 DEF StoreInv, HistoryCoversCurrent, CoveredRow
      <4>2. ASSUME NEW c \in Names, recs'[w][c] # Null
            PROVE  CoveredRow(w, recs'[w][c], c, hist'[w], dropped')
        <5>1. /\ \A d \in Names : recs[w][d] # Null => d \in NamesOf(w)
              /\ \A h \in hist[w] : h.c \in NamesOf(w)
          BY <3>1 DEF StoreInv, NamesOK
        <5> QED
          BY <3>1, <3>2, <3>4, <3>5, <4>1, <4>2, <5>1, SaveCovers
      <4> QED
        BY <4>2, <3>4, <3>6 DEF StoreInv, HistoryCoversCurrent, CoveredRow
    <3>11. HistoryInPartitions'
      <4>1. ASSUME w \notin NamespaceWorkloads, NEW h \in hist'[w]
            PROVE  h.end \in Times /\ HalfOf[h.end] \in parts
        <5>1. CASE h \in hist[w]
          BY <3>1, <4>1, <5>1 DEF StoreInv, HistoryInPartitions
        <5>2. CASE h \in Items(b)
          <6>1. h.c \in Names /\ b[h.c] # Null /\ h.end = b[h.c].end
            BY <5>2 DEF Items, HistRow
          <6> QED
            BY <3>4, <4>1, <6>1 DEF HasPartition
        <5> QED
          BY <3>5, <4>1, <5>1, <5>2 DEF HistoryAfter
      <4> QED
        BY <4>1, <3>4, <3>6 DEF StoreInv, HistoryInPartitions
    <3> QED
      BY <3>7, <3>8, <3>9, <3>10, <3>11 DEF StoreInv
  <2> QED
    BY <1>3, <2>1, <2>2 DEF Save
<1>4. ASSUME NEW k \in Clusters, DeleteCluster(k) PROVE StoreInv'
  <2> DEFINE doomed == {w \in Workloads : ClusterOf[w] = k /\ wstate[w] = "live"}
  <2>1. ASSUME NEW w \in Workloads
        PROVE  \/ w \in doomed /\ recs'[w] = EmptyRows /\ hist'[w] = {}
               \/ recs'[w] = recs[w] /\ hist'[w] = hist[w] /\ wstate'[w] = wstate[w]
    BY <1>4 DEF DeleteCluster
  <2>2. UNCHANGED <<parts, dropped>>
    BY <1>4 DEF DeleteCluster, partVars
  <2>3. \A c \in Names : EmptyRows[c] = Null
    BY DEF EmptyRows
  <2> QED
    BY <2>1, <2>2, <2>3 DEF StoreInv, NamesOK, HistoryInPartitions, NoOrphanRows,
       ContainerEndNeverZero, HistoryCoversCurrent
<1>5. ASSUME NEW h \in Halves, DropPartitions(h) PROVE StoreInv'
  <2>1. /\ UNCHANGED <<recs, wstate>>
        /\ parts' = {x \in parts : x >= h}
        /\ dropped' = dropped \cup {x \in parts : x < h}
        /\ \A w \in Workloads : hist'[w] = KeptHistory(w, hist[w], h)
    BY <1>5 DEF DropPartitions
  <2>2. NamesOK' /\ NoOrphanRows' /\ ContainerEndNeverZero'
    BY <2>1 DEF StoreInv, NamesOK, NoOrphanRows, ContainerEndNeverZero, KeptHistory
  <2>3. HistoryCoversCurrent'
    <3> SUFFICES ASSUME NEW w \in Workloads, NEW c \in Names, recs[w][c] # Null
                 PROVE  CoveredRow(w, recs[w][c], c, hist'[w], dropped')
      BY <2>1 DEF HistoryCoversCurrent, CoveredRow
    <3>1. CoveredRow(w, recs[w][c], c, hist[w], dropped)
      BY DEF StoreInv, HistoryCoversCurrent, CoveredRow
    <3>2. CASE w \in NamespaceWorkloads
      BY <2>1, <3>1, <3>2 DEF CoveredRow, KeptHistory
    <3>3. CASE w \notin NamespaceWorkloads /\ HalfOf[recs[w][c].end] \in dropped
      BY <2>1, <3>3 DEF CoveredRow
    <3>4. CASE w \notin NamespaceWorkloads /\ HalfOf[recs[w][c].end] \notin dropped
      <4>1. PICK o \in hist[w] : /\ o.c = c /\ o.end = recs[w][c].end
                                 /\ o.val = recs[w][c].val
        BY <3>1, <3>4 DEF CoveredRow
      <4>2. o.end \in Times /\ HalfOf[o.end] \in parts
        BY <3>4 DEF StoreInv, HistoryInPartitions
      <4>3. HalfOf[o.end] \in Nat /\ h \in Nat
        BY <4>2, HalfAssumption DEF Halves
      <4>4. CASE HalfOf[o.end] >= h
        <5>1. o \in hist'[w]
          BY <2>1, <3>4, <4>2, <4>4 DEF KeptHistory
        <5> QED
          BY <3>4, <4>1, <5>1 DEF CoveredRow
      <4>5. CASE HalfOf[o.end] < h
        BY <2>1, <3>4, <4>1, <4>2, <4>5 DEF CoveredRow
      <4> QED
        BY <4>3, <4>4, <4>5
    <3> QED
      BY <3>2, <3>3, <3>4
  <2>4. HistoryInPartitions'
    BY <2>1 DEF StoreInv, HistoryInPartitions, KeptHistory
  <2> QED
    BY <2>2, <2>3, <2>4 DEF StoreInv
<1> QED
  BY <1>1, <1>2, <1>3, <1>4, <1>5 DEF Next, Step

(* Every current recommendation has its row in the history, or had it in a *)
(* partition that retention dropped: saves, redelivered saves, saves of    *)
(* handlers that lost the partition, deletions and the retention job never *)
(* leave a current row whose history was not written.                      *)
THEOREM HistoryIsKept == Spec => []HistoryCoversCurrent
<1>1. Spec => []StoreInv
  BY StoreInit, StoreStep, PTL DEF Spec
<1>2. StoreInv => HistoryCoversCurrent
  BY DEF StoreInv
<1> QED
  BY <1>1, <1>2, PTL

(* No handler, however late, writes a row for a workload that the          *)
(* housekeeper has deleted.                                                *)
THEOREM DeletedStaysDeleted == Spec => []NoOrphanRows
<1>1. Spec => []StoreInv
  BY StoreInit, StoreStep, PTL DEF Spec
<1>2. StoreInv => NoOrphanRows
  BY DEF StoreInv
<1> QED
  BY <1>1, <1>2, PTL

(* A container row never carries the zero end time, even when Kruize       *)
(* leaves it out.                                                          *)
THEOREM ContainersNeverStick == Spec => []ContainerEndNeverZero
<1>1. Spec => []StoreInv
  BY StoreInit, StoreStep, PTL DEF Spec
<1>2. StoreInv => ContainerEndNeverZero
  BY DEF StoreInv
<1> QED
  BY <1>1, <1>2, PTL

-----------------------------------------------------------------------------
(* One handler at a time: check and save are atomic                        *)

AtomicInv == TypeInv /\ OneHandler /\ IdsDiffer /\ Fresh

(* At the start no handler runs and no row has an id.                      *)
LEMMA AtomicInit == Init => AtomicInv
BY TypeInit DEF Init, AtomicInv, OneHandler, IdsDiffer, Fresh, EmptyRows

(* A workload has one first row.                                           *)
LEMMA OneFirst ==
    ASSUME TypeInv, IdsDiffer, NEW w \in Workloads, NEW c \in Names,
           NEW d \in Names, IsFirst(recs[w], c), IsFirst(recs[w], d)
    PROVE  c = d
<1>1. recs[w] \in Rows
  BY DEF TypeInv, TypeOK
<1>2. recs[w][c] # Null /\ recs[w][d] # Null
  BY DEF IsFirst
<1>3. recs[w][c].id \in Nat /\ recs[w][d].id \in Nat
  BY <1>1, <1>2, RowIdsAssumption DEF Rows, Row
<1>4. recs[w][c].id <= recs[w][d].id /\ recs[w][d].id <= recs[w][c].id
  BY <1>2 DEF IsFirst
<1> QED
  BY <1>2, <1>3, <1>4 DEF IdsDiffer

(* A transaction gives new rows ids of their own.                          *)
LEMMA UpsertIds ==
    ASSUME NEW rows \in Rows, NEW b \in Batches, NEW ids \in FreshIds(rows, b),
           \A c, d \in Names : rows[c] # Null /\ rows[d] # Null /\ c # d =>
                                  rows[c].id # rows[d].id,
           NEW c \in Names, NEW d \in Names, c # d,
           Upsert(rows, b, ids)[c] # Null, Upsert(rows, b, ids)[d] # Null
    PROVE  Upsert(rows, b, ids)[c].id # Upsert(rows, b, ids)[d].id
<1> DEFINE new == {e \in Names : b[e] # Null /\ rows[e] = Null}
<1>1. /\ \A e, f \in new : e # f => ids[e] # ids[f]
      /\ \A e \in new, f \in Names : rows[f] # Null => ids[e] # rows[f].id
  BY DEF FreshIds
<1>2. ASSUME NEW e \in Names, Upsert(rows, b, ids)[e] # Null
      PROVE  \/ e \in new /\ Upsert(rows, b, ids)[e].id = ids[e]
             \/ rows[e] # Null /\ Upsert(rows, b, ids)[e].id = rows[e].id
  BY <1>2 DEF Upsert
<1>3. \/ c \in new /\ Upsert(rows, b, ids)[c].id = ids[c]
      \/ rows[c] # Null /\ Upsert(rows, b, ids)[c].id = rows[c].id
  BY <1>2
<1>4. \/ d \in new /\ Upsert(rows, b, ids)[d].id = ids[d]
      \/ rows[d] # Null /\ Upsert(rows, b, ids)[d].id = rows[d].id
  BY <1>2
<1> QED
  BY <1>1, <1>3, <1>4

(* While no handler outlasts its lease, nobody renews the rows between a   *)
(* handler's read and its transaction.                                     *)
LEMMA AtomicStep == ~Outlast /\ AtomicInv /\ [Next]_vars => AtomicInv'
<1> SUFFICES ASSUME ~Outlast, AtomicInv, [Next]_vars PROVE AtomicInv'
  OBVIOUS
<1> TypeInv'
  BY TypeStep DEF AtomicInv
<1> TypeOK /\ HandlerOK /\ TypeInv
  BY DEF AtomicInv, TypeInv
<1>a. \A q \in Pollers : pc[q] \in Working =>
         W(q) \in Workloads /\ log[pos[q]] \in Message /\ pos[q] \in 1 .. Len(log)
  BY DEF HandlerOK, TypeOK, W, Msg, Message, Working
<1>1. ASSUME NEW p \in Pollers, Receive(p) PROVE AtomicInv'
  <2>1. /\ UNCHANGED <<owner, log, recs, stored>> /\ owner = p
        /\ pc'[p] \in {"lookup", "commit"}
        /\ \A q \in Pollers : q # p => pc'[q] = pc[q] /\ pos'[q] = pos[q]
    BY <1>1 DEF Receive, GoTo, kafkaVars, storeVars, TypeOK
  <2> QED
    BY <2>1 DEF AtomicInv, OneHandler, IdsDiffer, Fresh, W, Msg, Due
<1>2. ASSUME NEW p \in Pollers, Lookup(p) PROVE AtomicInv'
  <2>1. /\ UNCHANGED <<owner, log, recs, pos>> /\ pc[p] = "lookup"
        /\ pc'[p] \in {"idle", "exists"}
        /\ \A q \in Pollers : q # p => pc'[q] = pc[q] /\ stored'[q] = stored[q]
    BY <1>2 DEF Lookup, Fail, Forget, GoTo, kafkaVars, storeVars, ghostVars, TypeOK
  <2>2. OneHandler' /\ IdsDiffer'
    BY <2>1 DEF AtomicInv, OneHandler, IdsDiffer
  <2>3. ASSUME pc'[p] = "exists", NEW c \in Names, IsFirst(recs[W(p)], c)
        PROVE  stored'[p] = recs[W(p)][c].end
    <3>1. W(p) \in Workloads
      BY <1>a, <2>1 DEF Working
    <3>2. ~Fail(p)
      BY <2>3 DEF Fail, GoTo, TypeOK
    <3>3. PICK d \in Names : /\ IsFirst(recs[W(p)], d)
                             /\ stored' = [stored EXCEPT ![p] = recs[W(p)][d].end]
      BY <1>2, <2>3, <3>2 DEF Lookup
    <3>4. d = c
      BY <3>1, <3>3, <2>3, OneFirst DEF AtomicInv
    <3> QED
      BY <3>3, <3>4 DEF TypeOK
  <2>4. Fresh'
    BY <2>1, <2>3 DEF AtomicInv, Fresh, W, Msg, Due
  <2> QED
    BY <2>2, <2>4 DEF AtomicInv
<1>3. ASSUME NEW p \in Pollers, Exists(p) PROVE AtomicInv'
  <2>1. /\ UNCHANGED <<owner, log, recs, pos>> /\ pc[p] = "exists"
        /\ \/ pc'[p] = "commit"
           \/ pc'[p] = "fetch" /\ Due(p) /\ stored'[p] = stored[p]
        /\ \A q \in Pollers : q # p => pc'[q] = pc[q] /\ stored'[q] = stored[q]
    BY <1>3 DEF Exists, Settle, Forget, GoTo, kafkaVars, storeVars, TypeOK
  <2>2. OneHandler' /\ IdsDiffer'
    BY <2>1 DEF AtomicInv, OneHandler, IdsDiffer
  <2>3. Fresh'
    BY <2>1 DEF AtomicInv, Fresh, W, Msg, Due
  <2> QED
    BY <2>2, <2>3 DEF AtomicInv
<1>4. ASSUME NEW p \in Pollers, Fetch(p) PROVE AtomicInv'
  <2>1. /\ UNCHANGED <<owner, log, recs, pos>> /\ pc[p] = "fetch"
        /\ \/ pc'[p] \in {"commit", "idle"}
           \/ pc'[p] = "save" /\ stored'[p] = stored[p]
        /\ \A q \in Pollers : q # p => pc'[q] = pc[q] /\ stored'[q] = stored[q]
    BY <1>4 DEF Fetch, Fail, Settle, Forget, GoTo, kafkaVars, storeVars, TypeOK
  <2>2. OneHandler' /\ IdsDiffer'
    BY <2>1 DEF AtomicInv, OneHandler, IdsDiffer
  <2>3. Fresh'
    BY <2>1 DEF AtomicInv, Fresh, W, Msg, Due
  <2> QED
    BY <2>2, <2>3 DEF AtomicInv
<1>5. ASSUME NEW p \in Pollers, Save(p) PROVE AtomicInv'
  <2>1. /\ UNCHANGED <<owner, log, pos>> /\ pc[p] = "save"
        /\ pc'[p] \in {"commit", "idle"}
        /\ \A q \in Pollers : q # p => pc'[q] = pc[q]
    BY <1>5 DEF Save, Fail, Settle, Forget, GoTo, kafkaVars, TypeOK
  <2>2. owner = p /\ \A q \in Pollers : q # p => pc[q] = "idle"
    BY <2>1 DEF AtomicInv, OneHandler
  <2>3. OneHandler' /\ Fresh'
    BY <2>1, <2>2 DEF OneHandler, Fresh
  <2>4. IdsDiffer'
    <3>1. CASE UNCHANGED storeVars
      BY <3>1 DEF storeVars, AtomicInv, IdsDiffer
    <3>2. CASE Transaction(p)
      <4>1. W(p) \in Workloads /\ batch[p] \in Batches /\ recs[W(p)] \in Rows
        BY <1>a, <2>1 DEF Working, TypeOK
      <4>2. PICK ids \in FreshIds(recs[W(p)], batch[p]) :
               recs' = [recs EXCEPT ![W(p)] = Upsert(recs[W(p)], batch[p], ids)]
        BY <3>2 DEF Transaction
      <4>3. recs'[W(p)] = Upsert(recs[W(p)], batch[p], ids)
            /\ \A u \in Workloads : u # W(p) => recs'[u] = recs[u]
        BY <4>1, <4>2 DEF TypeOK
      <4>4. \A c, d \in Names :
               recs[W(p)][c] # Null /\ recs[W(p)][d] # Null /\ c # d =>
                  recs[W(p)][c].id # recs[W(p)][d].id
        BY <4>1 DEF AtomicInv, IdsDiffer
      <4>5. \A c, d \in Names :
               recs'[W(p)][c] # Null /\ recs'[W(p)][d] # Null /\ c # d =>
                  recs'[W(p)][c].id # recs'[W(p)][d].id
        BY <4>1, <4>3, <4>4, UpsertIds
      <4> QED
        BY <4>3, <4>5 DEF AtomicInv, IdsDiffer
    <3> QED
      BY <1>5, <3>1, <3>2 DEF Save
  <2> QED
    BY <2>3, <2>4 DEF AtomicInv
<1>6. ASSUME NEW p \in Pollers, Commit(p) \/ Assign(p) \/ Crash(p)
      PROVE  AtomicInv'
  <2>1. /\ UNCHANGED <<log, recs>> /\ pc'[p] = "idle"
        /\ \A q \in Pollers : q # p => /\ pc'[q] = pc[q] /\ stored'[q] = stored[q]
                                       /\ pos'[q] = pos[q]
    BY <1>6 DEF Commit, Assign, Crash, Forget, GoTo, storeVars, TypeOK
  <2>2. OneHandler'
    BY <1>6, <2>1, PollersAssumption
       DEF Commit, Assign, Crash, AtomicInv, OneHandler, TypeOK
  <2>3. IdsDiffer' /\ Fresh'
    BY <2>1 DEF AtomicInv, IdsDiffer, Fresh, W, Msg, Due
  <2> QED
    BY <2>2, <2>3 DEF AtomicInv
<1>7. ASSUME \/ \E w \in Workloads, t \in Times, n \in Copies : Report(w, t, n)
             \/ \E w \in Workloads, t \in Times : LateRequest(w, t)
             \/ SendPoison
      PROVE  AtomicInv'
  <2>1. /\ UNCHANGED <<owner, recs, pc, pos, stored>>
        /\ \A i \in 1 .. Len(log) : log'[i] = log[i]
    <3>1. CASE SendPoison
      BY <3>1 DEF SendPoison, handlerVars, storeVars, TypeOK
    <3>3. ASSUME NEW w \in Workloads, NEW t \in Times, LateRequest(w, t)
          PROVE  /\ UNCHANGED <<owner, recs, pc, pos, stored>>
                 /\ \A i \in 1 .. Len(log) : log'[i] = log[i]
      BY <3>3 DEF LateRequest, handlerVars, storeVars, TypeOK, Message
    <3>2. ASSUME NEW w \in Workloads, NEW t \in Times, NEW n \in Copies,
                 Report(w, t, n)
          PROVE  /\ UNCHANGED <<owner, recs, pc, pos, stored>>
                 /\ \A i \in 1 .. Len(log) : log'[i] = log[i]
      <4> DEFINE m == [w |-> w, end |-> t]
      <4>1. m \in Message \cup {Poison} /\ log \in Seq(Message \cup {Poison})
        BY DEF Message, TypeOK
      <4>2. /\ log' = log \o [i \in 1 .. n |-> m]
            /\ UNCHANGED <<owner, recs, pc, pos, stored>>
        BY <3>2 DEF Report, handlerVars
      <4> HIDE DEF m
      <4> QED
        BY <4>1, <4>2, LogGrows
    <3> QED
      BY <1>7, <3>1, <3>2, <3>3
  <2>2. \A q \in Pollers : pc[q] \in Working => log'[pos[q]] = log[pos[q]]
    BY <1>a, <2>1
  <2> QED
    BY <2>1, <2>2 DEF AtomicInv, OneHandler, IdsDiffer, Fresh, W, Msg, Due, Working
<1>8. ASSUME \/ \E k \in Clusters : DeleteCluster(k)
             \/ \E h \in Halves : DropPartitions(h)
             \/ UNCHANGED vars
      PROVE  AtomicInv'
  <2>1. /\ UNCHANGED <<owner, log, pc, pos, stored>>
        /\ \A w \in Workloads : recs'[w] \in {recs[w], EmptyRows}
    BY <1>8 DEF DeleteCluster, DropPartitions, vars, kafkaVars, handlerVars, storeVars
  <2>2. \A c \in Names : EmptyRows[c] = Null
    BY DEF EmptyRows
  <2>3. OneHandler' /\ IdsDiffer'
    BY <2>1, <2>2 DEF AtomicInv, OneHandler, IdsDiffer
  <2>4. Fresh'
    BY <1>a, <2>1, <2>2 DEF AtomicInv, Fresh, W, Msg, Due, IsFirst, Working
  <2> QED
    BY <2>3, <2>4 DEF AtomicInv
<1> QED
  BY <1>1, <1>2, <1>3, <1>4, <1>5, <1>6, <1>7, <1>8 DEF Next, Step

(* When a transaction commits, the first row is due and so is older than   *)
(* the report.                                                             *)
LEMMA DueAtSave ==
    ASSUME AtomicInv, NEW p \in Pollers, pc[p] = "save", NEW c \in Names,
           IsFirst(recs[W(p)], c)
    PROVE  NeedsPoll(recs[W(p)][c].end, Msg(p).end)
<1>1. W(p) \in Workloads
  BY DEF AtomicInv, TypeInv, HandlerOK, Working, W, Msg, Message
<1>2. recs[W(p)][c].end \in Ends
  BY <1>1 DEF AtomicInv, TypeInv, TypeOK, IsFirst, Rows, Row
<1>3. stored[p] = recs[W(p)][c].end /\ Due(p)
  BY DEF AtomicInv, Fresh
<1>4. stored[p] # NoRec
  BY <1>2, <1>3, TimesAssumption DEF Ends, ZeroTime, NoRec
<1> QED
  BY <1>3, <1>4 DEF Due

(* A row that is due for a report ends before that report: the decision    *)
(* never lets an older report replace a newer first row.                   *)
LEMMA DueIsOlder ==
    ASSUME NEW last \in Ends, NEW t \in Times, NeedsPoll(last, t)
    PROVE  t > last
<1>1. last \in Nat /\ t \in Nat
  BY TimesAssumption DEF Ends, ZeroTime
<1>2. CASE Hours(t - last) >= PollInterval
  BY <1>1, <1>2, PollIntervalAssumption DEF Hours
<1>3. CASE NeedRecommOnFirstOfMonth(last, t)
  BY <1>1, <1>3 DEF NeedRecommOnFirstOfMonth, Day
<1> QED
  BY <1>2, <1>3 DEF NeedsPoll

(* While no handler outlasts its lease on the partition, the handler's     *)
(* three remote calls are one atomic check-and-save of the tables, for any *)
(* number of workloads, containers, consumers, crashes and redeliveries.   *)
THEOREM AtomicSaves == ASSUME ~Outlast PROVE Spec => StoreSpec
<1>1. Init => Store!Init
  BY DEF Init, Store!Init, EmptyRows, Store!EmptyRows, Names, Store!Names
<1>2. AtomicInv /\ [Next]_vars => [Store!Next]_(Store!storeVars)
  <2> SUFFICES ASSUME AtomicInv, [Next]_vars
               PROVE  Store!Next \/ UNCHANGED storeVars
    BY DEF Store!storeVars, storeVars
  <2> TypeOK /\ HandlerOK
    BY DEF AtomicInv, TypeInv
  <2>1. ASSUME NEW p \in Pollers, Save(p)
        PROVE  Store!Next \/ UNCHANGED storeVars
    <3>1. CASE UNCHANGED storeVars
      BY <3>1
    <3>2. CASE Transaction(p)
      <4> DEFINE w == W(p)
                 t == Msg(p).end
                 b == batch[p]
      <4>1. w \in Workloads /\ t \in Times /\ b \in Answers(w, t) /\ b # EmptyBatch
        BY <2>1 DEF Save, HandlerOK, Working, W, Msg, Message
      <4>2. PICK ids \in FreshIds(recs[w], b) :
               recs' = [recs EXCEPT ![w] = Upsert(recs[w], b, ids)]
        BY <3>2 DEF Transaction
      <4>3. /\ hist' = [hist EXCEPT ![w] = HistoryAfter(w, hist[w], b)]
            /\ UNCHANGED wstate
            /\ wstate[w] = "live"
        BY <3>2 DEF Transaction, CanCommit
      <4>4. \A c \in Names : IsFirst(recs[w], c) => NeedsPoll(recs[w][c].end, t)
        BY <2>1, DueAtSave DEF Save
      <4> HIDE DEF w, t, b
      <4>5. Store!Save(w, t, b, ids)
        BY <4>1, <4>2, <4>3, <4>4 DEF Store!Save, EmptyBatch, Store!EmptyBatch,
           Names, Store!Names, IsFirst, Store!IsFirst, NeedsPoll, Store!NeedsPoll,
           Hours, Store!Hours, Day, Store!Day, NeedRecommOnFirstOfMonth,
           Store!NeedRecommOnFirstOfMonth, ZeroTime, Store!ZeroTime,
           Upsert, Store!Upsert, HistoryAfter, Store!HistoryAfter,
           Items, Store!Items, HistRow, Store!HistRow, Ends, Store!Ends
      <4>6. b \in Store!Answers(w, t) /\ ids \in Store!FreshIds(recs[w], b)
        BY <4>1, <4>2 DEF Answers, Store!Answers, FreshIds, Store!FreshIds,
           Names, Store!Names, NamesOf, Store!NamesOf, AnswerEnds,
           Store!AnswerEnds, ZeroTime, Store!ZeroTime
      <4> QED
        BY <4>1, <4>5, <4>6 DEF Store!Next
    <3> QED
      BY <2>1, <3>1, <3>2 DEF Save
  <2>2. ASSUME NEW w \in Workloads, NEW t \in Times, NEW n \in Copies,
               Report(w, t, n)
        PROVE  Store!Next \/ UNCHANGED storeVars
    <3>1. CASE wstate[w] = "new"
      BY <2>2, <3>1 DEF Report, Store!Next, Store!Register
    <3>2. CASE wstate[w] = "live"
      BY <2>2, <3>2 DEF Report, storeVars, TypeOK
    <3> QED
      BY <2>2, <3>1, <3>2 DEF Report
  <2>3. ASSUME NEW k \in Clusters, DeleteCluster(k) PROVE Store!Next
    <3> DEFINE S == {w \in Workloads : ClusterOf[w] = k /\ wstate[w] = "live"}
    <3>1. S \in SUBSET {w \in Workloads : wstate[w] = "live"}
      OBVIOUS
    <3>2. Store!Remove(S)
      BY <2>3 DEF DeleteCluster, Store!Remove, EmptyRows, Store!EmptyRows,
         Names, Store!Names
    <3> QED
      BY <3>1, <3>2 DEF Store!Next
  <2>4. ASSUME NEW h \in Halves, DropPartitions(h) PROVE Store!Next
    <3>1. Store!Expire(h)
      BY <2>4 DEF DropPartitions, Store!Expire, KeptHistory, Store!KeptHistory
    <3> QED
      BY <3>1 DEF Store!Next, Halves
  <2>5. ASSUME \/ \E p \in Pollers : \/ Receive(p) \/ Lookup(p) \/ Exists(p)
                                     \/ Fetch(p) \/ Commit(p) \/ Assign(p)
                                     \/ Crash(p)
               \/ \E w \in Workloads, t \in Times : LateRequest(w, t)
               \/ SendPoison
               \/ UNCHANGED vars
        PROVE  UNCHANGED storeVars
    BY <2>5 DEF Receive, Lookup, Exists, Fetch, Commit, Assign, Crash, SendPoison,
       LateRequest, vars
  <2> QED
    BY <2>1, <2>2, <2>3, <2>4, <2>5 DEF Next, Step
<1>3. AtomicInv /\ [Next]_vars => AtomicInv'
  BY AtomicStep
<1>4. Init => AtomicInv
  BY AtomicInit
<1> QED
  BY <1>1, <1>2, <1>3, <1>4, PTL DEF Spec, StoreSpec, Store!Spec

(* While no handler outlasts its lease, the row that readers are shown     *)
(* first never becomes older.                                              *)
THEOREM FirstRowNeverRegresses == ASSUME ~Outlast PROVE Spec => FirstRowAdvances
<1> DEFINE A == \A w \in Workloads, c, d \in Names :
                   IsFirst(recs[w], c) /\ IsFirst(recs'[w], d) =>
                      \/ recs'[w][d].end >= recs[w][c].end
                      \/ recs'[w][d].end = ZeroTime
<1>1. AtomicInv /\ [Next]_vars => [A]_vars
  <2> SUFFICES ASSUME AtomicInv, Next,
                      NEW w \in Workloads, NEW c \in Names, NEW d \in Names,
                      IsFirst(recs[w], c), IsFirst(recs'[w], d)
               PROVE  \/ recs'[w][d].end >= recs[w][c].end
                      \/ recs'[w][d].end = ZeroTime
    OBVIOUS
  <2> TypeOK /\ HandlerOK /\ TypeInv /\ IdsDiffer
    BY DEF AtomicInv, TypeInv
  <2>1. /\ recs[w] \in Rows /\ recs[w][c] # Null /\ recs[w][c] \in Row
        /\ recs[w][c].end \in Nat
    <3>1. recs[w] \in Rows /\ recs[w][c] # Null
      BY DEF TypeOK, IsFirst
    <3>2. recs[w][c] \in Row
      BY <3>1 DEF Rows
    <3>3. recs[w][c].end \in Ends
      BY <3>2 DEF Row
    <3>4. recs[w][c].end \in Nat
      BY <3>3, EndsNat
    <3> QED
      BY <3>1, <3>2, <3>4
  <2>2. CASE recs'[w] = recs[w]
    <3>1. c = d
      BY <2>2, OneFirst
    <3> QED
      BY <2>1, <2>2, <3>1
  <2>3. CASE recs'[w] = EmptyRows
    BY <2>3 DEF IsFirst, EmptyRows
  <2>4. ASSUME NEW p \in Pollers, Save(p), Transaction(p), w = W(p)
        PROVE  \/ recs'[w][d].end >= recs[w][c].end
               \/ recs'[w][d].end = ZeroTime
    <3> DEFINE b == batch[p]
               t == Msg(p).end
    <3>1. t \in Times /\ b \in Answers(w, t) /\ pc[p] = "save"
      BY <2>4 DEF Save, HandlerOK, Working, W, Msg, Message
    <3>2. PICK ids \in FreshIds(recs[w], b) :
             recs'[w] = Upsert(recs[w], b, ids)
      BY <2>4 DEF Transaction, TypeOK
    <3> HIDE DEF b
    <3>3. CASE b[d] # Null
      <4>1. recs'[w][d].end = b[d].end
        BY <3>2, <3>3 DEF Upsert
      <4>2. b[d].end \in AnswerEnds(t)
        BY <3>1, <3>3, AnswersType
      <4>3. t > recs[w][c].end
        <5>1. NeedsPoll(recs[w][c].end, t)
          BY <2>4, <3>1, DueAtSave
        <5>2. recs[w][c].end \in Ends
          BY <2>1 DEF Row
        <5> QED
          BY <3>1, <5>1, <5>2, DueIsOlder
      <4>4. t \in Nat
        BY <3>1, TimesAssumption
      <4>5. b[d].end = t \/ b[d].end = ZeroTime
        BY <4>2 DEF AnswerEnds
      <4> HIDE DEF t
      <4> QED
        BY <2>1, <4>1, <4>3, <4>4, <4>5
    <3>4. CASE b[d] = Null
      <4>1. recs'[w][d] = recs[w][d]
        BY <3>2, <3>4 DEF Upsert
      <4>2. recs'[w][c] # Null /\ recs'[w][c].id = recs[w][c].id
        <5>1. CASE b[c] = Null
          BY <2>1, <3>2, <5>1 DEF Upsert
        <5>2. CASE b[c] # Null
          <6>1. recs'[w][c] = [id |-> recs[w][c].id, end |-> b[c].end,
                               val |-> b[c].val]
            BY <2>1, <3>2, <5>2 DEF Upsert
          <6>2. recs'[w][c] \in Row \cup {Null}
            BY TypeStep DEF TypeInv, TypeOK, Rows
          <6>3. b[c] \in Item
            BY <2>4, <3>1, <5>2, AnswersType
          <6>4. recs'[w][c] \in Row
            BY <2>1, <6>1, <6>3 DEF Row, Item
          <6> QED
            BY <6>1, <6>4, NullAssumption
        <5> QED
          BY <5>1, <5>2
      <4>3. recs[w][d] # Null /\ recs[w][d].id <= recs[w][c].id
        BY <4>1, <4>2 DEF IsFirst
      <4>4. recs[w][c].id <= recs[w][d].id
        BY <4>3 DEF IsFirst
      <4>5. recs[w][c].id \in Nat /\ recs[w][d].id \in Nat
        BY <2>1, <4>3, RowIdsAssumption DEF Rows, Row
      <4>6. c = d
        BY <2>1, <4>3, <4>4, <4>5 DEF IdsDiffer
      <4> QED
        BY <2>1, <4>1, <4>6
    <3> QED
      BY <3>3, <3>4
  <2>5. \/ recs'[w] = recs[w]
        \/ recs'[w] = EmptyRows
        \/ \E p \in Pollers : Save(p) /\ Transaction(p) /\ w = W(p)
    <3>1. ASSUME NEW p \in Pollers, Save(p)
          PROVE  recs'[w] = recs[w] \/ (Transaction(p) /\ w = W(p))
      BY <3>1 DEF Save, Transaction, storeVars, TypeOK
    <3>2. ASSUME NEW k \in Clusters, DeleteCluster(k)
          PROVE  recs'[w] = recs[w] \/ recs'[w] = EmptyRows
      BY <3>2 DEF DeleteCluster
    <3>3. CASE /\ \A p \in Pollers : ~Save(p)
               /\ \A k \in Clusters : ~DeleteCluster(k)
      BY <3>3 DEF Next, Step, Receive, Lookup, Exists, Fetch, Commit, Assign, Crash,
         Report, SendPoison, LateRequest, DropPartitions, storeVars
    <3> QED
      BY <3>1, <3>2, <3>3
  <2> QED
    BY <2>2, <2>3, <2>4, <2>5
<1>2. AtomicInv /\ [Next]_vars => AtomicInv'
  BY AtomicStep
<1>3. Init => AtomicInv
  BY AtomicInit
<1> QED
  BY <1>1, <1>2, <1>3, PTL DEF Spec, FirstRowAdvances

=============================================================================
