------------------------------ MODULE RecStore ------------------------------
(***************************************************************************)
(* What the recommendation tables promise their readers, with no poller in *)
(* sight: a workload is registered, gets recommendations while it lives,   *)
(* and is removed with all its rows.  A save is one atomic step that       *)
(* checks and writes at once: the row the check looks at is still the row  *)
(* the save replaces.                                                      *)
(***************************************************************************)
EXTENDS Tables

VARIABLES wstate, recs, hist

storeVars == <<wstate, recs, hist>>

Init ==
    /\ wstate = [w \in Workloads |-> "new"]
    /\ recs = [w \in Workloads |-> EmptyRows]
    /\ hist = [w \in Workloads |-> {}]

Register(w) ==
    /\ wstate[w] = "new"
    /\ wstate' = [wstate EXCEPT ![w] = "live"]
    /\ UNCHANGED <<recs, hist>>

(* ON DELETE CASCADE takes the rows of a workload with it.                 *)
Remove(S) ==
    /\ wstate' = [w \in Workloads |-> IF w \in S THEN "gone" ELSE wstate[w]]
    /\ recs' = [w \in Workloads |-> IF w \in S THEN EmptyRows ELSE recs[w]]
    /\ hist' = [w \in Workloads |-> IF w \in S THEN {} ELSE hist[w]]

(* Retention: the history before half month h is dropped.                  *)
Expire(h) ==
    /\ hist' = [w \in Workloads |-> KeptHistory(w, hist[w], h)]
    /\ UNCHANGED <<wstate, recs>>

(* A report that ends at t renews the rows of w, if the row its readers    *)
(* are shown first is due.                                                 *)
Save(w, t, batch, ids) ==
    /\ wstate[w] = "live"
    /\ batch # EmptyBatch
    /\ \A c \in Names : IsFirst(recs[w], c) => NeedsPoll(recs[w][c].end, t)
    /\ recs' = [recs EXCEPT ![w] = Upsert(recs[w], batch, ids)]
    /\ hist' = [hist EXCEPT ![w] = HistoryAfter(w, hist[w], batch)]
    /\ UNCHANGED wstate

Next ==
    \/ \E w \in Workloads : Register(w)
    \/ \E S \in SUBSET {w \in Workloads : wstate[w] = "live"} : Remove(S)
    \/ \E h \in {HalfOf[t] : t \in Times} : Expire(h)
    \/ \E w \in Workloads, t \in Times :
          \E batch \in Answers(w, t) :
             \E ids \in FreshIds(recs[w], batch) : Save(w, t, batch, ids)

Spec == Init /\ [][Next]_storeVars
=============================================================================
