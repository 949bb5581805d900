-------------------------------- MODULE Feed --------------------------------
(***************************************************************************)
(* What the poller relies on and what the processor and the housekeeper    *)
(* promise: which rows of table workloads there are, which there were, and *)
(* which ones the recommendation topic was ever asked about.               *)
(*                                                                         *)
(* A row is [id, exp].  It is upserted before it is asked about, its id is *)
(* never given to another experiment, and once it is gone it is gone.  It  *)
(* may be asked about after it is gone: the processor sends the request    *)
(* some calls after the upsert, and the topic keeps it.                    *)
(***************************************************************************)
CONSTANT Row

VARIABLES live, gone, asked

feedVars == <<live, gone, asked>>

Init == live = {} /\ gone = {} /\ asked = {}

(* A report upserts its row and may be followed by a request.              *)
Report(r) ==
    /\ r \notin gone
    /\ \A v \in live \cup gone : v.id = r.id => v = r
    /\ live' = live \cup {r}
    /\ asked' \in {asked, asked \cup {r}}
    /\ UNCHANGED gone

Ask(r) ==
    /\ r \in live \cup gone
    /\ asked' = asked \cup {r}
    /\ UNCHANGED <<live, gone>>

(* The rows of a cluster go together.                                      *)
Remove(S) ==
    /\ S \subseteq live
    /\ live' = live \ S
    /\ gone' = gone \cup S
    /\ UNCHANGED asked

Next ==
    \/ \E r \in Row : Report(r) \/ Ask(r)
    \/ \E S \in SUBSET live : Remove(S)

Spec == Init /\ [][Next]_feedVars
=============================================================================
