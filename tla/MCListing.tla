----------------------------- MODULE MCListing ------------------------------
(***************************************************************************)
(* Requests to start a walk from.                                          *)
(***************************************************************************)
EXTENDS Listing

Plain == [kind |-> "container", limit |-> Absent, offset |-> Absent,
          how |-> Absent, by |-> Absent, accept |-> Absent, format |-> Absent]

(* Walks from the first row, in both orders.                               *)
Walks == {[Plain EXCEPT !.limit = l, !.how = h] :
             l \in {1, 2}, h \in {Absent, "asc"}}

(* Requests without a limit, with a negative offset, in either format, and *)
(* ones that are refused.                                                  *)
Odd ==
    {[Plain EXCEPT !.offset = -1, !.by = "allowed"],
     [Plain EXCEPT !.kind = "namespace", !.format = "csv"],
     [Plain EXCEPT !.accept = "csv", !.format = "json", !.limit = 1],
     [Plain EXCEPT !.accept = "other", !.format = "other"],
     [Plain EXCEPT !.limit = -2],
     [Plain EXCEPT !.how = "other"],
     [Plain EXCEPT !.by = "other"]}

Asked == Walks \cup Odd
=============================================================================
