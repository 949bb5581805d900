--------------------------- MODULE MCPresentation ---------------------------
(***************************************************************************)
(* Answers of Kruize for TLC.  A MiB is 64 bytes and a GiB 64 MiB, which   *)
(* keeps the products below 2^31.                                          *)
(***************************************************************************)
EXTENDS Presentation

CONSTANTS listed, other

Of(cpu, memory) == [r \in Res |-> IF r = "cpu" THEN cpu ELSE memory]
Config(requests, factor) ==
    [s \in Sections |-> IF s = "requests" THEN requests
                        ELSE [r \in Res |-> factor * requests[r]]]

(* Changes differ from engine to engine and from term to term.             *)
Step(t, e) == (IF t = "long_term" THEN 2 ELSE 0) + (IF e = "cost" THEN 1 ELSE 0)

Engine(now, change, notes) ==
    LET new == [r \in Res |-> now[r] + change[r]]
    IN  [config |-> Config(new, 2), variation |-> Config(change, 2), notes |-> notes]

(* notes is listed or not, at the level of one engine or at all.           *)
Data(now, change, present, notes) ==
    [current |-> Config(now, 2), notes |-> notes \ {other},
     terms |-> [t \in Terms |->
        [engines |-> IF t \in present
                     THEN [e \in Engines |->
                             Engine(now, [r \in Res |-> change[r] + Step(t, e)],
                                    IF e = "cost" THEN notes ELSE {listed})]
                     ELSE <<>>,
         notes |-> notes,
         plots |-> IF t \in present THEN now ELSE <<>>]]]

(* No current request, amounts that vanish when they are cut, amounts with *)
(* digits behind those shown; cuts to zero, no change, small and large     *)
(* changes, one of them out of the range of a percentage column.           *)
Nows == {Of(0, 0), Of(19, 70), Of(1000, 4096), Of(15006, 5000)}
Changes(now) ==
    {Of(-now.cpu, -now.memory), Of(0, 0), Of(7, 40), Of(255, 4095),
     Of(9994, 5000)} \union
    IF now.cpu = 0 THEN {} ELSE {Of(-4, -4)}

Shapes == {<<Terms, {listed, other}>>, <<{"short_term"}, {}>>,
           <<{"long_term"}, {listed}>>, <<{"medium_term"}, {other}>>,
           <<{}, {listed}>>}

MCKruize ==
    UNION {{Data(now, change, present, notes) :
              change \in Changes(now), <<present, notes>> \in Shapes} :
           now \in Nows}

MCMaxNow == Of(12000, 100000)
=============================================================================
