------------------------- MODULE PresentationProofs -------------------------
(***************************************************************************)
(* Proofs about the presentation of recommendations, for every answer of   *)
(* Kruize and the real sizes of units and columns: amounts have no bound.  *)
(***************************************************************************)
EXTENDS Presentation, TLAPS

-----------------------------------------------------------------------------
(* Rounding.                                                               *)

(* Multiplying by a natural number keeps the order.                        *)
LEMMA Monotone ==
    ASSUME NEW d \in Nat, NEW a \in Int, NEW b \in Int, a <= b
    PROVE  d * a <= d * b
  OBVIOUS

(* n \div d, for d > 0, is the number of times that d goes into n.         *)
LEMMA Quotient ==
    ASSUME NEW n \in Nat, NEW d \in Nat \ {0}
    PROVE  /\ n \div d \in Nat
           /\ d * (n \div d) <= n /\ n < d * (n \div d + 1)
<1> DEFINE q == n \div d
           m == n % d
<1>1. q \in Int /\ m \in 0 .. d - 1 /\ n = d * q + m
  OBVIOUS
<1> HIDE DEF q, m
<1>2. d * (q + 1) = d * q + d
  BY <1>1
<1>3. d * q <= n /\ n < d * (q + 1)
  BY <1>1, <1>2
<1>4. q >= 0
  <2> SUFFICES ASSUME q + 1 <= 0
               PROVE  FALSE
    BY <1>1
  <2>1. d * (q + 1) <= d * 0
    BY <1>1, Monotone
  <2>2. d * 0 = 0
    OBVIOUS
  <2>3. d * (q + 1) \in Int
    BY <1>1
  <2> QED
    BY <1>3, <2>1, <2>2, <2>3
<1> QED
  BY <1>1, <1>3, <1>4 DEF q

(* The quotient is at most k when n is at most d * k.                      *)
LEMMA QuotientBelow ==
    ASSUME NEW n \in Nat, NEW d \in Nat \ {0}, NEW k \in Nat, n <= d * k
    PROVE  n \div d <= k
<1> DEFINE q == n \div d
<1>1. q \in Nat /\ d * q <= n
  BY Quotient
<1> HIDE DEF q
<1> SUFFICES ASSUME k + 1 <= q
             PROVE  FALSE
  BY <1>1 DEF q
<1>2. d * (k + 1) <= d * q
  BY <1>1, Monotone
<1>3. d * (k + 1) = d * k + d
  OBVIOUS
<1> QED
  BY <1>1, <1>2, <1>3

(* A larger number has no smaller quotient.                                *)
LEMMA QuotientMonotone ==
    ASSUME NEW d \in Nat \ {0}, NEW a \in Nat, NEW b \in Nat, a <= b
    PROVE  a \div d <= b \div d
<1> DEFINE p == a \div d
           q == b \div d
<1>1. p \in Nat /\ d * p <= a /\ q \in Nat /\ b < d * (q + 1)
  BY Quotient
<1> HIDE DEF p, q
<1> SUFFICES ASSUME q + 1 <= p
             PROVE  FALSE
  BY <1>1 DEF p, q
<1>2. d * (q + 1) <= d * p
  BY <1>1, Monotone
<1> QED
  BY <1>1, <1>2

(* Cutting toward zero keeps the sign and takes off less than one digit.   *)
LEMMA TruncFacts ==
    ASSUME NEW n \in Int, NEW d \in Nat \ {0}
    PROVE  /\ TruncDiv(n, d) \in Int
           /\ n >= 0 => TruncDiv(n, d) >= 0
           /\ n <= 0 => TruncDiv(n, d) <= 0
           /\ Abs(n) >= d * Abs(TruncDiv(n, d))
           /\ Abs(n) < d * (Abs(TruncDiv(n, d)) + 1)
<1> DEFINE q == Abs(n) \div d
<1>1. Abs(n) \in Nat
  BY DEF Abs
<1>2. q \in Nat /\ d * q <= Abs(n) /\ Abs(n) < d * (q + 1)
  BY <1>1, Quotient
<1>3. TruncDiv(n, d) = IF n < 0 THEN -q ELSE q
  BY DEF TruncDiv, Abs
<1> HIDE DEF q
<1>4. Abs(TruncDiv(n, d)) = q
  BY <1>2, <1>3 DEF Abs
<1>5. n = 0 => q = 0
  <2> SUFFICES ASSUME n = 0, 1 <= q
               PROVE  FALSE
    BY <1>2
  <2>1. d * 1 <= d * q
    BY <1>2, Monotone
  <2> QED
    BY <1>2, <2>1 DEF Abs
<1> QED
  BY <1>2, <1>3, <1>4, <1>5

(* Rounding keeps the sign and is off by half a digit at most.             *)
LEMMA RoundFacts ==
    ASSUME NEW n \in Int
    PROVE  /\ RoundDiv(n, 10) \in Int
           /\ n >= 0 => RoundDiv(n, 10) >= 0
           /\ n <= 0 => RoundDiv(n, 10) <= 0
           /\ Abs(n - 10 * RoundDiv(n, 10)) <= 5
  BY DEF RoundDiv, Abs

(* A change no larger than what there is stays so when both are rounded.   *)
LEMMA CutStaysCut ==
    ASSUME NEW n \in Nat, NEW v \in Int, v >= -n, v <= 0
    PROVE  /\ \A d \in Nat \ {0} : TruncDiv(v, d) >= -TruncDiv(n, d)
           /\ RoundDiv(v, 10) >= -RoundDiv(n, 10)
<1>1. ASSUME NEW d \in Nat \ {0}
      PROVE  TruncDiv(v, d) >= -TruncDiv(n, d)
  <2>1. Abs(v) \in Nat /\ Abs(v) <= n
    BY DEF Abs
  <2>2. Abs(v) \div d <= n \div d
    BY <2>1, QuotientMonotone
  <2>3. Abs(v) \div d \in Nat /\ n \div d \in Nat
    BY <2>1, Quotient
  <2>4. TruncDiv(n, d) = n \div d
    BY DEF TruncDiv
  <2>5. TruncDiv(v, d) = IF v < 0 THEN -(Abs(v) \div d) ELSE Abs(v) \div d
    BY DEF TruncDiv, Abs
  <2>6. v = 0 => TruncDiv(v, d) = 0
    <3>1. TruncDiv(v, d) \in Int /\ (v = 0 => TruncDiv(v, d) >= 0 /\ TruncDiv(v, d) <= 0)
      BY TruncFacts
    <3> QED
      BY <3>1
  <2> QED
    BY <2>2, <2>3, <2>4, <2>5, <2>6
<1>2. RoundDiv(v, 10) >= -RoundDiv(n, 10)
  BY DEF RoundDiv, Abs
<1> QED
  BY <1>1, <1>2

(* The units a resource is shown in.                                       *)
UnitsOf(r) == IF r = "cpu" THEN CpuUnits ELSE MemoryUnits

(* A converted amount keeps its sign, is near the amount, and a change no  *)
(* larger than what there is stays so.                                     *)
LEMMA ConvertFacts ==
    ASSUME NEW r \in Res, NEW unit \in UnitsOf(r), NEW v \in Int
    PROVE  /\ Convert(r, unit, v) \in Int
           /\ v >= 0 => Convert(r, unit, v) >= 0
           /\ v <= 0 => Convert(r, unit, v) <= 0
           /\ Near(unit, v, Convert(r, unit, v))
           /\ \A n \in Nat : v >= -n /\ v <= 0 =>
                 Convert(r, unit, v) >= -Convert(r, unit, n)
<1>1. CASE r = "cpu" /\ unit = "cores"
  <2>1. \A a : Convert(r, unit, a) = TruncDiv(a, 10)
    BY <1>1 DEF Convert, convertCPUUnit
  <2>2. /\ TruncDiv(v, 10) \in Int
        /\ v >= 0 => TruncDiv(v, 10) >= 0
        /\ v <= 0 => TruncDiv(v, 10) <= 0
        /\ Abs(v) >= 10 * Abs(TruncDiv(v, 10))
        /\ Abs(v) < 10 * (Abs(TruncDiv(v, 10)) + 1)
    BY TruncFacts
  <2>3. \A n \in Nat : v >= -n /\ v <= 0 => TruncDiv(v, 10) >= -TruncDiv(n, 10)
    BY CutStaysCut
  <2>4. Near(unit, v, TruncDiv(v, 10))
    BY <1>1, <2>2 DEF Near
  <2> QED
    BY <2>1, <2>2, <2>3, <2>4
<1>2. CASE r = "cpu" /\ unit = "millicores"
  <2>1. \A a : Convert(r, unit, a) = RoundDiv(a, 10)
    BY <1>2 DEF Convert, convertCPUUnit
  <2>2. /\ RoundDiv(v, 10) \in Int
        /\ v >= 0 => RoundDiv(v, 10) >= 0
        /\ v <= 0 => RoundDiv(v, 10) <= 0
        /\ Abs(v - 10 * RoundDiv(v, 10)) <= 5
    BY RoundFacts
  <2>3. \A n \in Nat : v >= -n /\ v <= 0 => RoundDiv(v, 10) >= -RoundDiv(n, 10)
    BY CutStaysCut
  <2>4. Near(unit, v, RoundDiv(v, 10))
    BY <1>2, <2>2 DEF Near
  <2> QED
    BY <2>1, <2>2, <2>3, <2>4
<1>3. CASE r = "memory" /\ unit \in {"MiB", "GiB"}
  <2> DEFINE size == IF unit = "MiB" THEN MiB ELSE GiB
             c == TruncDiv(v * 100, size)
  <2>1. \A a : Convert(r, unit, a) = TruncDiv(a * 100, size)
    BY <1>3 DEF Convert, convertMemoryUnit
  <2>2. size \in Nat \ {0}
    BY PresentationAssumption
  <2>3. Near(unit, v, c) <=>
           /\ 100 * Abs(v) >= size * Abs(c)
           /\ 100 * Abs(v) < size * (Abs(c) + 1)
           /\ v < 0 => c <= 0
           /\ v > 0 => c >= 0
    BY <1>3, ZenonT(60) DEF Near
  <2> HIDE DEF size
  <2>4. v * 100 \in Int /\ Abs(v * 100) = 100 * Abs(v)
    BY DEF Abs
  <2>5. /\ c \in Int
        /\ v * 100 >= 0 => c >= 0
        /\ v * 100 <= 0 => c <= 0
        /\ Abs(v * 100) >= size * Abs(c)
        /\ Abs(v * 100) < size * (Abs(c) + 1)
    BY <2>2, <2>4, TruncFacts
  <2>6. ASSUME NEW n \in Nat, v >= -n, v <= 0
        PROVE  c >= -TruncDiv(n * 100, size)
    <3>1. n * 100 \in Nat /\ v * 100 >= -(n * 100) /\ v * 100 <= 0
      BY <2>6
    <3> QED
      BY <2>2, <2>4, <3>1, CutStaysCut
  <2> HIDE DEF c
  <2>7. Near(unit, v, c) /\ (v >= 0 => c >= 0) /\ (v <= 0 => c <= 0)
    BY <2>3, <2>4, <2>5
  <2>8. Convert(r, unit, v) = c
    BY <2>1 DEF c
  <2> QED
    BY <2>1, <2>5, <2>6, <2>7, <2>8
<1>4. CASE r = "memory" /\ unit = "bytes"
  <2>1. \A a : Convert(r, unit, a) = a
    BY <1>4 DEF Convert, convertMemoryUnit
  <2>2. Near(unit, v, v)
    BY <1>4 DEF Near
  <2> QED
    BY <2>1, <2>2
<1> QED
  BY <1>1, <1>2, <1>3, <1>4 DEF Res, UnitsOf, CpuUnits, MemoryUnits

(* A share has the sign of the change, and is no cut of more than 100      *)
(* percent when the change is none of more than there is.                  *)
IsShare(p, v, n) ==
    /\ p \in Int
    /\ p > 0 => v > 0
    /\ p < 0 => v < 0
    /\ v >= -n => p >= -100000

(* CalculatePercentage gives such a share.                                 *)
LEMMA PercentFacts ==
    ASSUME NEW v \in Int, NEW n \in Nat
    PROVE  IsShare(CalculatePercentage(v, n), v, n)
<1>1. CASE v = 0 \/ n = 0
  BY <1>1 DEF CalculatePercentage, IsShare
<1>2. CASE v # 0 /\ n # 0
  <2> DEFINE p == TruncDiv(v * 100000, n)
  <2>1. CalculatePercentage(v, n) = p
    BY <1>2 DEF CalculatePercentage
  <2>2. v * 100000 \in Int
    OBVIOUS
  <2>3. p \in Int /\ (v * 100000 >= 0 => p >= 0) /\ (v * 100000 <= 0 => p <= 0)
    BY <1>2, <2>2, TruncFacts
  <2>4. ASSUME v >= -n, v < 0
        PROVE  p >= -100000
    <3> DEFINE a == (-v) * 100000
    <3>1. a \in Nat /\ a <= n * 100000 /\ v * 100000 < 0 /\ -(v * 100000) = a
      BY <2>4
    <3>2. a \div n <= 100000
      BY <1>2, <3>1, QuotientBelow
    <3>3. p = -(a \div n)
      BY <3>1 DEF TruncDiv, Abs
    <3>4. a \div n \in Nat
      BY <1>2, <3>1, Quotient
    <3> QED
      BY <3>2, <3>3, <3>4
  <2> HIDE DEF p
  <2>5. IsShare(p, v, n)
    BY <2>3, <2>4 DEF IsShare
  <2> QED
    BY <2>1, <2>5
<1> QED
  BY <1>1, <1>2

(* Clamping keeps the sign, and what is in range.                          *)
LEMMA ClampFacts ==
    ASSUME NEW p \in Int, NEW max \in Nat
    PROVE  /\ Clamp(p, max) \in -max .. max
           /\ Clamp(p, max) > 0 => p > 0
           /\ Clamp(p, max) < 0 => p < 0
           /\ Clamp(p, max) >= p \/ Clamp(p, max) >= 0
           /\ p >= -max /\ p <= max => Clamp(p, max) = p
  BY DEF Clamp

-----------------------------------------------------------------------------
(* What each step of the presentation does to the parts of a document.     *)

(* The fields of a document, of its terms and of their engines.            *)
TermFields == {"engines", "notes", "plots"}
EngineFields == {"config", "variation", "notes"}

Shaped(d) ==
    /\ DOMAIN d = {"current", "notes", "terms"}
    /\ \A t \in Terms :
          /\ DOMAIN d.terms[t] = TermFields
          /\ \A e \in DOMAIN d.terms[t].engines :
                DOMAIN d.terms[t].engines[e] = EngineFields

(* Both documents have the same engines.                                   *)
SameEngines(d, x) ==
    \A t \in Terms : DOMAIN x.terms[t].engines = DOMAIN d.terms[t].engines

(* The blob that is stored for an answer.                                  *)
IsBlob(d, b) ==
    /\ Shaped(b) /\ SameEngines(d, b)
    /\ b.current = MarshalConfig(d.current)
    /\ \A t \in Terms :
          /\ b.terms[t].plots = d.terms[t].plots
          /\ \A e \in DOMAIN d.terms[t].engines :
                /\ b.terms[t].engines[e].config
                      = MarshalConfig(d.terms[t].engines[e].config)
                /\ b.terms[t].engines[e].variation
                      = MarshalConfig(d.terms[t].engines[e].variation)

(* Marshalling writes every amount of the document, and nothing else       *)
(* changes.                                                                *)
LEMMA MarshalFacts ==
    ASSUME NEW d, Shaped(d)
    PROVE  IsBlob(d, Marshal(d))
<1> DEFINE b == Marshal(d)
           E(x) == [x EXCEPT !.config = MarshalConfig(@),
                             !.variation = MarshalConfig(@)]
           T(x) == [x EXCEPT !.engines = [e \in DOMAIN @ |-> E(@[e])]]
           c == [d EXCEPT !.current = MarshalConfig(@)]
           terms == [t \in Terms |-> T(c.terms[t])]
<1>1. b = [c EXCEPT !.terms = terms]
  BY DEF Marshal, MapTerms, MapEngines
<1>2. ASSUME NEW x, DOMAIN x = EngineFields
      PROVE  /\ DOMAIN E(x) = EngineFields
             /\ E(x).config = MarshalConfig(x.config)
             /\ E(x).variation = MarshalConfig(x.variation)
  BY <1>2 DEF EngineFields
<1> HIDE DEF E
<1>3. ASSUME NEW x, DOMAIN x = TermFields
      PROVE  /\ DOMAIN T(x) = TermFields
             /\ T(x).plots = x.plots
             /\ T(x).engines = [e \in DOMAIN x.engines |-> E(x.engines[e])]
  BY <1>3 DEF TermFields
<1>4. /\ DOMAIN c = {"current", "notes", "terms"} /\ c.terms = d.terms
      /\ c.current = MarshalConfig(d.current)
  BY DEF Shaped
<1> HIDE DEF T, c
<1>5. \A t \in Terms : terms[t] = T(d.terms[t])
  BY <1>4
<1> HIDE DEF terms
<1>6. /\ DOMAIN b = {"current", "notes", "terms"}
      /\ b.current = MarshalConfig(d.current)
      /\ b.terms = terms
  BY <1>1, <1>4
<1> HIDE DEF b
<1>7. ASSUME NEW t \in Terms
      PROVE  /\ DOMAIN b.terms[t] = TermFields
             /\ b.terms[t].plots = d.terms[t].plots
             /\ b.terms[t].engines
                   = [e \in DOMAIN d.terms[t].engines |-> E(d.terms[t].engines[e])]
  <2>1. DOMAIN d.terms[t] = TermFields
    BY DEF Shaped
  <2>2. b.terms[t] = T(d.terms[t])
    BY <1>5, <1>6
  <2> QED
    BY <1>3, <2>1, <2>2
<1>8. ASSUME NEW t \in Terms, NEW e \in DOMAIN d.terms[t].engines
      PROVE  /\ DOMAIN b.terms[t].engines[e] = EngineFields
             /\ b.terms[t].engines[e].config
                   = MarshalConfig(d.terms[t].engines[e].config)
             /\ b.terms[t].engines[e].variation
                   = MarshalConfig(d.terms[t].engines[e].variation)
  <2>1. DOMAIN d.terms[t].engines[e] = EngineFields
    BY DEF Shaped
  <2>2. b.terms[t].engines[e] = E(d.terms[t].engines[e])
    BY <1>7
  <2> QED
    BY <1>2, <2>1, <2>2
<1>9. SameEngines(d, b)
  BY <1>7 DEF SameEngines
<1>10. Shaped(b)
  BY <1>6, <1>7, <1>8, <1>9 DEF Shaped, SameEngines
<1> QED
  BY <1>6, <1>7, <1>8, <1>9, <1>10 DEF IsBlob, b

(* The document with amounts in the units u.                               *)
Plots(u, p) ==
    [r \in DOMAIN p |-> [amount |-> Convert(r, u[r], p[r]), format |-> Format(u, r)]]

InUnits(u, d, x) ==
    /\ Shaped(x) /\ SameEngines(d, x)
    /\ x.current = ConfigInUnits(u, d.current) /\ x.notes = d.notes
    /\ \A t \in Terms :
          /\ x.terms[t].notes = d.terms[t].notes
          /\ x.terms[t].plots = Plots(u, d.terms[t].plots)
          /\ \A e \in DOMAIN d.terms[t].engines :
                /\ x.terms[t].engines[e].config
                      = ConfigInUnits(u, d.terms[t].engines[e].config)
                /\ x.terms[t].engines[e].variation
                      = ConfigInUnits(u, d.terms[t].engines[e].variation)
                /\ x.terms[t].engines[e].notes = d.terms[t].engines[e].notes

(* transformComponentUnits converts every amount, and nothing else.        *)
LEMMA UnitsFacts ==
    ASSUME NEW d, Shaped(d), NEW u
    PROVE  InUnits(u, d, transformComponentUnits(u, d))
<1> DEFINE b == transformComponentUnits(u, d)
           E(x) == [x EXCEPT !.config = ConfigInUnits(u, @),
                             !.variation = ConfigInUnits(u, @)]
           T(x) == [x EXCEPT !.engines = [e \in DOMAIN @ |-> E(@[e])],
                             !.plots = Plots(u, @)]
           c == [d EXCEPT !.current = ConfigInUnits(u, @)]
           terms == [t \in Terms |-> T(c.terms[t])]
<1>1. b = [c EXCEPT !.terms = terms]
  BY DEF transformComponentUnits, MapTerms, MapEngines, Plots
<1>2. ASSUME NEW x, DOMAIN x = EngineFields
      PROVE  /\ DOMAIN E(x) = EngineFields
             /\ E(x).config = ConfigInUnits(u, x.config)
             /\ E(x).variation = ConfigInUnits(u, x.variation)
             /\ E(x).notes = x.notes
  BY <1>2 DEF EngineFields
<1> HIDE DEF E
<1>3. ASSUME NEW x, DOMAIN x = TermFields
      PROVE  /\ DOMAIN T(x) = TermFields
             /\ T(x).plots = Plots(u, x.plots) /\ T(x).notes = x.notes
             /\ T(x).engines = [e \in DOMAIN x.engines |-> E(x.engines[e])]
  BY <1>3 DEF TermFields
<1>4. /\ DOMAIN c = {"current", "notes", "terms"} /\ c.terms = d.terms
      /\ c.current = ConfigInUnits(u, d.current) /\ c.notes = d.notes
  BY DEF Shaped
<1> HIDE DEF T, c
<1>5. \A t \in Terms : terms[t] = T(d.terms[t])
  BY <1>4
<1> HIDE DEF terms
<1>6. /\ DOMAIN b = {"current", "notes", "terms"}
      /\ b.current = ConfigInUnits(u, d.current) /\ b.notes = d.notes
      /\ b.terms = terms
  BY <1>1, <1>4
<1> HIDE DEF b
<1>7. ASSUME NEW t \in Terms
      PROVE  /\ DOMAIN b.terms[t] = TermFields
             /\ b.terms[t].plots = Plots(u, d.terms[t].plots)
             /\ b.terms[t].notes = d.terms[t].notes
             /\ b.terms[t].engines
                   = [e \in DOMAIN d.terms[t].engines |-> E(d.terms[t].engines[e])]
  <2>1. DOMAIN d.terms[t] = TermFields
    BY DEF Shaped
  <2>2. b.terms[t] = T(d.terms[t])
    BY <1>5, <1>6
  <2> QED
    BY <1>3, <2>1, <2>2
<1>8. ASSUME NEW t \in Terms, NEW e \in DOMAIN d.terms[t].engines
      PROVE  /\ DOMAIN b.terms[t].engines[e] = EngineFields
             /\ b.terms[t].engines[e].config
                   = ConfigInUnits(u, d.terms[t].engines[e].config)
             /\ b.terms[t].engines[e].variation
                   = ConfigInUnits(u, d.terms[t].engines[e].variation)
             /\ b.terms[t].engines[e].notes = d.terms[t].engines[e].notes
  <2>1. DOMAIN d.terms[t].engines[e] = EngineFields
    BY DEF Shaped
  <2>2. b.terms[t].engines[e] = E(d.terms[t].engines[e])
    BY <1>7
  <2> QED
    BY <1>2, <2>1, <2>2
<1>9. SameEngines(d, b)
  BY <1>7 DEF SameEngines
<1>10. Shaped(b)
  BY <1>6, <1>7, <1>8, <1>9 DEF Shaped, SameEngines
<1> QED
  BY <1>6, <1>7, <1>8, <1>9, <1>10 DEF InUnits, b

(* The document with the notifications that are listed.                    *)
NotesKnown(d, x) ==
    /\ Shaped(x) /\ SameEngines(d, x)
    /\ x.current = d.current /\ x.notes = Known(d.notes)
    /\ \A t \in Terms :
          /\ x.terms[t].notes = Known(d.terms[t].notes)
          /\ x.terms[t].plots = d.terms[t].plots
          /\ \A e \in DOMAIN d.terms[t].engines :
                /\ x.terms[t].engines[e].config = d.terms[t].engines[e].config
                /\ x.terms[t].engines[e].variation
                      = d.terms[t].engines[e].variation
                /\ x.terms[t].engines[e].notes
                      = Known(d.terms[t].engines[e].notes)

(* filterNotifications keeps the known notes at all three levels.          *)
LEMMA NotesFacts ==
    ASSUME NEW d, Shaped(d)
    PROVE  NotesKnown(d, filterNotifications(d))
<1> DEFINE b == filterNotifications(d)
           E(x) == [x EXCEPT !.notes = Known(@)]
           T(x) == [x EXCEPT !.notes = Known(@),
                             !.engines = [e \in DOMAIN @ |-> E(@[e])]]
           c == [d EXCEPT !.notes = Known(@)]
           terms == [t \in Terms |-> T(c.terms[t])]
<1>1. b = [c EXCEPT !.terms = terms]
  BY DEF filterNotifications, MapTerms, MapEngines
<1>2. ASSUME NEW x, DOMAIN x = EngineFields
      PROVE  /\ DOMAIN E(x) = EngineFields
             /\ E(x).config = x.config /\ E(x).variation = x.variation
             /\ E(x).notes = Known(x.notes)
  BY <1>2 DEF EngineFields
<1> HIDE DEF E
<1>3. ASSUME NEW x, DOMAIN x = TermFields
      PROVE  /\ DOMAIN T(x) = TermFields
             /\ T(x).plots = x.plots /\ T(x).notes = Known(x.notes)
             /\ T(x).engines = [e \in DOMAIN x.engines |-> E(x.engines[e])]
  BY <1>3 DEF TermFields
<1>4. /\ DOMAIN c = {"current", "notes", "terms"} /\ c.terms = d.terms
      /\ c.current = d.current /\ c.notes = Known(d.notes)
  BY DEF Shaped
<1> HIDE DEF T, c
<1>5. \A t \in Terms : terms[t] = T(d.terms[t])
  BY <1>4
<1> HIDE DEF terms
<1>6. /\ DOMAIN b = {"current", "notes", "terms"}
      /\ b.current = d.current /\ b.notes = Known(d.notes)
      /\ b.terms = terms
  BY <1>1, <1>4
<1> HIDE DEF b
<1>7. ASSUME NEW t \in Terms
      PROVE  /\ DOMAIN b.terms[t] = TermFields
             /\ b.terms[t].plots = d.terms[t].plots
             /\ b.terms[t].notes = Known(d.terms[t].notes)
             /\ b.terms[t].engines
                   = [e \in DOMAIN d.terms[t].engines |-> E(d.terms[t].engines[e])]
  <2>1. DOMAIN d.terms[t] = TermFields
    BY DEF Shaped
  <2>2. b.terms[t] = T(d.terms[t])
    BY <1>5, <1>6
  <2> QED
    BY <1>3, <2>1, <2>2
<1>8. ASSUME NEW t \in Terms, NEW e \in DOMAIN d.terms[t].engines
      PROVE  /\ DOMAIN b.terms[t].engines[e] = EngineFields
             /\ b.terms[t].engines[e].config = d.terms[t].engines[e].config
             /\ b.terms[t].engines[e].variation
                   = d.terms[t].engines[e].variation
             /\ b.terms[t].engines[e].notes
                   = Known(d.terms[t].engines[e].notes)
  <2>1. DOMAIN d.terms[t].engines[e] = EngineFields
    BY DEF Shaped
  <2>2. b.terms[t].engines[e] = E(d.terms[t].engines[e])
    BY <1>7
  <2> QED
    BY <1>2, <2>1, <2>2
<1>9. SameEngines(d, b)
  BY <1>7 DEF SameEngines
<1>10. Shaped(b)
  BY <1>6, <1>7, <1>8, <1>9 DEF Shaped, SameEngines
<1> QED
  BY <1>6, <1>7, <1>8, <1>9, <1>10 DEF NotesKnown, b

(* The document without plots.                                             *)
WithoutPlots(d, x) ==
    /\ Shaped(x) /\ SameEngines(d, x)
    /\ x.current = d.current /\ x.notes = d.notes
    /\ \A t \in Terms :
          /\ x.terms[t].notes = d.terms[t].notes
          /\ x.terms[t].plots = <<>>
          /\ x.terms[t].engines = d.terms[t].engines

(* dropBoxPlotsObject takes away the plots, and nothing else.              *)
LEMMA DropFacts ==
    ASSUME NEW d, Shaped(d)
    PROVE  WithoutPlots(d, dropBoxPlotsObject(d))
<1> DEFINE b == dropBoxPlotsObject(d)
           T(x) == [x EXCEPT !.plots = <<>>]
           terms == [t \in Terms |-> T(d.terms[t])]
<1>1. b = [d EXCEPT !.terms = terms]
  BY DEF dropBoxPlotsObject, MapTerms
<1>2. ASSUME NEW x, DOMAIN x = TermFields
      PROVE  /\ DOMAIN T(x) = TermFields /\ T(x).plots = <<>>
             /\ T(x).notes = x.notes /\ T(x).engines = x.engines
  BY <1>2 DEF TermFields
<1> HIDE DEF T
<1>3. \A t \in Terms : terms[t] = T(d.terms[t])
  OBVIOUS
<1> HIDE DEF terms
<1>4. /\ DOMAIN b = {"current", "notes", "terms"} /\ b.terms = terms
      /\ b.current = d.current /\ b.notes = d.notes
  BY <1>1 DEF Shaped
<1> HIDE DEF b
<1>5. ASSUME NEW t \in Terms
      PROVE  /\ DOMAIN b.terms[t] = TermFields /\ b.terms[t].plots = <<>>
             /\ b.terms[t].notes = d.terms[t].notes
             /\ b.terms[t].engines = d.terms[t].engines
  <2>1. DOMAIN d.terms[t] = TermFields
    BY DEF Shaped
  <2> QED
    BY <1>2, <1>3, <1>4, <2>1
<1>6. Shaped(b) /\ SameEngines(d, b)
  BY <1>4, <1>5 DEF Shaped, SameEngines
<1> QED
  BY <1>4, <1>5, <1>6 DEF WithoutPlots, b

(* The documents differ in nothing but the variations.                     *)
OnlyVariations(d, x) ==
    /\ Shaped(x) /\ SameEngines(d, x)
    /\ x.current = d.current /\ x.notes = d.notes
    /\ \A t \in Terms :
          /\ x.terms[t].notes = d.terms[t].notes
          /\ x.terms[t].plots = d.terms[t].plots
          /\ \A e \in DOMAIN d.terms[t].engines :
                /\ x.terms[t].engines[e].config = d.terms[t].engines[e].config
                /\ x.terms[t].engines[e].notes = d.terms[t].engines[e].notes

(* The stored percentages take the place of the requests.                  *)
Injected(d, pct, x) ==
    /\ OnlyVariations(d, x)
    /\ \A t \in Terms : \A e \in DOMAIN d.terms[t].engines :
          LET old == d.terms[t].engines[e].variation
          IN  x.terms[t].engines[e].variation
                = [old EXCEPT !.requests =
                     [r \in Res |-> IF /\ <<r, t, e>> \in Columns
                                       /\ pct[<<r, t, e>>] # Null
                                    THEN Percent(pct[<<r, t, e>>])
                                    ELSE old.requests[r]]]

(* injectStoredRequestVariationPct replaces the changes of requests by the *)
(* columns that have a value, and nothing else.                            *)
LEMMA InjectFacts ==
    ASSUME NEW d, Shaped(d), NEW pct
    PROVE  Injected(d, pct, injectStoredRequestVariationPct(d, pct))
<1> DEFINE b == injectStoredRequestVariationPct(d, pct)
           V(t, e, old) ==
              [r \in Res |-> IF <<r, t, e>> \in Columns /\ pct[<<r, t, e>>] # Null
                             THEN Percent(pct[<<r, t, e>>]) ELSE old[r]]
           E(t, e, x) == [x EXCEPT !.variation.requests = V(t, e, @)]
           T(t, x) == [x EXCEPT !.engines = [e \in DOMAIN @ |-> E(t, e, @[e])]]
           terms == [t \in Terms |-> T(t, d.terms[t])]
<1>1. b = [d EXCEPT !.terms = terms]
  BY DEF injectStoredRequestVariationPct, StoredVariationSpecs
<1> HIDE DEF V
<1>2. ASSUME NEW t, NEW e, NEW x, DOMAIN x = EngineFields
      PROVE  /\ DOMAIN E(t, e, x) = EngineFields
             /\ E(t, e, x).config = x.config /\ E(t, e, x).notes = x.notes
             /\ E(t, e, x).variation
                  = [x.variation EXCEPT !.requests = V(t, e, x.variation.requests)]
  BY <1>2 DEF EngineFields
<1> HIDE DEF E
<1>3. ASSUME NEW t, NEW x, DOMAIN x = TermFields
      PROVE  /\ DOMAIN T(t, x) = TermFields
             /\ T(t, x).plots = x.plots /\ T(t, x).notes = x.notes
             /\ T(t, x).engines = [e \in DOMAIN x.engines |-> E(t, e, x.engines[e])]
  BY <1>3 DEF TermFields
<1> HIDE DEF T
<1>4. \A t \in Terms : terms[t] = T(t, d.terms[t])
  OBVIOUS
<1> HIDE DEF terms
<1>5. /\ DOMAIN b = {"current", "notes", "terms"}
      /\ b.current = d.current /\ b.notes = d.notes
      /\ b.terms = terms
  BY <1>1 DEF Shaped
<1> HIDE DEF b
<1>6. ASSUME NEW t \in Terms
      PROVE  /\ DOMAIN b.terms[t] = TermFields
             /\ b.terms[t].plots = d.terms[t].plots
             /\ b.terms[t].notes = d.terms[t].notes
             /\ b.terms[t].engines = [e \in DOMAIN d.terms[t].engines |->
                                        E(t, e, d.terms[t].engines[e])]
  <2>1. DOMAIN d.terms[t] = TermFields
    BY DEF Shaped
  <2>2. b.terms[t] = T(t, d.terms[t])
    BY <1>4, <1>5
  <2> QED
    BY <1>3, <2>1, <2>2
<1>7. ASSUME NEW t \in Terms, NEW e \in DOMAIN d.terms[t].engines
      PROVE  /\ DOMAIN b.terms[t].engines[e] = EngineFields
             /\ b.terms[t].engines[e].config = d.terms[t].engines[e].config
             /\ b.terms[t].engines[e].notes = d.terms[t].engines[e].notes
             /\ b.terms[t].engines[e].variation
                  = [d.terms[t].engines[e].variation EXCEPT !.requests =
                       V(t, e, d.terms[t].engines[e].variation.requests)]
  <2>1. DOMAIN d.terms[t].engines[e] = EngineFields
    BY DEF Shaped
  <2>2. b.terms[t].engines[e] = E(t, e, d.terms[t].engines[e])
    BY <1>6
  <2> QED
    BY <1>2, <2>1, <2>2
<1>8. SameEngines(d, b)
  BY <1>6 DEF SameEngines
<1>9. Shaped(b)
  BY <1>5, <1>6, <1>7, <1>8 DEF Shaped, SameEngines
<1>10. OnlyVariations(d, b)
  BY <1>5, <1>6, <1>7, <1>8, <1>9 DEF OnlyVariations
<1> QED
  BY <1>7, <1>10 DEF Injected, V, b

(* The share of a change v in the current amount now.                      *)
Share(now, v) ==
    IF HasAmount(v)
    THEN Percent(CalculatePercentage(v.amount,
                    IF HasAmount(now) THEN now.amount ELSE 0))
    ELSE v

(* Variations become shares, those of the requests unless they are stored. *)
Shares(d, skipRequests, x) ==
    /\ OnlyVariations(d, x)
    /\ \A t \in Terms : \A e \in DOMAIN d.terms[t].engines :
          LET old == d.terms[t].engines[e].variation
          IN  x.terms[t].engines[e].variation
                = [s \in Sections |->
                     IF s = "requests" /\ skipRequests THEN old[s]
                     ELSE [r \in Res |-> Share(d.current[s][r], old[s][r])]]

(* convertVariationToPercentage makes every change a share of what is set  *)
(* now, except the changes of requests when they are to be skipped.        *)
LEMMA SharesFacts ==
    ASSUME NEW d, Shaped(d), NEW skip
    PROVE  Shares(d, skip, convertVariationToPercentage(d, skip))
<1> DEFINE b == convertVariationToPercentage(d, skip)
           V(old) == [s \in Sections |->
                        IF s = "requests" /\ skip THEN old[s]
                        ELSE [r \in Res |-> Share(d.current[s][r], old[s][r])]]
           E(x) == [x EXCEPT !.variation = V(@)]
           T(x) == [x EXCEPT !.engines = [e \in DOMAIN @ |-> E(@[e])]]
           terms == [t \in Terms |-> T(d.terms[t])]
<1>1. b = [d EXCEPT !.terms = terms]
  BY DEF convertVariationToPercentage, MapTerms, MapEngines, Share
<1> HIDE DEF V
<1>2. ASSUME NEW x, DOMAIN x = EngineFields
      PROVE  /\ DOMAIN E(x) = EngineFields
             /\ E(x).config = x.config /\ E(x).notes = x.notes
             /\ E(x).variation = V(x.variation)
  BY <1>2 DEF EngineFields
<1> HIDE DEF E
<1>3. ASSUME NEW x, DOMAIN x = TermFields
      PROVE  /\ DOMAIN T(x) = TermFields
             /\ T(x).plots = x.plots /\ T(x).notes = x.notes
             /\ T(x).engines = [e \in DOMAIN x.engines |-> E(x.engines[e])]
  BY <1>3 DEF TermFields
<1> HIDE DEF T
<1>4. \A t \in Terms : terms[t] = T(d.terms[t])
  OBVIOUS
<1> HIDE DEF terms
<1>5. /\ DOMAIN b = {"current", "notes", "terms"}
      /\ b.current = d.current /\ b.notes = d.notes
      /\ b.terms = terms
  BY <1>1 DEF Shaped
<1> HIDE DEF b
<1>6. ASSUME NEW t \in Terms
      PROVE  /\ DOMAIN b.terms[t] = TermFields
             /\ b.terms[t].plots = d.terms[t].plots
             /\ b.terms[t].notes = d.terms[t].notes
             /\ b.terms[t].engines
                  = [e \in DOMAIN d.terms[t].engines |-> E(d.terms[t].engines[e])]
  <2>1. DOMAIN d.terms[t] = TermFields
    BY DEF Shaped
  <2>2. b.terms[t] = T(d.terms[t])
    BY <1>4, <1>5
  <2> QED
    BY <1>3, <2>1, <2>2
<1>7. ASSUME NEW t \in Terms, NEW e \in DOMAIN d.terms[t].engines
      PROVE  /\ DOMAIN b.terms[t].engines[e] = EngineFields
             /\ b.terms[t].engines[e].config = d.terms[t].engines[e].config
             /\ b.terms[t].engines[e].notes = d.terms[t].engines[e].notes
             /\ b.terms[t].engines[e].variation
                  = V(d.terms[t].engines[e].variation)
  <2>1. DOMAIN d.terms[t].engines[e] = EngineFields
    BY DEF Shaped
  <2>2. b.terms[t].engines[e] = E(d.terms[t].engines[e])
    BY <1>6
  <2> QED
    BY <1>2, <2>1, <2>2
<1>8. SameEngines(d, b)
  BY <1>6 DEF SameEngines
<1>9. Shaped(b)
  BY <1>5, <1>6, <1>7, <1>8 DEF Shaped, SameEngines
<1>10. OnlyVariations(d, b)
  BY <1>5, <1>6, <1>7, <1>8, <1>9 DEF OnlyVariations
<1> QED
  BY <1>7, <1>10 DEF Shares, V, b

(* A change as it is shown.                                                *)
Change(b, u, pct, t, e, s, r) ==
    LET v == InUnit(u, r, b.terms[t].engines[e].variation[s][r])
    IN  IF s = "requests" /\ HasValues(pct)
        THEN IF <<r, t, e>> \in Columns /\ pct[<<r, t, e>>] # Null
             THEN Percent(pct[<<r, t, e>>]) ELSE v
        ELSE Share(InUnit(u, r, b.current[s][r]), v)

(* The document that is shown of the blob b.                               *)
Shown(b, u, handler, pct, j) ==
    /\ SameEngines(b, j)
    /\ j.current = ConfigInUnits(u, b.current) /\ j.notes = Known(b.notes)
    /\ \A t \in Terms :
          /\ j.terms[t].notes = Known(b.terms[t].notes)
          /\ j.terms[t].plots
               = Plots(u, IF handler \in Lists THEN <<>> ELSE b.terms[t].plots)
          /\ \A e \in DOMAIN b.terms[t].engines :
                /\ j.terms[t].engines[e].config
                     = ConfigInUnits(u, b.terms[t].engines[e].config)
                /\ j.terms[t].engines[e].notes
                     = Known(b.terms[t].engines[e].notes)
                /\ \A s \in Sections, r \in Res :
                      j.terms[t].engines[e].variation[s][r]
                        = Change(b, u, pct, t, e, s, r)

(* The steps of UpdateRecommendationJSON together, field by field.         *)
LEMMA JsonFacts ==
    ASSUME NEW b, Shaped(b), NEW u, NEW handler, NEW pct
    PROVE  Shown(b, u, handler, pct, UpdateRecommendationJSON(handler, u, b, pct))
<1> DEFINE plain == IF handler \in Lists THEN dropBoxPlotsObject(b) ELSE b
           units == transformComponentUnits(u, plain)
           clean == filterNotifications(units)
           set == IF HasValues(pct) THEN injectStoredRequestVariationPct(clean, pct)
                  ELSE clean
           j == convertVariationToPercentage(set, HasValues(pct))
<1>1. UpdateRecommendationJSON(handler, u, b, pct) = j
  BY DEF UpdateRecommendationJSON
<1>2. /\ Shaped(plain) /\ SameEngines(b, plain)
      /\ plain.current = b.current /\ plain.notes = b.notes
      /\ \A t \in Terms :
            /\ plain.terms[t].notes = b.terms[t].notes
            /\ plain.terms[t].engines = b.terms[t].engines
            /\ plain.terms[t].plots
                 = IF handler \in Lists THEN <<>> ELSE b.terms[t].plots
  <2>1. WithoutPlots(b, dropBoxPlotsObject(b))
    BY DropFacts
  <2> QED
    BY <2>1 DEF WithoutPlots, SameEngines
<1> HIDE DEF plain
<1>3. InUnits(u, plain, units)
  BY <1>2, UnitsFacts
<1> HIDE DEF units
<1>4. NotesKnown(units, clean)
  BY <1>3, NotesFacts DEF InUnits
<1> HIDE DEF clean
<1>5. ASSUME NEW t \in Terms
      PROVE  /\ DOMAIN clean.terms[t].engines = DOMAIN b.terms[t].engines
             /\ clean.terms[t].notes = Known(b.terms[t].notes)
             /\ clean.terms[t].plots
                  = Plots(u, IF handler \in Lists THEN <<>> ELSE b.terms[t].plots)
  <2>1. /\ DOMAIN units.terms[t].engines = DOMAIN b.terms[t].engines
        /\ units.terms[t].notes = b.terms[t].notes
        /\ units.terms[t].plots = Plots(u, plain.terms[t].plots)
    BY <1>2, <1>3 DEF InUnits, SameEngines
  <2>2. plain.terms[t].plots
          = IF handler \in Lists THEN <<>> ELSE b.terms[t].plots
    BY <1>2
  <2> QED
    BY <1>4, <2>1, <2>2 DEF NotesKnown, SameEngines
<1>6. ASSUME NEW t \in Terms, NEW e \in DOMAIN b.terms[t].engines
      PROVE  /\ clean.terms[t].engines[e].config
                  = ConfigInUnits(u, b.terms[t].engines[e].config)
             /\ clean.terms[t].engines[e].variation
                  = ConfigInUnits(u, b.terms[t].engines[e].variation)
             /\ clean.terms[t].engines[e].notes
                  = Known(b.terms[t].engines[e].notes)
  <2>1. plain.terms[t].engines[e] = b.terms[t].engines[e]
        /\ e \in DOMAIN plain.terms[t].engines
    BY <1>2, <1>6
  <2>2. /\ units.terms[t].engines[e].config
             = ConfigInUnits(u, b.terms[t].engines[e].config)
        /\ units.terms[t].engines[e].variation
             = ConfigInUnits(u, b.terms[t].engines[e].variation)
        /\ units.terms[t].engines[e].notes = b.terms[t].engines[e].notes
        /\ e \in DOMAIN units.terms[t].engines
    BY <1>3, <2>1 DEF InUnits, SameEngines
  <2> QED
    BY <1>4, <2>2 DEF NotesKnown
<1>7. /\ Shaped(clean) /\ clean.notes = Known(b.notes)
      /\ clean.current = ConfigInUnits(u, b.current)
  BY <1>2, <1>3, <1>4 DEF InUnits, NotesKnown
<1>8. Injected(clean, pct, injectStoredRequestVariationPct(clean, pct))
  BY <1>7, InjectFacts
<1>9. OnlyVariations(clean, set)
  <2>1. CASE HasValues(pct)
    BY <1>8, <2>1 DEF Injected
  <2>2. CASE ~HasValues(pct)
    BY <1>7, <2>2 DEF OnlyVariations, SameEngines
  <2> QED
    BY <2>1, <2>2
<1>10. ASSUME NEW t \in Terms, NEW e \in DOMAIN b.terms[t].engines,
              NEW s \in Sections, NEW r \in Res
       PROVE  set.terms[t].engines[e].variation[s][r] =
                IF /\ HasValues(pct) /\ s = "requests"
                   /\ <<r, t, e>> \in Columns /\ pct[<<r, t, e>>] # Null
                THEN Percent(pct[<<r, t, e>>])
                ELSE InUnit(u, r, b.terms[t].engines[e].variation[s][r])
  <2> DEFINE old == clean.terms[t].engines[e].variation
             new == set.terms[t].engines[e].variation
  <2>1. /\ DOMAIN old = Sections
        /\ \A q \in Sections, k \in Res :
              old[q][k] = InUnit(u, k, b.terms[t].engines[e].variation[q][k])
    <3>1. old = ConfigInUnits(u, b.terms[t].engines[e].variation)
      BY <1>6
    <3> HIDE DEF old
    <3> QED
      BY <3>1 DEF ConfigInUnits
  <2>2. CASE HasValues(pct)
    <3>1. e \in DOMAIN clean.terms[t].engines
      BY <1>5
    <3> DEFINE given == [k \in Res |-> IF /\ <<k, t, e>> \in Columns
                                           /\ pct[<<k, t, e>>] # Null
                                        THEN Percent(pct[<<k, t, e>>])
                                        ELSE old.requests[k]]
    <3>2. new = [old EXCEPT !.requests = given]
      BY <1>8, <2>2, <3>1 DEF Injected
    <3>3. given[r] = IF <<r, t, e>> \in Columns /\ pct[<<r, t, e>>] # Null
                     THEN Percent(pct[<<r, t, e>>]) ELSE old.requests[r]
      OBVIOUS
    <3> HIDE DEF given
    <3>4. s = "requests" \/ s = "limits"
      BY DEF Sections
    <3>5. "requests" \in DOMAIN old /\ old[s][r] =
             InUnit(u, r, b.terms[t].engines[e].variation[s][r])
      BY <2>1 DEF Sections
    <3> HIDE DEF old
    <3>6. new[s][r] = IF s = "requests" THEN given[r] ELSE old[s][r]
      <4> HIDE DEF new
      <4>1. [old EXCEPT !.requests = given][s] =
               IF s = "requests" THEN given ELSE old[s]
        BY <2>1, <3>4, <3>5 DEF Sections
      <4> QED
        BY <3>2, <4>1
    <3>7. new[s][r] = set.terms[t].engines[e].variation[s][r]
      OBVIOUS
    <3> HIDE DEF new
    <3> QED
      BY <2>2, <3>3, <3>5, <3>6, <3>7
  <2>3. CASE ~HasValues(pct)
    <3>1. new = old
      BY <2>3
    <3> HIDE DEF old, new
    <3>2. new[s][r] = InUnit(u, r, b.terms[t].engines[e].variation[s][r])
      BY <2>1, <3>1
    <3> QED
      BY <2>3, <3>2 DEF new
  <2> QED
    BY <2>2, <2>3
<1> HIDE DEF set
<1>11. Shares(set, HasValues(pct), j)
  BY <1>9, SharesFacts DEF OnlyVariations
<1> HIDE DEF j
<1>12. ASSUME NEW t \in Terms
       PROVE  /\ DOMAIN set.terms[t].engines = DOMAIN b.terms[t].engines
              /\ DOMAIN j.terms[t].engines = DOMAIN b.terms[t].engines
              /\ j.terms[t].notes = Known(b.terms[t].notes)
              /\ j.terms[t].plots
                   = Plots(u, IF handler \in Lists THEN <<>> ELSE b.terms[t].plots)
  <2>1. /\ DOMAIN set.terms[t].engines = DOMAIN b.terms[t].engines
        /\ set.terms[t].notes = Known(b.terms[t].notes)
        /\ set.terms[t].plots
             = Plots(u, IF handler \in Lists THEN <<>> ELSE b.terms[t].plots)
    BY <1>5, <1>9 DEF OnlyVariations, SameEngines
  <2> QED
    BY <1>11, <2>1 DEF Shares, OnlyVariations, SameEngines
<1>13. /\ set.current = ConfigInUnits(u, b.current)
       /\ j.current = ConfigInUnits(u, b.current) /\ j.notes = Known(b.notes)
  BY <1>7, <1>9, <1>11 DEF Shares, OnlyVariations
<1>14. ASSUME NEW t \in Terms, NEW e \in DOMAIN b.terms[t].engines
       PROVE  /\ j.terms[t].engines[e].config
                   = ConfigInUnits(u, b.terms[t].engines[e].config)
              /\ j.terms[t].engines[e].notes
                   = Known(b.terms[t].engines[e].notes)
  <2>1. /\ set.terms[t].engines[e].config
             = ConfigInUnits(u, b.terms[t].engines[e].config)
        /\ set.terms[t].engines[e].notes
             = Known(b.terms[t].engines[e].notes)
    BY <1>5, <1>6, <1>9 DEF OnlyVariations
  <2>2. e \in DOMAIN set.terms[t].engines
    BY <1>12
  <2> QED
    BY <1>11, <2>1, <2>2 DEF Shares, OnlyVariations
<1>15. ASSUME NEW t \in Terms, NEW e \in DOMAIN b.terms[t].engines,
              NEW s \in Sections, NEW r \in Res
       PROVE  j.terms[t].engines[e].variation[s][r]
                = Change(b, u, pct, t, e, s, r)
  <2> DEFINE old == set.terms[t].engines[e].variation
  <2>1. e \in DOMAIN set.terms[t].engines
    BY <1>12
  <2>2. j.terms[t].engines[e].variation[s][r]
          = IF s = "requests" /\ HasValues(pct) THEN old[s][r]
            ELSE Share(set.current[s][r], old[s][r])
    <3>1. j.terms[t].engines[e].variation
            = [q \in Sections |->
                 IF q = "requests" /\ HasValues(pct) THEN old[q]
                 ELSE [k \in Res |-> Share(set.current[q][k], old[q][k])]]
      BY <1>11, <2>1 DEF Shares
    <3> HIDE DEF old
    <3> QED
      BY <3>1
  <2>3. set.current[s][r] = InUnit(u, r, b.current[s][r])
    BY <1>13 DEF ConfigInUnits
  <2>4. old[s][r] =
          IF /\ HasValues(pct) /\ s = "requests"
             /\ <<r, t, e>> \in Columns /\ pct[<<r, t, e>>] # Null
          THEN Percent(pct[<<r, t, e>>])
          ELSE InUnit(u, r, b.terms[t].engines[e].variation[s][r])
    BY <1>10
  <2> HIDE DEF old
  <2> QED
    BY <2>2, <2>3, <2>4 DEF Change
<1>16. SameEngines(b, j)
  BY <1>12 DEF SameEngines
<1>17. Shown(b, u, handler, pct, j)
  BY <1>12, <1>13, <1>14, <1>15, <1>16 DEF Shown
<1> QED
  BY <1>1, <1>17

-----------------------------------------------------------------------------
(* The row as it was saved, or from a time before its columns existed.     *)
Saved(d) ==
    [stored |-> TRUE, blob |-> Marshal(d),
     now |-> ExtractRecommendationColumnValues(d).now,
     pct |-> ExtractRecommendationColumnValues(d).pct]

Unfilled(d) == [stored |-> TRUE, blob |-> Marshal(d), now |-> NoNow, pct |-> NoPcts]

RowInv == row = NoRow \/ \E d \in Kruize : row = Saved(d) \/ row = Unfilled(d)

(* The units a request may end up with.                                    *)
UnitSet == [cpu : CpuUnits, memory : MemoryUnits, k8s : BOOLEAN]

(* An answer that shows the row was made of the row as it is.              *)
ReplyInv ==
    reply.shown =>
        /\ row.stored
        /\ \E h \in {"list", "detail"}, u \in UnitSet :
              /\ reply.units = u /\ reply.list = (h = "list")
              /\ reply.json = UpdateRecommendationJSON(HandlerName(h), u,
                                                       row.blob, row.pct)

ShownInv == kind \in Kinds /\ RowInv /\ ReplyInv

(* A row is what a save made of an answer of Kruize, or one a migration    *)
(* left without columns, and a reply is what a handler made of the row.    *)
LEMMA ShownInvInductive ==
    /\ Init => ShownInv
    /\ ShownInv /\ [Next]_vars => ShownInv'
<1>0. reply = NoReply => ~reply.shown
  BY DEF NoReply
<1>1. ASSUME Init
      PROVE  ShownInv
  <2>1. kind \in Kinds /\ reply = NoReply
    BY <1>1 DEF Init
  <2>2. RowInv
    BY <1>1 DEF Init, RowInv, Unfilled
  <2> QED
    BY <1>0, <2>1, <2>2 DEF ShownInv, ReplyInv
<1>2. ASSUME ShownInv, [Next]_vars
      PROVE  ShownInv'
  <2>k. kind' = kind /\ kind \in Kinds
    BY <1>2 DEF ShownInv, Next, Save, Drop, List, Detail, Deliver, vars
  <2>h. \A h : HandlerName(h)' = HandlerName(h)
    BY <2>k DEF HandlerName
  <2>1. ASSUME NEW d \in Kruize, Save(d)
        PROVE  ShownInv'
    <3>1. reply = NoReply /\ reply' = reply
      BY <2>1 DEF Save
    <3>2. row' = Saved(d)
      <4> DEFINE new == ExtractRecommendationColumnValues(d)
      <4>1. new.pct = [c \in Columns |-> new.pct[c]]
        BY DEF ExtractRecommendationColumnValues
      <4>2. row' = [stored |-> TRUE, blob |-> Marshal(d), now |-> new.now,
                    pct |-> [c \in Columns |-> new.pct[c]]]
        BY <2>1 DEF Save, UpdatedColumns
      <4> QED
        BY <4>1, <4>2 DEF Saved
    <3>3. RowInv'
      BY <3>2 DEF RowInv
    <3>4. ReplyInv'
      BY <1>0, <3>1 DEF ReplyInv
    <3> QED
      BY <2>k, <3>3, <3>4 DEF ShownInv
  <2>2. CASE Drop
    <3>1. reply = NoReply /\ reply' = reply /\ row' = NoRow
      BY <2>2 DEF Drop
    <3> QED
      BY <1>0, <2>k, <3>1 DEF ShownInv, RowInv, ReplyInv
  <2>3. ASSUME NEW q \in Units, NEW h \in {"list", "detail"}, ~BadUnits(q),
               reply' = Present(h, q), row' = row, row.stored
        PROVE  ShownInv'
    <3> DEFINE u == ParseUnitParams(h, q)
    <3>1. u \in UnitSet
      BY <2>3 DEF Units, BadUnits, ParseUnitParams, UnitSet, CpuUnits, MemoryUnits
    <3> HIDE DEF u
    <3>2. /\ reply'.units = u /\ reply'.list = (h = "list")
          /\ reply'.json = UpdateRecommendationJSON(HandlerName(h), u,
                                                    row.blob, row.pct)
      BY <2>3 DEF Present, u
    <3>3. ReplyInv'
      BY <2>3, <2>h, <3>1, <3>2 DEF ReplyInv
    <3>4. RowInv'
      BY <1>2, <2>3 DEF ShownInv, RowInv
    <3> QED
      BY <2>k, <3>3, <3>4 DEF ShownInv
  <2>4. ASSUME ~reply'.shown, row' = row
        PROVE  ShownInv'
    <3>1. RowInv'
      BY <1>2, <2>4 DEF ShownInv, RowInv
    <3> QED
      BY <2>k, <2>4, <3>1 DEF ShownInv, ReplyInv
  <2>5. ASSUME NEW q \in Units, List(q)
        PROVE  ShownInv'
    <3>1. /\ row' = row
          /\ \/ reply' = Error(400)
             \/ reply' = [status |-> 200, shown |-> FALSE]
             \/ ~BadUnits(q) /\ row.stored /\ reply' = Present("list", q)
      BY <2>5 DEF List
    <3>2. CASE ~BadUnits(q) /\ row.stored /\ reply' = Present("list", q)
      BY <2>3, <3>1, <3>2
    <3>3. CASE reply' = Error(400) \/ reply' = [status |-> 200, shown |-> FALSE]
      <4>1. ~reply'.shown
        BY <3>3 DEF Error
      <4> QED
        BY <2>4, <3>1, <4>1
    <3> QED
      BY <3>1, <3>2, <3>3
  <2>6. ASSUME NEW q \in Units, NEW id, Detail(id, q)
        PROVE  ShownInv'
    <3>1. /\ row' = row
          /\ \/ reply' = Error(400)
             \/ reply' = Error(404)
             \/ ~BadUnits(q) /\ row.stored /\ reply' = Present("detail", q)
      BY <2>6 DEF Detail, Found
    <3>2. CASE ~BadUnits(q) /\ row.stored /\ reply' = Present("detail", q)
      BY <2>3, <3>1, <3>2
    <3>3. CASE reply' = Error(400) \/ reply' = Error(404)
      <4>1. ~reply'.shown
        BY <3>3 DEF Error
      <4> QED
        BY <2>4, <3>1, <4>1
    <3> QED
      BY <3>1, <3>2, <3>3
  <2>7. CASE Deliver
    <3>1. row' = row /\ reply' = NoReply
      BY <2>7 DEF Deliver
    <3>2. ~reply'.shown
      BY <3>1 DEF NoReply
    <3> QED
      BY <2>4, <3>1, <3>2
  <2>8. CASE UNCHANGED vars
    <3>1. row' = row /\ reply' = reply
      BY <2>8 DEF vars
    <3> QED
      BY <1>2, <2>k, <2>h, <3>1 DEF ShownInv, RowInv, ReplyInv
  <2> QED
    BY <1>2, <2>1, <2>2, <2>5, <2>6, <2>7, <2>8 DEF Next
<1> QED
  BY <1>1, <1>2

(* What is known of an answer and its blob.                                *)
LEMMA AnswerFacts ==
    ASSUME NEW d \in Kruize
    PROVE  /\ Shaped(d) /\ IsBlob(d, Marshal(d))
           /\ d.current \in Amounts(Nat)
           /\ \A t \in Terms :
                 /\ DOMAIN d.terms[t].engines \subseteq Engines
                 /\ \A r \in DOMAIN d.terms[t].plots :
                       r \in Res /\ d.terms[t].plots[r] \in Int
                 /\ \A e \in DOMAIN d.terms[t].engines :
                       /\ d.terms[t].engines[e].config \in Amounts(Int)
                       /\ d.terms[t].engines[e].variation \in Amounts(Int)
<1>1. Answer(d)
  BY PresentationAssumption
<1>2. Shaped(d)
  BY <1>1 DEF Answer, Shaped, TermFields, EngineFields
<1>3. IsBlob(d, Marshal(d))
  BY <1>2, MarshalFacts
<1>4. \A t \in Terms : DOMAIN d.terms[t].engines \subseteq Engines
  <2> TAKE t \in Terms
  <2>1. DOMAIN d.terms[t].engines \in {{}, Engines}
    BY <1>1 DEF Answer
  <2> QED
    BY <2>1
<1>5. /\ d.current \in Amounts(Nat)
      /\ \A t \in Terms :
            /\ \A r \in DOMAIN d.terms[t].plots :
                  r \in Res /\ d.terms[t].plots[r] \in Int
            /\ \A e \in DOMAIN d.terms[t].engines :
                  /\ d.terms[t].engines[e].config \in Amounts(Int)
                  /\ d.terms[t].engines[e].variation \in Amounts(Int)
  BY <1>1 DEF Answer
<1> QED
  BY <1>2, <1>3, <1>4, <1>5

(* A zero amount is omitted, any other is stored.                          *)
LEMMA AmountFacts ==
    ASSUME NEW r, NEW a
    PROVE  /\ HasAmount(MarshalAmount(r, a)) <=> a # 0
           /\ a # 0 => MarshalAmount(r, a).amount = a
           /\ \A u : /\ HasAmount(InUnit(u, r, MarshalAmount(r, a))) <=> a # 0
                     /\ a = 0 => InUnit(u, r, MarshalAmount(r, a))
                                   = MarshalAmount(r, a)
                     /\ a # 0 =>
                          /\ InUnit(u, r, MarshalAmount(r, a)).amount
                               = Convert(r, u[r], a)
                          /\ InUnit(u, r, MarshalAmount(r, a)).format
                               = Format(u, r)
<1> DEFINE v == MarshalAmount(r, a)
<1>1. /\ HasAmount(v) <=> a # 0
      /\ a # 0 => v.amount = a
  BY DEF HasAmount, MarshalAmount
<1> HIDE DEF v
<1>2. ASSUME NEW u
      PROVE  /\ HasAmount(InUnit(u, r, v)) <=> a # 0
             /\ a = 0 => InUnit(u, r, v) = v
             /\ a # 0 => /\ InUnit(u, r, v).amount = Convert(r, u[r], a)
                         /\ InUnit(u, r, v).format = Format(u, r)
  <2>1. CASE a = 0
    <3>1. ~HasAmount(v)
      BY <1>1, <2>1
    <3>2. InUnit(u, r, v) = v
      BY <3>1 DEF InUnit
    <3> QED
      BY <2>1, <3>1, <3>2
  <2>2. CASE a # 0
    <3>1. HasAmount(v) /\ v.amount = a
      BY <1>1, <2>2
    <3>2. InUnit(u, r, v) = [amount |-> Convert(r, u[r], a), format |-> Format(u, r)]
      BY <3>1 DEF InUnit
    <3> QED
      BY <2>2, <3>2 DEF HasAmount
  <2> QED
    BY <2>1, <2>2
<1> QED
  BY <1>1, <1>2 DEF v

(* The share of a change in what there is, both converted first.           *)
LEMMA ShareFacts ==
    ASSUME NEW r \in Res, NEW unit \in UnitsOf(r), NEW a \in Int, NEW n \in Nat
    PROVE  IsShare(CalculatePercentage(Convert(r, unit, a), Convert(r, unit, n)),
                   a, n)
<1> DEFINE change == Convert(r, unit, a)
           base == Convert(r, unit, n)
           p == CalculatePercentage(change, base)
<1>1. /\ change \in Int /\ (a >= 0 => change >= 0) /\ (a <= 0 => change <= 0)
      /\ a >= -n /\ a <= 0 => change >= -base
  BY ConvertFacts
<1>2. base \in Nat
  <2>1. base \in Int /\ (n >= 0 => base >= 0)
    BY ConvertFacts
  <2> QED
    BY <2>1
<1> HIDE DEF change, base
<1>3. IsShare(p, change, base)
  BY <1>1, <1>2, PercentFacts
<1> HIDE DEF p
<1>4. IsShare(p, a, n)
  BY <1>1, <1>2, <1>3 DEF IsShare
<1> QED
  BY <1>4 DEF p, change, base

(* No amount is none after the conversion.                                 *)
LEMMA ZeroConverted ==
    ASSUME NEW r \in Res, NEW unit \in UnitsOf(r)
    PROVE  Convert(r, unit, 0) = 0
<1>1. /\ Convert(r, unit, 0) \in Int /\ (0 >= 0 => Convert(r, unit, 0) >= 0)
      /\ 0 <= 0 => Convert(r, unit, 0) <= 0
  BY ConvertFacts
<1> QED
  BY <1>1

(* The unit of a column, and what it holds.                                *)
ColumnUnit(r) == IF r = "cpu" THEN "cores" ELSE "MiB"

IsColumn(d, r, t, e, p) ==
    LET a == d.terms[t].engines[e].variation.requests[r]
        n == Clamp(d.current.requests[r], MaxNow[r])
    IN  IF e \in DOMAIN d.terms[t].engines
        THEN /\ a \in Int /\ n \in Nat /\ p \in -MaxPct .. MaxPct
             /\ p = Clamp(CalculatePercentage(Convert(r, ColumnUnit(r), a),
                                              Convert(r, ColumnUnit(r), n)),
                          MaxPct)
        ELSE p = Null

(* What a save puts in a column is that share.                             *)
LEMMA ColumnFacts ==
    ASSUME NEW d \in Kruize, NEW r \in Res, NEW t \in Terms, NEW e \in Engines
    PROVE  IsColumn(d, r, t, e,
                    ExtractRecommendationColumnValues(d).pct[<<r, t, e>>])
<1> DEFINE p == ExtractRecommendationColumnValues(d).pct[<<r, t, e>>]
           a == d.terms[t].engines[e].variation.requests[r]
           m == d.current.requests[r]
           n == Clamp(m, MaxNow[r])
           q == CalculatePercentage(Convert(r, ColumnUnit(r), a),
                                    Convert(r, ColumnUnit(r), n))
<1>1. <<r, t, e>> \in Columns
  BY DEF Columns
<1>2. p = IF e \in DOMAIN d.terms[t].engines THEN VariationPercent(r, a, n) ELSE Null
  BY <1>1 DEF ExtractRecommendationColumnValues
<1>3. VariationPercent(r, a, n) = Clamp(q, MaxPct)
  BY DEF VariationPercent, ColumnUnit
<1>4. n \in Nat
  <2>1. m \in Nat /\ MaxNow[r] \in Nat
    BY AnswerFacts, PresentationAssumption DEF Amounts, Sections
  <2> DEFINE max == MaxNow[r]
  <2>2. n = Clamp(m, max)
    OBVIOUS
  <2> HIDE DEF m, max, n
  <2>3. n \in -max .. max /\ (n < 0 => m < 0)
    BY <2>1, <2>2, ClampFacts DEF max
  <2> QED
    BY <2>1, <2>3 DEF max
<1>5. ASSUME e \in DOMAIN d.terms[t].engines
      PROVE  a \in Int /\ Clamp(q, MaxPct) \in -MaxPct .. MaxPct
  <2>1. d.terms[t].engines[e].variation \in Amounts(Int)
    BY <1>5, AnswerFacts
  <2>2. a \in Int
    BY <2>1 DEF Amounts, Sections
  <2>3. ColumnUnit(r) \in UnitsOf(r)
    BY DEF ColumnUnit, UnitsOf, CpuUnits, MemoryUnits
  <2> HIDE DEF a, n
  <2>4. q \in Int
    BY <1>4, <2>2, <2>3, ShareFacts DEF IsShare
  <2> HIDE DEF q
  <2> QED
    BY <2>2, <2>4, ClampFacts, PresentationAssumption
<1> HIDE DEF p, a, n, q
<1>6. IF e \in DOMAIN d.terms[t].engines
      THEN a \in Int /\ n \in Nat /\ p \in -MaxPct .. MaxPct /\ p = Clamp(q, MaxPct)
      ELSE p = Null
  BY <1>2, <1>3, <1>4, <1>5
<1>7. IsColumn(d, r, t, e, p)
  BY <1>6 DEF IsColumn, a, n, q, m
<1> QED
  BY <1>7 DEF p

-----------------------------------------------------------------------------
(* A stored row is that of an answer, with columns of that answer or none. *)
LEMMA RowFacts ==
    ASSUME RowInv, row.stored
    PROVE  \E d \in Kruize :
              /\ row.blob = Marshal(d)
              /\ \/ row.pct = ExtractRecommendationColumnValues(d).pct
                 \/ row.pct = NoPcts
<1>1. row # NoRow
  BY DEF NoRow
<1>2. PICK d \in Kruize : row = Saved(d) \/ row = Unfilled(d)
  BY <1>1 DEF RowInv
<1>3. /\ row.blob = Marshal(d)
      /\ \/ row.pct = ExtractRecommendationColumnValues(d).pct
         \/ row.pct = NoPcts
  BY <1>2 DEF Saved, Unfilled
<1> QED
  BY <1>3

(* A row without values has none in any column.                            *)
LEMMA NothingStored == ~HasValues(NoPcts) /\ \A c \in Columns : NoPcts[c] = Null
  BY DEF HasValues, NoPcts

(* A row has a value in the columns of exactly the terms its blob has      *)
(* engines for, and every value fits: for every answer of Kruize and       *)
(* whatever was stored before.                                             *)
THEOREM ColumnsAreWhole == Spec => []ColumnsWhole
<1>1. ASSUME ShownInv, row.stored, HasValues(row.pct), NEW c \in Columns
      PROVE  /\ row.pct[c] # Null <=> c[3] \in DOMAIN row.blob.terms[c[2]].engines
             /\ row.pct[c] # Null => row.pct[c] \in -MaxPct .. MaxPct
  <2>1. PICK d \in Kruize : /\ row.blob = Marshal(d)
                            /\ row.pct = ExtractRecommendationColumnValues(d).pct
    BY <1>1, RowFacts, NothingStored DEF ShownInv
  <2>2. PICK r \in Res, t \in Terms, e \in Engines : c = <<r, t, e>>
    BY DEF Columns
  <2> DEFINE p == row.pct[c]
  <2>3. IsColumn(d, r, t, e, p)
    BY <2>1, <2>2, ColumnFacts
  <2>4. DOMAIN row.blob.terms[t].engines = DOMAIN d.terms[t].engines
    BY <2>1, AnswerFacts DEF IsBlob, SameEngines
  <2>5. c[2] = t /\ c[3] = e
    BY <2>2
  <2> HIDE DEF p
  <2>6. IF e \in DOMAIN d.terms[t].engines THEN p \in -MaxPct .. MaxPct ELSE p = Null
    BY <2>3 DEF IsColumn
  <2>7. Null \notin -MaxPct .. MaxPct
    BY PresentationAssumption
  <2> QED
    BY <2>4, <2>5, <2>6, <2>7 DEF p
<1>2. ASSUME ShownInv
      PROVE  ColumnsWhole
  BY <1>1, <1>2 DEF ColumnsWhole
<1> QED
  BY <1>2, ShownInvInductive, PTL DEF Spec

(* The amounts in a blob.                                                  *)
LEMMA BlobAmounts ==
    ASSUME NEW d \in Kruize, NEW s \in Sections, NEW r \in Res
    PROVE  /\ d.current[s][r] \in Nat
           /\ Marshal(d).current[s][r] = MarshalAmount(r, d.current[s][r])
           /\ \A t \in Terms : \A e \in DOMAIN d.terms[t].engines :
                 LET x == d.terms[t].engines[e]
                     y == Marshal(d).terms[t].engines[e]
                 IN  /\ x.config[s][r] \in Int /\ x.variation[s][r] \in Int
                     /\ y.config[s][r] = MarshalAmount(r, x.config[s][r])
                     /\ y.variation[s][r] = MarshalAmount(r, x.variation[s][r])
<1>1. \A c : MarshalConfig(c)[s][r] = MarshalAmount(r, c[s][r])
  BY DEF MarshalConfig
<1>2. IsBlob(d, Marshal(d)) /\ d.current \in Amounts(Nat)
  BY AnswerFacts
<1>3. d.current[s][r] \in Nat
  BY <1>2 DEF Amounts
<1>4. Marshal(d).current[s][r] = MarshalAmount(r, d.current[s][r])
  <2>1. Marshal(d).current = MarshalConfig(d.current)
    BY <1>2 DEF IsBlob
  <2> QED
    BY <1>1, <2>1
<1>5. ASSUME NEW t \in Terms, NEW e \in DOMAIN d.terms[t].engines
      PROVE  LET x == d.terms[t].engines[e]
                 y == Marshal(d).terms[t].engines[e]
             IN  /\ x.config[s][r] \in Int /\ x.variation[s][r] \in Int
                 /\ y.config[s][r] = MarshalAmount(r, x.config[s][r])
                 /\ y.variation[s][r] = MarshalAmount(r, x.variation[s][r])
  <2> DEFINE x == d.terms[t].engines[e]
             y == Marshal(d).terms[t].engines[e]
  <2>1. x.config \in Amounts(Int) /\ x.variation \in Amounts(Int)
    BY <1>5, AnswerFacts
  <2>2. /\ y.config = MarshalConfig(x.config)
        /\ y.variation = MarshalConfig(x.variation)
    BY <1>2, <1>5 DEF IsBlob
  <2> HIDE DEF x, y
  <2>3. x.config[s][r] \in Int /\ x.variation[s][r] \in Int
    BY <2>1 DEF Amounts
  <2>4. /\ y.config[s][r] = MarshalAmount(r, x.config[s][r])
        /\ y.variation[s][r] = MarshalAmount(r, x.variation[s][r])
    BY <1>1, <2>2
  <2> QED
    BY <2>3, <2>4 DEF x, y
<1> QED
  BY <1>3, <1>4, <1>5

(* The share that is shown of a change a in a current amount n.            *)
LEMMA ShareShown ==
    ASSUME NEW r \in Res, NEW u \in UnitSet, NEW a \in Int, NEW n \in Nat,
           NEW w, w = Share(InUnit(u, r, MarshalAmount(r, n)),
                            InUnit(u, r, MarshalAmount(r, a)))
    PROVE  /\ a = 0 => ~HasAmount(w)
           /\ a # 0 => w = Percent(CalculatePercentage(Convert(r, u[r], a),
                                                       Convert(r, u[r], n)))
           /\ u[r] \in UnitsOf(r)
<1> DEFINE old == InUnit(u, r, MarshalAmount(r, a))
           now == InUnit(u, r, MarshalAmount(r, n))
           base == IF HasAmount(now) THEN now.amount ELSE 0
<1>1. u[r] \in UnitsOf(r)
  BY DEF UnitSet, UnitsOf, Res
<1>2. /\ HasAmount(old) <=> a # 0
      /\ a # 0 => old.amount = Convert(r, u[r], a)
      /\ HasAmount(now) <=> n # 0
      /\ n # 0 => now.amount = Convert(r, u[r], n)
  BY AmountFacts
<1>3. w = Share(now, old)
  OBVIOUS
<1> HIDE DEF old, now
<1>4. base = Convert(r, u[r], n)
  BY <1>1, <1>2, ZeroConverted
<1>5. a = 0 => ~HasAmount(w)
  BY <1>2, <1>3 DEF Share
<1>6. a # 0 => w = Percent(CalculatePercentage(Convert(r, u[r], a), base))
  BY <1>2, <1>3 DEF Share
<1> QED
  BY <1>1, <1>4, <1>5, <1>6

(* A percentage taken from a column is shown with its amount.              *)
LEMMA PercentHasAmount ==
    ASSUME NEW p
    PROVE  /\ HasAmount(Percent(p)) /\ Percent(p).amount = p
           /\ Percent(p).format = "percent"
  BY DEF HasAmount, Percent

(* A column holds what the API computes of the blob in cores and MiB, cut  *)
(* to the range of the column, unless the current request is out of its    *)
(* own: the comment of RecommendationColumnValues, for every amount.       *)
THEOREM StoredIsRecomputed == Spec => []StoredAsRecomputed
<1> DEFINE u == [cpu |-> "cores", memory |-> "MiB", k8s |-> TRUE]
           json == UpdateRecommendationJSON("recommendationset", u, row.blob, NoPcts)
<1>1. ASSUME ShownInv, row.stored, NEW c \in Columns, row.pct[c] # Null,
             CurrentFits(c[1])
      PROVE  LET v == json.terms[c[2]].engines[c[3]].variation.requests[c[1]]
             IN  row.pct[c] = IF HasAmount(v) THEN Clamp(v.amount, MaxPct) ELSE 0
  <2>1. PICK d \in Kruize : /\ row.blob = Marshal(d)
                            /\ row.pct = ExtractRecommendationColumnValues(d).pct
    BY <1>1, RowFacts, NothingStored DEF ShownInv
  <2>2. PICK r \in Res, t \in Terms, e \in Engines : c = <<r, t, e>>
    BY DEF Columns
  <2> DEFINE p == row.pct[c]
             v == json.terms[t].engines[e].variation.requests[r]
             a == d.terms[t].engines[e].variation.requests[r]
             m == d.current.requests[r]
             n == Clamp(m, MaxNow[r])
             q == CalculatePercentage(Convert(r, u[r], a), Convert(r, u[r], m))
  <2>3. c[1] = r /\ c[2] = t /\ c[3] = e
    BY <2>2
  <2>4. u \in UnitSet /\ u[r] = ColumnUnit(r)
    BY DEF UnitSet, CpuUnits, MemoryUnits, ColumnUnit, Res
  <2>5. "requests" \in Sections
    BY DEF Sections
  <2>6. IsColumn(d, r, t, e, p)
    BY <2>1, <2>2, ColumnFacts
  <2>7. e \in DOMAIN d.terms[t].engines
    BY <1>1, <2>6 DEF IsColumn
  <2>8. /\ m \in Nat /\ row.blob.current.requests[r] = MarshalAmount(r, m)
        /\ a \in Int
        /\ row.blob.terms[t].engines[e].variation.requests[r] = MarshalAmount(r, a)
    <3>1. /\ m \in Nat /\ Marshal(d).current.requests[r] = MarshalAmount(r, m)
          /\ \A y \in Terms : \A z \in DOMAIN d.terms[y].engines :
                LET x == d.terms[y].engines[z].variation.requests[r]
                IN  /\ x \in Int
                    /\ Marshal(d).terms[y].engines[z].variation.requests[r] =
                       MarshalAmount(r, x)
      BY <2>5, BlobAmounts, ZenonT(60)
    <3> QED
      BY <2>1, <2>2, <2>7, <3>1, ZenonT(60)
  <2>9. n = m
    <3> DEFINE max == MaxNow[r]
    <3>1. max \in Nat
      BY PresentationAssumption
    <3>2. m # 0 => m <= max
      <4>1. HasAmount(row.blob.current.requests[r]) =>
               row.blob.current.requests[r].amount <= MaxNow[r]
        BY <1>1, <2>3 DEF CurrentFits
      <4> QED
        BY <2>8, <4>1, AmountFacts
    <3> HIDE DEF m, max
    <3>3. Clamp(m, max) = m
      BY <2>8, <3>1, <3>2 DEF Clamp
    <3> QED
      BY <3>3 DEF max
  <2>10. p = Clamp(q, MaxPct)
    BY <2>4, <2>6, <2>7, <2>9 DEF IsColumn
  <2>11. v = Share(InUnit(u, r, MarshalAmount(r, m)),
                   InUnit(u, r, MarshalAmount(r, a)))
    <3>1. Shaped(row.blob)
      BY <2>1, AnswerFacts DEF IsBlob
    <3>2. Shown(row.blob, u, "recommendationset", NoPcts, json)
      BY <3>1, JsonFacts
    <3>3. e \in DOMAIN row.blob.terms[t].engines
      BY <2>1, <2>7, AnswerFacts DEF IsBlob, SameEngines
    <3> HIDE DEF json
    <3>4. v = Change(row.blob, u, NoPcts, t, e, "requests", r)
      BY <2>5, <3>2, <3>3 DEF Shown
    <3> HIDE DEF u, v
    <3> QED
      BY <2>8, <3>4, NothingStored DEF Change
  <2> HIDE DEF p, v, json, u, a, m, n
  <2>12. /\ a = 0 => ~HasAmount(v)
         /\ a # 0 => v = Percent(q)
    BY <2>4, <2>8, <2>11, ShareShown
  <2>13. a = 0 => q = 0
    <3>1. ColumnUnit(r) \in UnitsOf(r)
      BY DEF ColumnUnit, UnitsOf, CpuUnits, MemoryUnits
    <3>2. a = 0 => Convert(r, u[r], a) = 0
      BY <2>4, <3>1, ZeroConverted
    <3> QED
      BY <3>2 DEF CalculatePercentage
  <2> HIDE DEF q
  <2>14. Clamp(0, MaxPct) = 0
    BY PresentationAssumption DEF Clamp
  <2>15. p = IF HasAmount(v) THEN Clamp(v.amount, MaxPct) ELSE 0
    BY <2>10, <2>12, <2>13, <2>14, PercentHasAmount
  <2> QED
    BY <2>3, <2>15 DEF p, v
<1>2. ASSUME ShownInv
      PROVE  StoredAsRecomputed
  BY <1>1, <1>2 DEF StoredAsRecomputed
<1> QED
  BY <1>2, ShownInvInductive, PTL DEF Spec

(* An answer that shows the row, and the answer of Kruize behind it.       *)
ShowsOf(d, h, u) ==
    /\ row.blob = Marshal(d) /\ Shaped(row.blob)
    /\ \/ row.pct = ExtractRecommendationColumnValues(d).pct
       \/ row.pct = NoPcts
    /\ reply.units = u /\ reply.list = (h = "list")
    /\ Shown(row.blob, u, HandlerName(h), row.pct, reply.json)

(* Every reply shows what became of some answer of Kruize.                 *)
LEMMA ReplyFacts ==
    ASSUME ShownInv, reply.shown
    PROVE  \E d \in Kruize, h \in {"list", "detail"}, u \in UnitSet :
              ShowsOf(d, h, u)
<1>1. RowInv /\ ReplyInv /\ row.stored
  BY DEF ShownInv, ReplyInv
<1>2. PICK d \in Kruize : /\ row.blob = Marshal(d)
                          /\ \/ row.pct = ExtractRecommendationColumnValues(d).pct
                             \/ row.pct = NoPcts
  BY <1>1, RowFacts
<1>3. PICK h \in {"list", "detail"}, u \in UnitSet :
         /\ reply.units = u /\ reply.list = (h = "list")
         /\ reply.json = UpdateRecommendationJSON(HandlerName(h), u,
                                                  row.blob, row.pct)
  BY <1>1 DEF ReplyInv
<1>4. Shaped(row.blob)
  BY <1>2, AnswerFacts DEF IsBlob
<1>5. Shown(row.blob, u, HandlerName(h), row.pct, reply.json)
  BY <1>3, <1>4, JsonFacts
<1>6. ShowsOf(d, h, u)
  BY <1>2, <1>3, <1>4, <1>5 DEF ShowsOf
<1> QED
  BY <1>6

(* Every change that is shown is a percentage in the direction of the      *)
(* change in the blob, the stored one where there is one, and no cut of    *)
(* more than 100 percent unless more is cut than there is.                 *)
THEOREM ChangesAreShown == Spec => []ChangesShown
<1>1. ASSUME ShownInv, reply.shown, NEW t \in Terms,
             NEW e \in DOMAIN row.blob.terms[t].engines,
             NEW s \in Sections, NEW r \in Res
      PROVE  ChangeFine(row.blob.current[s][r],
                        row.blob.terms[t].engines[e].variation[s][r],
                        reply.json.terms[t].engines[e].variation[s][r],
                        row.pct[<<r, t, e>>], s, r)
  <2>1. PICK d \in Kruize, h \in {"list", "detail"}, u \in UnitSet :
           ShowsOf(d, h, u)
    BY <1>1, ReplyFacts
  <2> DEFINE now == row.blob.current[s][r]
             old == row.blob.terms[t].engines[e].variation[s][r]
             new == reply.json.terms[t].engines[e].variation[s][r]
             a == d.terms[t].engines[e].variation[s][r]
             m == d.current[s][r]
             pct == row.pct[<<r, t, e>>]
             Good(p) == /\ p \in Int
                        /\ p > 0 => a > 0
                        /\ p < 0 => a < 0
                        /\ a >= -m /\ (s = "requests" => CurrentFits(r))
                           => p >= -100000
  <2>2. e \in DOMAIN d.terms[t].engines
    BY <1>1, <2>1, AnswerFacts DEF ShowsOf, IsBlob, SameEngines
  <2>3. e \in Engines /\ <<r, t, e>> \in Columns
    BY <2>2, AnswerFacts DEF Columns
  <2>4. /\ m \in Nat /\ now = MarshalAmount(r, m)
        /\ a \in Int /\ old = MarshalAmount(r, a)
    BY <2>1, <2>2, BlobAmounts, ZenonT(120) DEF ShowsOf
  <2>5. new = Change(row.blob, u, row.pct, t, e, s, r)
    BY <1>1, <2>1 DEF ShowsOf, Shown
  <2>6. \/ row.pct = ExtractRecommendationColumnValues(d).pct
        \/ row.pct = NoPcts
    BY <2>1 DEF ShowsOf
  <2> HIDE DEF now, old, new
  <2>7. CASE s = "requests" /\ HasValues(row.pct)
    <3>1. row.pct = ExtractRecommendationColumnValues(d).pct
      BY <2>6, <2>7, NothingStored
    <3>2. IsColumn(d, r, t, e, pct)
      BY <2>3, <3>1, ColumnFacts
    <3> DEFINE max == MaxNow[r]
               n == Clamp(m, max)
               q == CalculatePercentage(Convert(r, ColumnUnit(r), a),
                                        Convert(r, ColumnUnit(r), n))
    <3>3. n \in Nat /\ pct \in -MaxPct .. MaxPct /\ pct = Clamp(q, MaxPct)
      BY <2>2, <2>7, <3>2 DEF IsColumn
    <3>4. ColumnUnit(r) \in UnitsOf(r)
      BY DEF ColumnUnit, UnitsOf, CpuUnits, MemoryUnits
    <3> HIDE DEF n, a, m
    <3>5. IsShare(q, a, n)
      BY <2>4, <3>3, <3>4, ShareFacts
    <3> HIDE DEF q, pct
    <3>6. CurrentFits(r) => n = m
      <4>1. max \in Nat
        BY PresentationAssumption
      <4>2. CurrentFits(r) /\ m # 0 => m <= max
        <5>1. CurrentFits(r) /\ HasAmount(now) => now.amount <= MaxNow[r]
          BY <2>7 DEF CurrentFits, now
        <5>2. (HasAmount(now) <=> m # 0) /\ (m # 0 => now.amount = m)
          BY <2>4, AmountFacts
        <5> QED
          BY <5>1, <5>2
      <4> HIDE DEF max
      <4> QED
        BY <2>4, <4>1, <4>2 DEF n, Clamp
    <3>7. MaxPct \in Nat /\ Null \notin Int
      BY PresentationAssumption
    <3>8. q \in Int /\ (q > 0 => a > 0) /\ (q < 0 => a < 0)
          /\ (a >= -n => q >= -100000)
      BY <3>5 DEF IsShare
    <3>9. /\ pct > 0 => q > 0
          /\ pct < 0 => q < 0
          /\ pct >= q \/ pct >= 0
          /\ pct \in Int
      BY <3>3, <3>7, <3>8, ClampFacts
    <3>10. Good(pct)
      BY <2>4, <2>7, <3>3, <3>6, <3>8, <3>9
    <3>11. pct # Null
      BY <3>7, <3>9
    <3>12. new = Percent(pct)
      BY <2>3, <2>5, <2>7, <3>11 DEF Change, pct
    <3>13. HasAmount(new) /\ new.amount = pct /\ new.format = "percent"
      BY <3>12, PercentHasAmount
    <3>14. (HasAmount(old) <=> a # 0) /\ (a # 0 => old.amount = a)
      BY <2>4, AmountFacts
    <3>15. (HasAmount(now) <=> m # 0) /\ (m # 0 => now.amount = m)
      BY <2>4, AmountFacts
    <3>16. ChangeFine(now, old, new, pct, s, r)
      BY <2>4, <3>10, <3>12, <3>13, <3>14, <3>15 DEF ChangeFine
    <3> QED
      BY <3>16 DEF now, old, new, pct
  <2>8. CASE ~(s = "requests" /\ HasValues(row.pct))
    <3>1. new = Share(InUnit(u, r, MarshalAmount(r, m)),
                      InUnit(u, r, MarshalAmount(r, a)))
      BY <2>4, <2>5, <2>8 DEF Change, now, old
    <3>2. s = "requests" => pct = Null
      BY <2>3, <2>8 DEF HasValues
    <3> DEFINE q == CalculatePercentage(Convert(r, u[r], a), Convert(r, u[r], m))
    <3> HIDE DEF a, m
    <3>3. /\ a = 0 => ~HasAmount(new)
          /\ a # 0 => new = Percent(q)
          /\ u[r] \in UnitsOf(r)
      BY <2>4, <3>1, ShareShown
    <3>4. IsShare(q, a, m)
      BY <2>4, <3>3, ShareFacts
    <3> HIDE DEF q, pct
    <3>5. Good(q)
      BY <3>4 DEF IsShare
    <3>6. a # 0 => HasAmount(new) /\ new.amount = q /\ new.format = "percent"
      BY <3>3, PercentHasAmount
    <3>7. (HasAmount(old) <=> a # 0) /\ (a # 0 => old.amount = a)
      BY <2>4, AmountFacts
    <3>8. (HasAmount(now) <=> m # 0) /\ (m # 0 => now.amount = m)
      BY <2>4, AmountFacts
    <3>9. ChangeFine(now, old, new, pct, s, r)
      BY <2>4, <3>2, <3>3, <3>5, <3>6, <3>7, <3>8 DEF ChangeFine
    <3> QED
      BY <3>9 DEF now, old, new, pct
  <2> QED
    BY <2>7, <2>8
<1>2. ASSUME ShownInv
      PROVE  ChangesShown
  <2> SUFFICES ASSUME reply.shown, NEW t \in Terms,
                      NEW e \in DOMAIN row.blob.terms[t].engines,
                      NEW s \in Sections, NEW r \in Res
               PROVE  ChangeFine(row.blob.current[s][r],
                                 row.blob.terms[t].engines[e].variation[s][r],
                                 reply.json.terms[t].engines[e].variation[s][r],
                                 row.pct[<<r, t, e>>], s, r)
    BY DEF ChangesShown
  <2> QED
    BY <1>1, <1>2
<1> QED
  BY <1>2, ShownInvInductive, PTL DEF Spec

(* Configurations and notifications as they are shown.                     *)
LEMMA ConfigShown ==
    ASSUME NEW u \in UnitSet, NEW c \in Amounts(Int), NEW old, NEW new,
           old = MarshalConfig(c), new = ConfigInUnits(u, old)
    PROVE  ConfigFine(u, old, new)
<1> SUFFICES ASSUME NEW s \in Sections, NEW r \in Res
             PROVE  /\ HasAmount(old[s][r]) <=> HasAmount(new[s][r])
                    /\ HasAmount(old[s][r]) =>
                          ValueFine(u, r, old[s][r].amount, new[s][r])
  BY DEF ConfigFine
<1> DEFINE a == c[s][r]
<1>1. a \in Int
  BY DEF Amounts
<1>2. old[s][r] = MarshalAmount(r, a)
  BY DEF MarshalConfig
<1>3. new[s][r] = InUnit(u, r, MarshalAmount(r, a))
  BY <1>2 DEF ConfigInUnits
<1> HIDE DEF a
<1>4. /\ HasAmount(old[s][r]) <=> a # 0
      /\ HasAmount(new[s][r]) <=> a # 0
      /\ a # 0 => /\ old[s][r].amount = a
                  /\ new[s][r].amount = Convert(r, u[r], a)
                  /\ new[s][r].format = Format(u, r)
  BY <1>2, <1>3, AmountFacts
<1>5. u[r] \in UnitsOf(r)
  BY DEF UnitSet, UnitsOf, Res
<1>6. Near(u[r], a, Convert(r, u[r], a))
  BY <1>1, <1>5, ConvertFacts
<1> QED
  BY <1>4, <1>6 DEF ValueFine

(* No note is left that is not listed, and listed notes are left whole.     *)
LEMMA NotesShown ==
    ASSUME NEW notes
    PROVE  NotesFine(notes, Known(notes))
  BY DEF NotesFine, Known

(* What is shown is what is stored, in the units that were asked for and   *)
(* to the last digit that is shown, for every amount and unit.             *)
THEOREM BlobIsShown == Spec => []BlobShown
<1>1. ASSUME ShownInv, reply.shown
      PROVE  /\ ConfigFine(reply.units, row.blob.current, reply.json.current)
             /\ NotesFine(row.blob.notes, reply.json.notes)
             /\ \A t \in Terms :
                   TermFine(reply.units, reply.list,
                            row.blob.terms[t], reply.json.terms[t])
  <2>1. PICK d \in Kruize, h \in {"list", "detail"}, u \in UnitSet :
           ShowsOf(d, h, u)
    BY <1>1, ReplyFacts
  <2>2. /\ reply.units = u /\ reply.list = (h = "list")
        /\ Shown(row.blob, u, HandlerName(h), row.pct, reply.json)
        /\ IsBlob(d, row.blob)
    BY <2>1, AnswerFacts DEF ShowsOf
  <2>3. HandlerName(h) \in Lists <=> h = "list"
    BY <1>1 DEF ShownInv, Kinds, HandlerName, Lists
  <2>4. ConfigFine(u, row.blob.current, reply.json.current)
    <3>1. d.current \in Amounts(Int)
      BY AnswerFacts DEF Amounts
    <3>2. /\ row.blob.current = MarshalConfig(d.current)
          /\ reply.json.current = ConfigInUnits(u, row.blob.current)
      BY <2>2 DEF IsBlob, Shown
    <3> QED
      BY <3>1, <3>2, ConfigShown
  <2>5. NotesFine(row.blob.notes, reply.json.notes)
    BY <2>2, NotesShown DEF Shown
  <2>6. ASSUME NEW t \in Terms
        PROVE  TermFine(u, reply.list, row.blob.terms[t], reply.json.terms[t])
    <3> DEFINE old == row.blob.terms[t]
               new == reply.json.terms[t]
               plots == IF reply.list THEN <<>> ELSE old.plots
    <3>1. NotesFine(old.notes, new.notes)
      BY <2>2, NotesShown DEF Shown
    <3>2. ASSUME NEW e \in DOMAIN old.engines
          PROVE  /\ ConfigFine(u, old.engines[e].config, new.engines[e].config)
                 /\ NotesFine(old.engines[e].notes, new.engines[e].notes)
      <4>1. e \in DOMAIN d.terms[t].engines
        BY <2>2, <3>2 DEF IsBlob, SameEngines
      <4>2. d.terms[t].engines[e].config \in Amounts(Int)
        BY <4>1, AnswerFacts
      <4>3. old.engines[e].config = MarshalConfig(d.terms[t].engines[e].config)
        BY <2>2, <4>1 DEF IsBlob
      <4>4. /\ new.engines[e].config = ConfigInUnits(u, old.engines[e].config)
            /\ new.engines[e].notes = Known(old.engines[e].notes)
        BY <2>2, <3>2 DEF Shown
      <4> HIDE DEF old, new
      <4>5. ConfigFine(u, old.engines[e].config, new.engines[e].config)
        BY <4>2, <4>3, <4>4, ConfigShown
      <4> QED
        BY <4>4, <4>5, NotesShown
    <3>3. new.plots = Plots(u, plots)
      BY <2>2, <2>3 DEF Shown
    <3>4. \A r \in DOMAIN old.plots : r \in Res /\ old.plots[r] \in Int
      <4>1. old.plots = d.terms[t].plots
        BY <2>2 DEF IsBlob
      <4> QED
        BY <4>1, AnswerFacts
    <3> HIDE DEF old, new
    <3>5. DOMAIN plots = IF reply.list THEN {} ELSE DOMAIN old.plots
      BY DEF plots
    <3>6. DOMAIN new.plots = DOMAIN plots
      BY <3>3 DEF Plots
    <3>7. ASSUME NEW r \in DOMAIN new.plots
          PROVE  ValueFine(u, r, old.plots[r], new.plots[r])
      <4>1. /\ r \in DOMAIN plots /\ r \in DOMAIN old.plots /\ ~reply.list
            /\ plots[r] = old.plots[r]
        BY <3>5, <3>6, <3>7 DEF plots
      <4>2. r \in Res /\ old.plots[r] \in Int
        BY <3>4, <4>1
      <4> HIDE DEF plots
      <4>3. new.plots[r] = [amount |-> Convert(r, u[r], old.plots[r]),
                            format |-> Format(u, r)]
        BY <3>3, <4>1 DEF Plots
      <4>4. u[r] \in UnitsOf(r)
        BY <4>2 DEF UnitSet, UnitsOf, Res
      <4>5. Near(u[r], old.plots[r], Convert(r, u[r], old.plots[r]))
        BY <4>2, <4>4, ConvertFacts
      <4>6. /\ new.plots[r].amount = Convert(r, u[r], old.plots[r])
            /\ new.plots[r].format = Format(u, r)
        BY <4>3
      <4> QED
        BY <4>5, <4>6 DEF ValueFine
    <3> HIDE DEF plots
    <3> QED
      BY <3>1, <3>2, <3>5, <3>6, <3>7 DEF TermFine, old, new
  <2> QED
    BY <2>2, <2>4, <2>5, <2>6
<1>2. ASSUME ShownInv
      PROVE  BlobShown
  BY <1>1, <1>2 DEF BlobShown
<1> QED
  BY <1>2, ShownInvInductive, PTL DEF Spec
=============================================================================
