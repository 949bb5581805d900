-------------------------- MODULE PartitionsProofs --------------------------
(***************************************************************************)
(* With the default retention period of 15 days the partition job is safe  *)
(* in every calendar whose months have 28 to 31 days.                      *)
(***************************************************************************)
EXTENDS Partitions, TLAPS

(* A day lies in its month.                                                *)
LEMMA MonthFacts ==
    ASSUME NEW n \in Days
    PROVE  /\ MonthOf[n] \in Months
           /\ Start[MonthOf[n]] \in Int /\ Start[MonthOf[n] + 1] \in Int
           /\ Start[MonthOf[n]] <= n /\ n < Start[MonthOf[n] + 1]
           /\ Start[MonthOf[n] + 1] - Start[MonthOf[n]] \in 28 .. 31
           /\ DayOf[n] = n - Start[MonthOf[n]] + 1
           /\ n \in Int
<1>1. \E m \in Months : Start[m] <= n /\ n < Start[m + 1]
  BY CalendarAssumption
<1>2. MonthOf[n] = CHOOSE m \in Months : Start[m] <= n /\ n < Start[m + 1]
  BY DEF MonthOf
<1>3. /\ MonthOf[n] \in Months
      /\ Start[MonthOf[n]] <= n /\ n < Start[MonthOf[n] + 1]
  BY <1>1, <1>2
<1>4. Start[MonthOf[n]] \in Int /\ Start[MonthOf[n] + 1] \in Int
  BY <1>3, CalendarAssumption, SMTT(60) DEF Months
<1>5. n \in Int
  BY CalendarAssumption DEF Days
<1> QED
  BY <1>3, <1>4, <1>5, CalendarAssumption DEF DayOf

(* Months are in the order of their days.                                  *)
LEMMA MonthsOrdered ==
    ASSUME NEW a \in Days, NEW b \in Days, a <= b
    PROVE  MonthOf[a] <= MonthOf[b]
<1>1. SUFFICES ASSUME MonthOf[b] < MonthOf[a] PROVE FALSE
  BY MonthFacts DEF Months
<1>2. Start[MonthOf[b] + 1] <= Start[MonthOf[a]]
  BY <1>1, MonthFacts, CalendarAssumption
<1> QED
  BY <1>2, MonthFacts

(* Days less than 28 apart are in the same month or in adjacent ones.      *)
LEMMA MonthsAdjacent ==
    ASSUME NEW a \in Days, NEW b \in Days, a <= b, b - a < 28
    PROVE  MonthOf[b] = MonthOf[a] \/ MonthOf[b] = MonthOf[a] + 1
<1> DEFINE A == MonthOf[a]
           B == MonthOf[b]
<1>1. A \in Months /\ B \in Months /\ A <= B
  BY MonthFacts, MonthsOrdered
<1>2. SUFFICES ASSUME A + 1 < B PROVE FALSE
  BY <1>1 DEF Months
<1> HIDE DEF A, B
<1>3. A + 1 \in Months /\ LastMonth \in Nat
  <2>1. LastMonth \in Nat
    BY CalendarAssumption
  <2> QED
    BY <1>1, <1>2, <2>1 DEF Months
<1>4. Start[A + 1 + 1] <= Start[B] /\ Start[A + 1 + 1] - Start[A + 1] >= 28
  <2>1. Start[A + 1 + 1] - Start[A + 1] \in 28 .. 31
    BY <1>3, CalendarAssumption
  <2>2. Start[A + 1 + 1] <= Start[B]
    BY <1>1, <1>2, <1>3, CalendarAssumption
  <2> QED
    BY <2>1, <2>2
<1>5. Start[A + 1 + 1] \in Int
  <2>1. A + 1 + 1 \in 0 .. LastMonth + 1
    BY <1>3 DEF Months
  <2>2. Start \in [0 .. LastMonth + 1 -> Int]
    BY CalendarAssumption
  <2> QED
    BY <2>1, <2>2
<1>6. /\ Start[A + 1] \in Int /\ Start[B] \in Int /\ a \in Int /\ b \in Int
      /\ a < Start[A + 1] /\ Start[B] <= b
  BY MonthFacts DEF A, B
<1> QED
  BY <1>4, <1>5, <1>6

(* The half month of a day, from its month and its day of the month.       *)
LEMMA HalfFacts ==
    ASSUME NEW n \in Days
    PROVE  /\ Half[n] \in Int
           /\ Half[n] = 2 * MonthOf[n] \/ Half[n] = 2 * MonthOf[n] + 1
           /\ Half[n] = 2 * MonthOf[n] + 1 <=> n - Start[MonthOf[n]] >= 15
<1>1. Half[n] = 2 * MonthOf[n] + (IF DayOf[n] > 15 THEN 1 ELSE 0)
  BY DEF Half
<1>2. MonthOf[n] \in Int
  BY MonthFacts DEF Months
<1> QED
  BY <1>1, <1>2, MonthFacts

(* What the job can see of the current day.                                *)
LEMMA NowFacts ==
    ASSUME NEW n \in FirstNow .. LastNow
    PROVE  n \in Days /\ n - Retention \in Days /\ n \in Int
<1>1. /\ FirstNow \in Int /\ LastNow \in Int /\ Retention \in Nat
      /\ Start[0] \in Int /\ Start[LastMonth + 1] \in Int
      /\ FirstNow - Retention >= Start[0] /\ LastNow < Start[LastMonth + 1]
  BY BoundsAssumption, CalendarAssumption
<1> QED
  BY <1>1 DEF Days

(* The job keeps the half month of every day less than 15 days back.       *)
LEMMA YoungHalfKept ==
    ASSUME Retention = 15, NEW n \in FirstNow .. LastNow, NEW r \in Days,
           r <= n, n - r < 15
    PROVE  Half[r] >= PartitionTableDate(n)
<1> DEFINE th == n - Retention
           M == MonthOf[n]
           R == MonthOf[r]
           T == MonthOf[th]
<1>1. /\ n \in Days /\ th \in Days /\ n \in Int /\ r \in Int /\ th \in Int
      /\ th < r /\ n - th = 15
  BY NowFacts, MonthFacts
<1>2. M \in Int /\ R \in Int /\ T \in Int
  BY <1>1, MonthFacts DEF Months
<1>3. T <= R /\ R <= M /\ (M = T \/ M = T + 1)
  BY <1>1, MonthsOrdered, MonthsAdjacent
<1>4. /\ DayOf[th] = th - Start[T] + 1 /\ Start[T] \in Int
      /\ Half[r] \in Int
      /\ Half[r] = 2 * R \/ Half[r] = 2 * R + 1
      /\ Half[r] = 2 * R + 1 <=> r - Start[R] >= 15
  BY <1>1, MonthFacts, HalfFacts
<1>5. PartitionTableDate(n) = IF DayOf[th] < 15 THEN 2 * T ELSE 2 * (M - 1) + 1
  BY DEF PartitionTableDate
<1> HIDE DEF M, R, T, th
<1>6. CASE DayOf[th] < 15
  BY <1>2, <1>3, <1>4, <1>5, <1>6
<1>7. CASE ~(DayOf[th] < 15)
  <2>1. CASE R = M
    BY <1>2, <1>4, <1>5, <1>7, <2>1
  <2>2. CASE R # M
    <3>1. R = T /\ M = T + 1
      BY <1>2, <1>3, <2>2
    <3>2. r - Start[R] >= 15
      BY <1>1, <1>4, <1>7, <3>1
    <3> QED
      BY <1>2, <1>4, <1>5, <1>7, <3>1, <3>2
  <2> QED
    BY <2>1, <2>2
<1> QED
  BY <1>6, <1>7

(* A day whose half month the job keeps is at most 46 days back.           *)
LEMMA KeptHalfIsRecent ==
    ASSUME Retention = 15, NEW n \in FirstNow .. LastNow, NEW r \in Days,
           Half[r] >= PartitionTableDate(n)
    PROVE  n - r <= 46
<1> DEFINE th == n - Retention
           M == MonthOf[n]
           R == MonthOf[r]
           T == MonthOf[th]
<1>1. n \in Days /\ th \in Days /\ n \in Int /\ r \in Int /\ n - th = 15 /\ th \in Int
  BY NowFacts, MonthFacts
<1>2. /\ M \in Months /\ R \in Months /\ T \in Months
      /\ M \in Int /\ R \in Int /\ T \in Int
  BY <1>1, MonthFacts DEF Months
<1>3. /\ DayOf[th] = th - Start[T] + 1 /\ Start[T] \in Int
      /\ Start[R] <= r /\ Start[R] \in Int /\ Start[R + 1] \in Int
      /\ n < Start[M + 1] /\ Start[M] \in Int /\ Start[M + 1] \in Int
      /\ Start[M + 1] - Start[M] <= 31
      /\ Start[R + 1] - Start[R] <= 31 /\ Start[R + 1] - Start[R] >= 28
      /\ Half[r] \in Int
      /\ Half[r] = 2 * R \/ Half[r] = 2 * R + 1
      /\ Half[r] = 2 * R + 1 <=> r - Start[R] >= 15
  BY <1>1, MonthFacts, HalfFacts
<1>4. PartitionTableDate(n) = IF DayOf[th] < 15 THEN 2 * T ELSE 2 * (M - 1) + 1
  BY DEF PartitionTableDate
<1>5. \A k, m \in Months : k < m => Start[k + 1] <= Start[m]
  BY CalendarAssumption
<1> HIDE DEF M, R, T, th
<1>6. CASE DayOf[th] < 15
  <2>1. R >= T
    BY <1>2, <1>3, <1>4, <1>6
  <2>2. CASE R = T
    BY <1>1, <1>3, <1>6, <2>2
  <2>3. CASE R > T
    <3>1. Start[T + 1] <= Start[R]
      BY <1>2, <1>5, <2>3
    <3>2. Start[T + 1] - Start[T] \in 28 .. 31 /\ Start[T + 1] \in Int
      BY <1>1, MonthFacts DEF T
    <3> QED
      BY <1>1, <1>3, <1>6, <3>1, <3>2
  <2> QED
    BY <1>2, <2>1, <2>2, <2>3
<1>7. CASE ~(DayOf[th] < 15)
  <2>1. R >= M - 1
    BY <1>2, <1>3, <1>4, <1>7
  <2>2. CASE R = M - 1
    <3>1. r - Start[R] >= 15
      BY <1>2, <1>3, <1>4, <1>7, <2>2
    <3>2. Start[R + 1] = Start[M]
      BY <1>2, <2>2
    <3> QED
      BY <1>1, <1>3, <3>1, <3>2
  <2>3. CASE R = M
    BY <1>1, <1>3, <2>3
  <2>4. CASE R > M
    <3>1. Start[M + 1] <= Start[R]
      BY <1>2, <1>5, <2>4
    <3> QED
      BY <1>1, <1>3, <3>1
  <2> QED
    BY <1>2, <2>1, <2>2, <2>3, <2>4
<1> QED
  BY <1>6, <1>7

(* A report no longer than the shortest half month lies in the two half    *)
(* months the trigger provides for.                                        *)
LEMMA SpanFits ==
    ASSUME NEW lo \in Days, NEW t \in Days, lo <= t, t - lo <= 13
    PROVE  Half[lo] \in Created(t)
<1> DEFINE L == MonthOf[lo]
           T == MonthOf[t]
<1>1. L \in Int /\ T \in Int /\ lo \in Int /\ t \in Int
  BY MonthFacts DEF Months
<1>2. T = L \/ T = L + 1
  BY <1>1, MonthsAdjacent
<1>3. /\ Half[lo] = 2 * L \/ Half[lo] = 2 * L + 1
      /\ Half[lo] = 2 * L + 1 <=> lo - Start[L] >= 15
      /\ Half[t] = 2 * T \/ Half[t] = 2 * T + 1
      /\ Half[t] = 2 * T + 1 <=> t - Start[T] >= 15
  BY HalfFacts
<1>4. /\ Start[L] \in Int /\ Start[L + 1] \in Int /\ Start[T] \in Int
      /\ Start[L + 1] - Start[L] >= 28 /\ Start[T] <= t /\ lo < Start[L + 1]
  BY MonthFacts
<1> HIDE DEF L, T
<1>5. Half[lo] = Half[t] \/ Half[lo] = Half[t] - 1
  <2>1. CASE T = L
    BY <1>1, <1>3, <1>4, <2>1
  <2>2. CASE T = L + 1
    <3>1. lo - Start[L] >= 15 /\ ~(t - Start[T] >= 15)
      BY <1>1, <1>4, <2>2
    <3> QED
      BY <1>1, <1>3, <2>2, <3>1
  <2> QED
    BY <1>2, <2>1, <2>2
<1> QED
  BY <1>5 DEF Created

-----------------------------------------------------------------------------
(* The first day has its type.                                             *)
LEMMA TypeInit == Init => TypeOK
BY BoundsAssumption, NoneAssumption DEF Init, TypeOK

(* Every step keeps days in the calendar and the followed row in a         *)
(* partition that exists.                                                  *)
LEMMA TypeStep == TypeOK /\ [Next]_vars => TypeOK'
<1> SUFFICES ASSUME TypeOK, [Next]_vars PROVE TypeOK'
  OBVIOUS
<1>a. \A n \in Days : Half[n] \in Int /\ n \in Int
  BY HalfFacts, MonthFacts
<1>b. FirstNow \in Int /\ LastNow \in Int /\ now \in Int
  BY BoundsAssumption DEF TypeOK
<1>1. ASSUME NEW lag \in Lags, NEW span \in Spans,
             CreateWorkload(now - lag - span, now - lag)
      PROVE  TypeOK'
  <2>1. /\ lag \in Nat /\ span \in Nat /\ FirstNow - lag - span >= Start[0]
        /\ LastNow < Start[LastMonth + 1]
        /\ Start[0] \in Int /\ Start[LastMonth + 1] \in Int
    BY BoundsAssumption, CalendarAssumption
  <2>2. now >= FirstNow /\ now <= LastNow
    BY DEF TypeOK
  <2>3. now - lag - span \in Days /\ now - lag \in Days
    BY <1>b, <2>1, <2>2 DEF Days
  <2>4. Created(now - lag) \subseteq Int
    BY <1>a, <2>3 DEF Created
  <2> DEFINE lo == now - lag - span
             t == now - lag
  <2>5. lo <= t /\ t <= now
    BY <1>b, <2>1
  <2>6. /\ pending' = [lo |-> lo, t |-> t] /\ parts' = parts \cup Created(t)
        /\ UNCHANGED <<now, row>>
    BY <1>1 DEF CreateWorkload
  <2> HIDE DEF lo, t
  <2>7. lo \in Days /\ t \in Days /\ Created(t) \subseteq Int
    BY <2>3, <2>4 DEF lo, t
  <2> QED
    BY <2>5, <2>6, <2>7 DEF TypeOK
<1>2. CASE BatchInsert
  BY <1>a, <1>b, <1>2 DEF BatchInsert, TypeOK
<1>3. CASE DeletePartitions
  <2>1. PartitionTableDate(now) \in Int
    BY MonthFacts, NowFacts DEF PartitionTableDate, TypeOK, Months
  <2>2. row' # None => row' = row /\ ~(Half[row] < PartitionTableDate(now))
    BY <1>3 DEF DeletePartitions
  <2>3. row # None => Half[row] \in Int
    BY <1>a DEF TypeOK
  <2>4. /\ UNCHANGED <<now, pending>>
        /\ parts' = {h \in parts : h >= PartitionTableDate(now)}
        /\ row' = row \/ row' = None
    BY <1>3 DEF DeletePartitions
  <2>5. row' # None => row' <= now /\ Half[row'] \in parts'
    <3> SUFFICES ASSUME row' # None PROVE row <= now /\ Half[row] \in parts'
      BY <2>2
    <3>1. row <= now /\ Half[row] \in parts
      BY <2>2 DEF TypeOK
    <3>2. Half[row] >= PartitionTableDate(now)
      BY <2>1, <2>2, <2>3
    <3> QED
      BY <2>4, <3>1, <3>2
  <2> QED
    BY <2>4, <2>5 DEF TypeOK
<1>4. CASE Tick
  <2>1. row \in Days => row \in Int
    BY <1>a
  <2>2. pending # None => pending.lo \in Int /\ pending.t \in Int
    BY <1>a DEF TypeOK
  <2> QED
    BY <1>b, <1>4, <2>1, <2>2 DEF Tick, TypeOK
<1>5. CASE UNCHANGED vars
  BY <1>5 DEF vars, TypeOK
<1> QED
  BY <1>1, <1>2, <1>3, <1>4, <1>5 DEF Next

(* Whatever the retention period and the calendar, the followed row is     *)
(* never in a dropped partition, and no day leaves the calendar.           *)
THEOREM TypeCorrect == Spec => []TypeOK
  BY TypeInit, TypeStep, PTL DEF Spec

(* The trigger creates the partitions a report needs, and the job keeps    *)
(* them while the report is young.                                         *)
LEMMA FitStep ==
    ASSUME Retention = 15
    PROVE  TypeOK /\ ReportsFit /\ [Next]_vars => ReportsFit'
<1> SUFFICES ASSUME TypeOK, ReportsFit, [Next]_vars PROVE ReportsFit'
  OBVIOUS
<1> TypeOK'
  BY TypeStep
<1> USE DEF ReportsFit
<1>1. ASSUME NEW lag \in Lags, NEW span \in Spans,
             CreateWorkload(now - lag - span, now - lag)
      PROVE  ReportsFit'
  <2> DEFINE lo == now - lag - span
             t == now - lag
  <2>1. pending' = [lo |-> lo, t |-> t] /\ parts' = parts \cup Created(t)
    BY <1>1 DEF CreateWorkload
  <2> HIDE DEF lo, t
  <2>2. pending' # None /\ pending'.lo = lo /\ pending'.t = t
    <3>1. [lo |-> lo, t |-> t] # None
      <4>1. lo \in Int /\ t \in Int
        BY BoundsAssumption DEF lo, t, TypeOK
      <4> QED
        BY <4>1, NoneAssumption
    <3> QED
      BY <2>1, <3>1
  <2>3. lo \in Days /\ t \in Days /\ lo <= t
    BY <2>2 DEF TypeOK
  <2>4. Half[t] \in parts'
    BY <2>1 DEF Created
  <2>5. t - lo <= 13 => Half[lo] \in parts'
    BY <2>1, <2>3, SpanFits
  <2> QED
    BY <2>2, <2>4, <2>5
<1>2. CASE BatchInsert
  BY <1>2 DEF BatchInsert
<1>3. CASE DeletePartitions
  <2> SUFFICES ASSUME pending # None, now - pending.lo < Retention,
                      pending.t - pending.lo <= 13
               PROVE  Half[pending.lo] \in parts' /\ Half[pending.t] \in parts'
    BY <1>3 DEF DeletePartitions
  <2>1. /\ pending.lo \in Days /\ pending.t \in Days
        /\ pending.lo <= pending.t /\ pending.t <= now
    BY DEF TypeOK
  <2>2. pending.lo \in Int /\ pending.t \in Int /\ now \in Int
    BY <2>1, MonthFacts, NowFacts DEF TypeOK
  <2>3. now - pending.t < 15 /\ pending.lo <= now /\ now - pending.lo < 15
    BY <2>1, <2>2
  <2>4. /\ Half[pending.lo] >= PartitionTableDate(now)
        /\ Half[pending.t] >= PartitionTableDate(now)
    BY <2>1, <2>3, YoungHalfKept DEF TypeOK
  <2>5. Half[pending.lo] \in parts /\ Half[pending.t] \in parts
    OBVIOUS
  <2> QED
    BY <1>3, <2>4, <2>5 DEF DeletePartitions
<1>4. CASE Tick
  <2>1. pending # None => pending.lo \in Int /\ now \in Int
    BY MonthFacts, NowFacts DEF TypeOK
  <2> QED
    BY <1>4, <2>1 DEF Tick
<1>5. CASE UNCHANGED vars
  BY <1>5 DEF vars
<1> QED
  BY <1>1, <1>2, <1>3, <1>4, <1>5 DEF Next

(* With the default retention period, the partitions a report needs are    *)
(* still there when its metrics are inserted, in every calendar, for       *)
(* reports of up to 14 days that are stored within the period.             *)
THEOREM ReportsAlwaysFit == ASSUME Retention = 15 PROVE Spec => []ReportsFit
<1>1. Init => TypeOK /\ ReportsFit
  BY TypeInit DEF Init, ReportsFit
<1>2. TypeOK /\ ReportsFit /\ [Next]_vars => (TypeOK /\ ReportsFit)'
  BY TypeStep, FitStep
<1> QED
  BY <1>1, <1>2, PTL DEF Spec

(* With the default retention period, the job drops no row younger than    *)
(* it, in every calendar.                                                  *)
THEOREM YoungRowsAreKept == ASSUME Retention = 15 PROVE Spec => YoungKept
<1>1. TypeOK /\ [Next]_vars =>
         [row # None /\ row' = None => now - row >= Retention]_vars
  <2> SUFFICES ASSUME TypeOK, Next, row # None, row' = None
               PROVE  now - row >= Retention
    OBVIOUS
  <2>1. DeletePartitions
    <3>1. ~BatchInsert
      BY DEF BatchInsert
    <3> QED
      BY <3>1 DEF Next, CreateWorkload, Tick
  <2>2. Half[row] < PartitionTableDate(now)
    BY <2>1 DEF DeletePartitions
  <2>3. row \in Days /\ row <= now /\ now \in Int /\ row \in Int /\ Half[row] \in Int
    BY NowFacts, HalfFacts, MonthFacts DEF TypeOK
  <2>4. PartitionTableDate(now) \in Int
    BY MonthFacts, NowFacts DEF PartitionTableDate, TypeOK, Months
  <2>5. ~(now - row < 15)
    <3>1. now - row < 15 => Half[row] >= PartitionTableDate(now)
      BY <2>3, YoungHalfKept DEF TypeOK
    <3> QED
      BY <2>2, <2>3, <2>4, <3>1
  <2> QED
    BY <2>3, <2>5
<1> QED
  BY <1>1, TypeInit, TypeStep, PTL DEF Spec, YoungKept

(* With the default retention period, the job leaves no row behind that is *)
(* more than 46 days old, in every calendar.                               *)
THEOREM OldRowsGo == ASSUME Retention = 15 PROVE Spec => OldGone
<1>1. TypeOK /\ [Next]_vars =>
         [DeletePartitions => row' = None \/ now - row' <= 46]_vars
  <2> SUFFICES ASSUME TypeOK, DeletePartitions, row' # None
               PROVE  now - row' <= 46
    OBVIOUS
  <2>1. row' = row /\ row \in Days /\ ~(Half[row] < PartitionTableDate(now))
    BY DEF DeletePartitions, TypeOK
  <2>2. PartitionTableDate(now) \in Int /\ Half[row] \in Int
    BY <2>1, MonthFacts, HalfFacts, NowFacts
       DEF PartitionTableDate, TypeOK, Months
  <2> QED
    BY <2>1, <2>2, KeptHalfIsRecent DEF TypeOK
<1> QED
  BY <1>1, TypeInit, TypeStep, PTL DEF Spec, OldGone
=============================================================================
