--------------------------- MODULE RecurringProofs ---------------------------
(***************************************************************************)
(* What Recurring guarantees for any schedulers, schedules and calendar.   *)
(*                                                                         *)
(* The calendar's functions are proved to do what they are for as far as   *)
(* the calendar reaches: every computed time is later than its base, and   *)
(* what lies between is left out only where NextIsFirst says so (Lands).   *)
(* NoneSkipped rests on what a run in progress has read (RunHolds).        *)
(***************************************************************************)
EXTENDS Recurring, FiniteSetTheorems, WellFoundedInduction, TLAPS

Counted == IsFiniteSet(instances) /\ OneTaskEach

LEMMA InsertCounts ==
  ASSUME Counted, NEW t, InsertInstance(t)
  PROVE  Counted'
<1>1. CASE t \in instances
  BY <1>1 DEF InsertInstance, Counted, OneTaskEach
<1>2. CASE t \notin instances
  <2>1. instances' = instances \union {t} /\ tasks' = tasks + 1
    BY <1>2 DEF InsertInstance
  <2>2. IsFiniteSet(instances \union {t}) /\ Cardinality(instances \union {t}) = Cardinality(instances) + 1
    BY <1>2, FS_AddElement DEF Counted
  <2> QED
    BY <2>1, <2>2 DEF Counted, OneTaskEach
<1> QED
  BY <1>1, <1>2

LEMMA NextCounts ==
  ASSUME Counted, [Next]_vars
  PROVE  Counted'
<1>1. ASSUME UNCHANGED <<instances, tasks>> PROVE Counted'
  BY <1>1 DEF Counted, OneTaskEach
<1>2. ASSUME NEW p, Step(p) PROVE Counted'
  BY <1>1, <1>2, InsertCounts DEF Step, CreateInstance, UpdateRun, Fails
<1>3. CASE UNCHANGED vars
  BY <1>1, <1>3 DEF vars
<1>4. CASE Tick \/ SetTemplate \/ RunNow
  BY <1>1, <1>4 DEF Tick, SetTemplate, RunNow
<1>5. ASSUME NEW s, NEW on, Edit(s, on) PROVE Counted'
  BY <1>1, <1>5 DEF Edit
<1>6. ASSUME NEW p, ListDue(p) PROVE Counted'
  BY <1>1, <1>6 DEF ListDue
<1> QED
  BY <1>2, <1>3, <1>4, <1>5, <1>6 DEF Next

\* An occurrence has one task, for any number of schedulers, whatever they list twice and
\* whatever fails.
THEOREM OneTask == Spec => []OneTaskEach
<1>1. Init => Counted
  <2>1. IsFiniteSet({}) /\ Cardinality({}) = 0
    BY FS_EmptySet
  <2> QED
    BY <2>1 DEF Init, Counted, OneTaskEach
<1>2. Counted => OneTaskEach
  BY DEF Counted
<1> QED
  BY <1>1, <1>2, NextCounts, PTL DEF Spec

-----------------------------------------------------------------------------
(***************************************************************************)
(* The calendar.                                                           *)
(***************************************************************************)
\* Induction over the naturals, in the form that the calendar needs.
LEMMA LeastNumber ==
  ASSUME NEW S, S \subseteq Nat, S # {}
  PROVE  \E x \in S : \A y \in S : x <= y
<1>1. \E x \in S : \A y \in S : ~(<<y, x>> \in OpToRel(<, Nat))
  BY NatLessThanWellFounded, WFMin
<1>2. PICK x \in S : \A y \in S : ~(<<y, x>> \in OpToRel(<, Nat))
  BY <1>1
<1>3. ASSUME NEW y \in S PROVE x <= y
  <2>1. ~(<<y, x>> \in OpToRel(<, Nat))
    BY <1>2
  <2>2. <<y, x>> \in Nat \X Nat
    OBVIOUS
  <2>3. ~(y < x)
    BY <2>1, <2>2 DEF OpToRel
  <2> QED
    BY <2>3
<1> QED
  BY <1>3

LEMMA Month ==
  ASSUME NEW m \in Months
  PROVE  /\ m \in Nat /\ m >= 1 /\ m <= 12 * Years
         /\ FirstDay[m] \in Nat /\ FirstDay[m + 1] \in Nat
         /\ Lengths[m] \in 28 .. 31 /\ FirstDay[m + 1] = FirstDay[m] + Lengths[m]
<1>1. Years \in Nat /\ FirstDay \in [1 .. 12 * Years + 1 -> Nat]
  BY CalendarAssumption
<1>2. m \in 1 .. 12 * Years /\ m \in 1 .. 12 * Years + 1 /\ m + 1 \in 1 .. 12 * Years + 1
  BY <1>1 DEF Months
<1>3. Lengths[m] = FirstDay[m + 1] - FirstDay[m] /\ Lengths[m] \in 28 .. 31
  BY CalendarAssumption DEF Lengths
<1>4. FirstDay[m] \in Nat /\ FirstDay[m + 1] \in Nat
  BY <1>1, <1>2
<1> QED
  BY <1>1, <1>2, <1>3, <1>4

LEMMA MonthsFollow ==
  ASSUME NEW m \in Months, NEW n \in 1 .. 12 * Years + 1, m < n
  PROVE  FirstDay[m + 1] <= FirstDay[n]
<1> DEFINE Bad == {k \in 1 .. 12 * Years + 1 : m < k /\ ~(FirstDay[m + 1] <= FirstDay[k])}
<1>0. Years \in Nat
  BY CalendarAssumption
<1> SUFFICES ASSUME Bad # {} PROVE FALSE
  OBVIOUS
<1>1. PICK k \in Bad : \A j \in Bad : k <= j
  <2>1. Bad \subseteq Nat
    BY <1>0
  <2> HIDE DEF Bad
  <2> QED
    BY <2>1, LeastNumber
<1>2. k # m + 1
  BY <1>1, Month
<1>3. k - 1 \in Months /\ m < k - 1
  BY <1>0, <1>1, <1>2 DEF Months
<1>4. k - 1 \notin Bad
  BY <1>0, <1>1
<1>5. FirstDay[m + 1] <= FirstDay[k - 1]
  BY <1>0, <1>3, <1>4 DEF Months
<1>6. FirstDay[(k - 1) + 1] = FirstDay[k - 1] + Lengths[k - 1] /\ Lengths[k - 1] \in 28 .. 31
      /\ FirstDay[k - 1] \in Nat
  BY <1>3, Month
<1>7. (k - 1) + 1 = k
  BY <1>0, <1>1
<1> QED
  BY <1>1, <1>5, <1>6, <1>7, Month

LEMMA Calendar ==
  /\ Years \in Nat
  /\ LastDay \in Int
  /\ \A d \in Days : d \in Nat /\ d <= LastDay
BY CalendarAssumption DEF Days, LastDay

LEMMA MonthFound ==
  ASSUME NEW d \in Days
  PROVE  /\ MonthOf[d] \in Months
         /\ FirstDay[MonthOf[d]] <= d /\ d < FirstDay[MonthOf[d] + 1]
<1> DEFINE Ahead == {k \in 1 .. 12 * Years + 1 : d < FirstDay[k]}
<1>0. Years \in Nat /\ d \in Nat /\ d < FirstDay[12 * Years + 1]
  BY CalendarAssumption DEF Days, LastDay
<1>1. 12 * Years + 1 \in Ahead
  BY <1>0
<1>2. PICK k \in Ahead : \A j \in Ahead : k <= j
  <2>1. Ahead \subseteq Nat
    BY <1>0
  <2> HIDE DEF Ahead
  <2> QED
    BY <1>1, <2>1, LeastNumber
<1>3. k # 1
  BY <1>0, <1>2, CalendarAssumption
<1>4. k - 1 \in Months /\ (k - 1) + 1 = k /\ k - 1 \notin Ahead
  BY <1>0, <1>2, <1>3 DEF Months
<1>5. FirstDay[k - 1] <= d /\ d < FirstDay[(k - 1) + 1]
  BY <1>0, <1>2, <1>4, Month
<1>6. \E m \in Months : FirstDay[m] <= d /\ d < FirstDay[m + 1]
  BY <1>4, <1>5
<1> QED
  BY <1>6 DEF MonthOf

LEMMA MonthIs ==
  ASSUME NEW d \in Days, NEW m \in Months, FirstDay[m] <= d, d < FirstDay[m + 1]
  PROVE  MonthOf[d] = m
<1> DEFINE n == MonthOf[d]
<1>1. n \in Months /\ FirstDay[n] <= d /\ d < FirstDay[n + 1]
  BY MonthFound
<1> HIDE DEF n
<1>2. ASSUME n < m PROVE FALSE
  BY <1>1, <1>2, MonthsFollow, Month, Calendar DEF Months
<1>3. ASSUME m < n PROVE FALSE
  BY <1>1, <1>3, MonthsFollow, Month, Calendar DEF Months
<1>4. n = m
  BY <1>1, <1>2, <1>3, Month
<1> QED
  BY <1>4 DEF n

\* Days of different months are ordered as the months are.
LEMMA DaysOrdered ==
  ASSUME NEW d \in Days, NEW e \in Days
  PROVE  /\ MonthOf[d] < MonthOf[e] => d < e
         /\ d <= e => MonthOf[d] <= MonthOf[e]
<1>1. ASSUME NEW x \in Days, NEW y \in Days, MonthOf[x] < MonthOf[y] PROVE x < y
  <2>1. /\ MonthOf[x] \in Months /\ x < FirstDay[MonthOf[x] + 1]
        /\ MonthOf[y] \in Months /\ FirstDay[MonthOf[y]] <= y
    BY MonthFound
  <2>2. FirstDay[MonthOf[x] + 1] <= FirstDay[MonthOf[y]]
    BY <1>1, <2>1, MonthsFollow, Calendar DEF Months
  <2> QED
    BY <2>1, <2>2, Month, Calendar
<1>2. MonthOf[d] \in Nat /\ MonthOf[e] \in Nat /\ d \in Nat /\ e \in Nat
  BY MonthFound, Month, Calendar
<1> QED
  BY <1>1, <1>2

LEMMA MonthInside ==
  ASSUME NEW m \in Months
  PROVE  FirstDay[m + 1] <= LastDay + 1
<1>1. FirstDay[12 * Years + 1] = LastDay + 1
  BY CalendarAssumption DEF LastDay
<1>2. CASE m = 12 * Years
  BY <1>1, <1>2, Month, Calendar
<1>3. CASE m # 12 * Years
  <2>1. m < 12 * Years + 1 /\ 12 * Years + 1 \in 1 .. 12 * Years + 1
    BY <1>3, Month, Calendar
  <2> QED
    BY <1>1, <2>1, MonthsFollow
<1> QED
  BY <1>2, <1>3

\* A date is a day of its month, and its month is that one.
LEMMA DateIsIn ==
  ASSUME NEW m \in Months, NEW day \in 1 .. 31
  PROVE  /\ Date(m, day) \in Days
         /\ FirstDay[m] <= Date(m, day) /\ Date(m, day) < FirstDay[m + 1]
         /\ MonthOf[Date(m, day)] = m
         /\ day <= Lengths[m] => Date(m, day) = FirstDay[m] + day - 1
<1>1. ClampDay(m, day) \in 1 .. Lengths[m] /\ Lengths[m] \in Nat
      /\ (day <= Lengths[m] => ClampDay(m, day) = day)
  BY Month DEF ClampDay
<1>2. /\ FirstDay[m] <= Date(m, day) /\ Date(m, day) < FirstDay[m + 1] /\ Date(m, day) \in Nat
      /\ day <= Lengths[m] => Date(m, day) = FirstDay[m] + day - 1
  BY <1>1, Month DEF Date
<1>3. Date(m, day) \in Days
  BY <1>2, MonthInside, Month, Calendar DEF Days
<1> QED
  BY <1>2, <1>3, MonthIs

-----------------------------------------------------------------------------
(***************************************************************************)
(* ComputeNextRunAt.                                                       *)
(***************************************************************************)
\* A time that the model reaches: the calendar goes on for two years.
Reached(base) == /\ base \in Nat
                 /\ Years > 2
                 /\ base < 2 * FirstDay[12 * (Years - 2) + 1]

\* The first day that the schedule names, after the base.
IsFirst(s, base, d) ==
  /\ d \in Days /\ 2 * d > base /\ Named(s, d)
  /\ \A e \in Days : Named(s, e) /\ 2 * e > base => d <= e

\* The schedule names a day between the base and d, and the base's year has come to it.
LeftOut(s, base, d, e) == /\ e \in Days /\ Named(s, e) /\ 2 * e > base /\ e < d
                          /\ ~BeforeCount(s, base, e)

\* What NextIsFirst says of the next run's day.
Lands(s, base, d) ==
  /\ d \in Days /\ 2 * d > base /\ OnDay(s, d)
  /\ Overflows(s) \/ (InMonth(s, MonthOf[d]) /\ \A e \in Days : ~LeftOut(s, base, d, e))
  /\ \A e, f \in Days : LeftOut(s, base, d, e) /\ LeftOut(s, base, d, f) => e = f
  /\ s.type = "monthly" => \A e \in Days : LeftOut(s, base, d, e) => s.day > Lengths[MonthOf[e]]

LEMMA FirstLands ==
  ASSUME NEW s, NEW base, NEW d, IsFirst(s, base, d), s.type # "monthly"
  PROVE  Lands(s, base, d)
<1>1. \A e \in Days : ~LeftOut(s, base, d, e)
  BY Calendar DEF IsFirst, LeftOut
<1> QED
  BY <1>1 DEF IsFirst, Lands, Named

LEMMA Halves ==
  /\ \A t \in Nat : Day(t) \in Nat /\ 2 * Day(t) <= t /\ t < 2 * Day(t) + 2
  /\ \A d \in Nat : Day(2 * d) = d
BY DEF Day

LEMMA BaseDay ==
  ASSUME NEW base, Reached(base)
  PROVE  /\ base \in Nat /\ Day(base) \in Nat /\ 2 * Day(base) <= base /\ base < 2 * Day(base) + 2
         /\ Day(base) \in Days
         /\ \A k \in 0 .. 28 : Day(base) + k \in Days
         /\ MonthOf[Day(base)] \in 1 .. 12 * (Years - 2)
<1> DEFINE m == 12 * (Years - 2) + 1
           d == Day(base)
<1>1. /\ m \in Months /\ m + 1 \in Months /\ d \in Nat /\ 2 * d <= base /\ base \in Nat
      /\ Years \in Nat /\ base < 2 * d + 2
  BY Halves, Calendar DEF Reached, Months
<1>2. d < FirstDay[m] /\ FirstDay[m] \in Nat
  BY <1>1, Month DEF Reached
<1>3. FirstDay[m] + 28 <= LastDay + 1
  BY <1>1, Month, MonthInside, Calendar
<1> HIDE DEF m, d
<1>4. \A k \in 0 .. 28 : d + k \in Days
  BY <1>1, <1>2, <1>3, Calendar DEF Days
<1>5. d \in Days
  BY <1>1, <1>4
<1>6. MonthOf[d] \in Months /\ FirstDay[MonthOf[d]] <= d /\ MonthOf[d] \in Nat
  BY <1>5, MonthFound, Month
<1>7. MonthOf[d] < m
  <2>1. CASE m < MonthOf[d]
    <3>1. FirstDay[m + 1] <= FirstDay[MonthOf[d]]
      BY <1>1, <1>6, <2>1, MonthsFollow, Calendar DEF Months
    <3> QED
      BY <1>1, <1>2, <1>6, <3>1, Month
  <2>2. CASE m = MonthOf[d]
    <3>1. FirstDay[m] <= d
      BY <1>6, <2>2
    <3> QED
      BY <1>1, <1>2, <3>1
  <2>3. MonthOf[d] \in Nat /\ m \in Nat
    BY <1>1, <1>6, Month
  <2> QED
    BY <2>1, <2>2, <2>3
<1> QED
  BY <1>1, <1>4, <1>5, <1>6, <1>7, Month DEF m, d

LEMMA DailyIsFirst ==
  ASSUME NEW base, Reached(base), NEW s, s.type = "daily"
  PROVE  \E d \in Days : NextDaily(base) = 2 * d /\ IsFirst(s, base, d)
<1>1. /\ Day(base) \in Days /\ Day(base) + 1 \in Days /\ base \in Nat /\ Day(base) \in Nat
      /\ 2 * Day(base) <= base /\ base < 2 * Day(base) + 2
  BY BaseDay
<1>2. \A d \in Days : Named(s, d) /\ d \in Nat
  BY Calendar DEF Named, InMonth, OnDay
<1>3. CASE 2 * Day(base) > base
  BY <1>1, <1>3
<1>4. CASE ~(2 * Day(base) > base)
  <2>1. IsFirst(s, base, Day(base) + 1)
    BY <1>1, <1>2, <1>4 DEF IsFirst
  <2>2. NextDaily(base) = 2 * (Day(base) + 1)
    BY <1>1, <1>4 DEF NextDaily
  <2> QED
    BY <1>1, <2>1, <2>2
<1> QED
  BY <1>3, <1>4

\* Any seven days in a row have every weekday.
LEMMA WeekHasAll ==
  ASSUME NEW d \in Nat, NEW w \in 0 .. 6
  PROVE  \E k \in 0 .. 6 : Weekday(d + k) = w
<1> DEFINE k == (w + 7 - Weekday(d)) % 7
<1>1. FirstWeekday \in 0 .. 6
  BY CalendarAssumption
<1>2. k \in 0 .. 6 /\ Weekday(d + k) = w
  BY <1>1 DEF Weekday
<1> QED
  BY <1>2

Found(base, weekdays) ==
  {d \in Day(base) .. Day(base) + 6 : Weekday(d) \in weekdays /\ 2 * d > base}

LEMMA WeeklyIsFirst ==
  ASSUME NEW base, Reached(base), NEW s, s.type = "weekly", NEW weekdays \in SUBSET (0 .. 6),
         s.weekdays = weekdays
  PROVE  /\ Found(base, weekdays) = {} => NextWeekly(base, weekdays) = Never
         /\ Found(base, weekdays) # {} =>
              \E d \in Days : NextWeekly(base, weekdays) = 2 * d /\ IsFirst(s, base, d)
<1> DEFINE found == Found(base, weekdays)
<1>1. /\ NextWeekly(base, weekdays) =
           IF found = {} THEN Never
           ELSE 2 * (CHOOSE d \in found : \A other \in found : d <= other)
  BY DEF NextWeekly, Found
<1>2. SUFFICES ASSUME found # {}
               PROVE \E d \in Days : NextWeekly(base, weekdays) = 2 * d /\ IsFirst(s, base, d)
  BY <1>1 DEF found
<1>3. /\ \A k \in 0 .. 28 : Day(base) + k \in Days
      /\ Day(base) \in Nat /\ base \in Nat /\ 2 * Day(base) <= base
  BY BaseDay
<1>4. found \subseteq Nat /\ found \subseteq Days
  <2>1. ASSUME NEW d \in found PROVE d \in Nat /\ d \in Days
    <3>1. d - Day(base) \in 0 .. 28 /\ d = Day(base) + (d - Day(base)) /\ d \in Nat
      BY <1>3, <2>1 DEF Found
    <3> QED
      BY <1>3, <3>1
  <2> QED
    BY <2>1
<1>5. \A d \in Days : Named(s, d) <=> Weekday(d) \in weekdays
  BY DEF Named, InMonth, OnDay
<1> DEFINE first == CHOOSE d \in found : \A other \in found : d <= other
<1>6. first \in found /\ \A other \in found : first <= other
  <2> HIDE DEF found
  <2>1. \E d \in found : \A other \in found : d <= other
    BY <1>2, <1>4, LeastNumber
  <2> QED
    BY <2>1
<1>7. NextWeekly(base, weekdays) = 2 * first
  BY <1>1, <1>2
<1> HIDE DEF first
<1>8. ASSUME NEW e \in Days, Named(s, e), 2 * e > base PROVE first <= e
  <2>1. e \in Nat /\ first \in Nat /\ first <= Day(base) + 6
    BY <1>3, <1>4, <1>6, Calendar DEF Found
  <2>2. CASE e <= Day(base) + 6
    <3>1. e \in found
      BY <1>3, <1>5, <1>8, <2>1, <2>2 DEF Found
    <3> QED
      BY <1>6, <3>1
  <2> QED
    BY <1>3, <2>1, <2>2
<1>9. IsFirst(s, base, first)
  BY <1>4, <1>5, <1>6, <1>8 DEF IsFirst, Found
<1> QED
  BY <1>4, <1>6, <1>7, <1>9

\* A weekday other than that of the base is found.
LEMMA WeeklyNotFound ==
  ASSUME NEW base, Reached(base), NEW weekdays \in SUBSET (0 .. 6), weekdays # {},
         Found(base, weekdays) = {}
  PROVE  weekdays = {Weekday(Day(base))}
<1>1. Day(base) \in Nat /\ base \in Nat /\ base < 2 * Day(base) + 2
  BY BaseDay
<1>2. ASSUME NEW w \in weekdays PROVE w = Weekday(Day(base))
  <2>1. PICK k \in 0 .. 6 : Weekday(Day(base) + k) = w
    BY <1>1, WeekHasAll
  <2>2. CASE k # 0
    <3>1. Day(base) + k \in Found(base, weekdays)
      BY <1>1, <2>1, <2>2 DEF Found
    <3> QED BY <3>1
  <2>3. CASE k = 0
    BY <1>1, <2>1, <2>3
  <2> QED
    BY <2>2, <2>3
<1> QED
  BY <1>2

LEMMA AddMonthsIs ==
  ASSUME NEW d, NEW months, NEW day
  PROVE  LET n == MonthOf[d] + months IN AddMonths(d, months, day) \in {Date(n, day), Date(n + 1, day)}
BY DEF AddMonths

\* It goes a month too far only where the month that it is to reach lacks the day.
LEMMA AddMonthsOver ==
  ASSUME NEW d \in Days, NEW months \in 1 .. 12, NEW day \in 1 .. 31,
         d = Date(MonthOf[d], day), MonthOf[d] + months + 1 \in Months
  PROVE  LET n == MonthOf[d] + months IN
         \E k \in {n, n + 1} : /\ AddMonths(d, months, day) = Date(k, day)
                               /\ k # n => day > Lengths[n]
<1> DEFINE m == MonthOf[d]
           n == m + months
           over == d - FirstDay[m] + 1 > Lengths[n]
<1>1. m \in Months /\ FirstDay[m] \in Nat /\ d \in Nat /\ Lengths[m] \in Nat /\ m \in Nat
  BY MonthFound, Month, Calendar
<1>2. n \in Months /\ Lengths[n] \in Nat
  <2>1. n \in Months
    BY <1>1, Calendar DEF Months
  <2> QED
    BY <2>1, Month
<1>3. AddMonths(d, months, day) = Date(IF over THEN n + 1 ELSE n, day)
  BY DEF AddMonths
<1>4. d - FirstDay[m] + 1 <= day
  <2>1. ClampDay(m, day) \in Int /\ ClampDay(m, day) <= day
    BY <1>1 DEF ClampDay
  <2>2. d = FirstDay[m] + ClampDay(m, day) - 1
    BY DEF Date
  <2> QED
    BY <1>1, <2>1, <2>2
<1>5. over => day > Lengths[n]
  BY <1>1, <1>2, <1>4
<1> HIDE DEF n, over
<1> QED
  BY <1>3, <1>5 DEF n

\* A day of a later month than the base's is after the base; a day after the base is of no
\* earlier one.
LEMMA AfterBase ==
  ASSUME NEW base, Reached(base), NEW d \in Days
  PROVE  /\ MonthOf[Day(base)] < MonthOf[d] => 2 * d > base
         /\ 2 * d > base => MonthOf[Day(base)] <= MonthOf[d]
<1>1. /\ Day(base) \in Days /\ base \in Nat /\ Day(base) \in Nat /\ d \in Nat
      /\ 2 * Day(base) <= base /\ base < 2 * Day(base) + 2
  BY BaseDay, Calendar
<1>2. MonthOf[Day(base)] < MonthOf[d] => Day(base) < d
  BY <1>1, DaysOrdered
<1>3. Day(base) <= d => MonthOf[Day(base)] <= MonthOf[d]
  BY <1>1, DaysOrdered
<1> QED
  BY <1>1, <1>2, <1>3

\* One of the dates of a day that follow each other by months.
LEMMA DatesFollow ==
  ASSUME NEW m \in Months, NEW day \in 1 .. 31, NEW e \in Days, m <= MonthOf[e],
         e = Date(MonthOf[e], day)
  PROVE  Date(m, day) <= e
<1>1. Date(m, day) \in Days /\ MonthOf[Date(m, day)] = m /\ Date(m, day) \in Nat /\ e \in Nat
  BY DateIsIn, Calendar
<1>2. CASE m = MonthOf[e]
  BY <1>1, <1>2
<1>3. CASE m < MonthOf[e]
  BY <1>1, <1>3, DaysOrdered
<1> QED
  BY <1>2, <1>3, MonthFound, Month

\* A date that is not after the base, and a date of the same day between the base and another:
\* in which months they are.
LEMMA BetweenMonths ==
  ASSUME NEW base, Reached(base), NEW day \in 1 .. 31,
         NEW c \in Days, c = Date(MonthOf[c], day), ~(2 * c > base),
         NEW e \in Days, e = Date(MonthOf[e], day), 2 * e > base,
         NEW d \in Days, d = Date(MonthOf[d], day), e < d
  PROVE  /\ MonthOf[c] \in Nat /\ MonthOf[e] \in Nat /\ MonthOf[d] \in Nat
         /\ MonthOf[c] < MonthOf[e] /\ MonthOf[e] < MonthOf[d]
<1>1. MonthOf[c] \in Nat /\ MonthOf[e] \in Nat /\ MonthOf[d] \in Nat /\ MonthOf[Day(base)] \in Nat
      /\ c \in Nat /\ e \in Nat /\ d \in Nat /\ base \in Nat
  BY MonthFound, Month, BaseDay, Calendar
<1>2. MonthOf[c] # MonthOf[e] /\ MonthOf[e] # MonthOf[d]
  BY <1>1
<1>3. MonthOf[c] <= MonthOf[e]
  <2>1. c <= e
    BY <1>1
  <2> QED
    BY <2>1, DaysOrdered
<1>4. MonthOf[e] <= MonthOf[d]
  BY <1>1, DaysOrdered
<1> QED
  BY <1>1, <1>2, <1>3, <1>4

LEMMA MonthlyLands ==
  ASSUME NEW base, Reached(base), NEW s, s.type = "monthly", NEW day \in 1 .. 31, s.day = day
  PROVE  \E d \in Days : NextMonthly(base, day) = 2 * d /\ Lands(s, base, d)
<1> DEFINE m == MonthOf[Day(base)]
           c == Date(m, day)
<1>1. m \in Months /\ m + 1 \in Months /\ m + 1 + 1 \in Months /\ m \in Nat
  BY BaseDay, Calendar DEF Months, Reached
<1>2. c \in Days /\ MonthOf[c] = m /\ c = Date(MonthOf[c], day)
  BY <1>1, DateIsIn
<1>3. NextMonthly(base, day) = 2 * (IF 2 * c > base THEN c ELSE AddMonths(c, 1, day))
  BY DEF NextMonthly
<1>4. /\ \A d \in Days : OnDay(s, d) <=> d = Date(MonthOf[d], day)
      /\ \A k : InMonth(s, k)
  BY DEF OnDay, InMonth
<1>5. \A d, e \in Days : LeftOut(s, base, d, e) => e = Date(MonthOf[e], day) /\ 2 * e > base /\ e < d
  BY <1>4 DEF LeftOut, Named
<1> HIDE DEF c
<1>6. CASE 2 * c > base
  <2>1. ASSUME NEW e \in Days, LeftOut(s, base, c, e) PROVE FALSE
    <3>1. c <= e
      BY <1>1, <1>2, <1>5, <2>1, AfterBase, DatesFollow
    <3> QED
      BY <1>2, <1>5, <2>1, <3>1, Calendar
  <2>2. Lands(s, base, c)
    BY <1>2, <1>4, <1>6, <2>1 DEF Lands
  <2> QED
    BY <1>2, <1>3, <1>6, <2>2
<1>7. CASE ~(2 * c > base)
  <2>1. PICK n \in {m + 1, m + 1 + 1} : /\ AddMonths(c, 1, day) = Date(n, day)
                                        /\ n # m + 1 => day > Lengths[m + 1]
    BY <1>1, <1>2, AddMonthsOver
  <2> DEFINE d == Date(n, day)
  <2>2. d \in Days /\ MonthOf[d] = n /\ m < n /\ d = Date(MonthOf[d], day) /\ n <= m + 2 /\ n \in Nat
    BY <1>1, DateIsIn
  <2>3. 2 * d > base
    BY <2>2, AfterBase
  <2>4. NextMonthly(base, day) = 2 * d
    BY <1>3, <1>7, <2>1
  <2> HIDE DEF d
  <2>5. ASSUME NEW e \in Days, LeftOut(s, base, d, e)
        PROVE  MonthOf[e] = m + 1 /\ n # m + 1 /\ e = Date(MonthOf[e], day)
    <3>1. MonthOf[e] \in Nat /\ m < MonthOf[e] /\ MonthOf[e] < n /\ e = Date(MonthOf[e], day)
      BY <1>2, <1>5, <1>7, <2>2, <2>5, BetweenMonths
    <3> QED
      BY <1>1, <2>2, <3>1
  <2>6. ASSUME NEW e \in Days, LeftOut(s, base, d, e)
        PROVE  s.day > Lengths[MonthOf[e]] /\ Overflows(s)
    <3>1. MonthOf[e] = m + 1 /\ s.day > Lengths[m + 1]
      BY <2>1, <2>5, <2>6
    <3> QED
      BY <1>1, <1>4, <3>1 DEF Overflows
  <2>7. \A e, f \in Days : LeftOut(s, base, d, e) /\ LeftOut(s, base, d, f) => e = f
    BY <2>5
  <2>8. Lands(s, base, d)
    BY <1>4, <2>2, <2>3, <2>6, <2>7 DEF Lands
  <2> QED
    BY <2>2, <2>4, <2>8
<1> QED
  BY <1>6, <1>7

-----------------------------------------------------------------------------
(***************************************************************************)
(* Rules of several months: what the dates tried one after another are.    *)
(***************************************************************************)
LEMMA StartOfYear ==
  ASSUME NEW m \in Nat, NEW years \in Nat, m >= 1, m <= 12 * years
  PROVE  LET january == m - ((m - 1) % 12) IN
         /\ january \in Nat /\ january >= 1 /\ january <= m /\ m <= january + 11
         /\ january % 12 = 1
         /\ january + 11 <= 12 * years
<1> DEFINE q == (m - 1) \div 12
           r == (m - 1) % 12
<1>1. q \in Nat /\ r \in 0 .. 11 /\ m - 1 = 12 * q + r
  OBVIOUS
<1> HIDE DEF q, r
<1>2. m - r = 12 * q + 1
  BY <1>1
<1>3. 12 * q + 12 <= 12 * years
  BY <1>1
<1>4. (12 * q + 1) % 12 = 1
  BY <1>1
<1> QED
  BY <1>1, <1>2, <1>3, <1>4 DEF r

LEMMA JanuaryIs ==
  ASSUME NEW base, Reached(base)
  PROVE  LET m == MonthOf[Day(base)]
             january == January(base) IN
         /\ january \in Nat /\ january >= 1 /\ january <= m /\ m <= january + 11
         /\ january % 12 = 1
         /\ \A k \in 0 .. 24 : january + k \in Months
<1>1. MonthOf[Day(base)] \in 1 .. 12 * (Years - 2) /\ Years \in Nat /\ Years > 2
  BY BaseDay, Calendar DEF Reached
<1> DEFINE m == MonthOf[Day(base)]
           years == Years - 2
<1>2. m \in Nat /\ m >= 1 /\ m <= 12 * years /\ years \in Nat /\ January(base) = m - ((m - 1) % 12)
  BY <1>1 DEF January
<1> HIDE DEF m
<1>3. /\ January(base) \in Nat /\ January(base) >= 1 /\ January(base) <= m
      /\ m <= January(base) + 11 /\ January(base) % 12 = 1 /\ January(base) + 11 <= 12 * years
  BY <1>2, StartOfYear
<1>4. \A k \in 0 .. 24 : January(base) + k \in Months
  BY <1>1, <1>3 DEF Months
<1> QED
  BY <1>3, <1>4 DEF m

\* A date is after the base, or no earlier than a month that is reached in the end.
Tried(base, lo, d) ==
  /\ d \in Days
  /\ MonthOf[d] <= January(base) + 24
  /\ 2 * d > base \/ lo <= MonthOf[d]

LEMMA TriedOn ==
  ASSUME NEW base, Reached(base), NEW lo \in Nat, NEW d, Tried(base, lo, d),
         NEW day \in 1 .. 31, NEW months \in {3, 6, 12}
  PROVE  Tried(base, lo + months, After(base, d, months, day))
<1>1. CASE 2 * d > base
  BY <1>1 DEF Tried, After
<1>2. CASE ~(2 * d > base)
  <2> DEFINE january == January(base)
             n == MonthOf[d] + months
  <2>1. d \in Days /\ MonthOf[d] \in Months /\ MonthOf[d] \in Nat /\ lo <= MonthOf[d]
    BY <1>2, MonthFound, Month DEF Tried
  <2>2. MonthOf[d] <= MonthOf[Day(base)]
    BY <1>2, <2>1, AfterBase, BaseDay
  <2>3. january \in Nat /\ MonthOf[d] <= january + 11 /\ \A k \in 0 .. 24 : january + k \in Months
    BY <2>1, <2>2, JanuaryIs, BaseDay
  <2> HIDE DEF january
  <2>4. n \in Nat /\ n + 1 \in Nat /\ n + 1 <= january + 24 /\ n + 1 \in Months /\ lo + months <= n
    BY <2>1, <2>3, Calendar DEF Months
  <2>5. PICK k \in {n, n + 1} : k \in Months /\ AddMonths(d, months, day) = Date(k, day)
    <3>1. n \in Months
      BY <2>1, <2>4, Calendar DEF Months
    <3>2. AddMonths(d, months, day) \in {Date(n, day), Date(n + 1, day)}
      BY AddMonthsIs
    <3> QED
      BY <2>4, <3>1, <3>2
  <2>6. Date(k, day) \in Days /\ MonthOf[Date(k, day)] = k
    BY <2>5, DateIsIn
  <2> HIDE DEF n
  <2>7. k \in Nat /\ k <= january + 24 /\ lo + months <= k
    BY <2>3, <2>4, <2>5
  <2> QED
    BY <1>2, <2>5, <2>6, <2>7 DEF Tried, After, january
<1> QED
  BY <1>1, <1>2

LEMMA IntervalIsAfter ==
  ASSUME NEW base, Reached(base), NEW month \in 1 .. 12, NEW day \in 1 .. 31,
         NEW months \in {3, 6, 12}
  PROVE  \E d \in Days : NextByInterval(base, month, day, months) = 2 * d /\ 2 * d > base
<1> DEFINE january == January(base)
           first == Date(january + month - 1, day)
           second == After(base, first, months, day)
           third == After(base, second, months, day)
           fourth == After(base, third, months, day)
           last == After(base, fourth, months, day)
<1>1. /\ january \in Nat /\ MonthOf[Day(base)] <= january + 11
      /\ january + month - 1 \in Months
      /\ MonthOf[Day(base)] \in Nat
  BY JanuaryIs, BaseDay, Calendar DEF Months
<1>2. NextByInterval(base, month, day, months) = 2 * last
  BY DEF NextByInterval
<1>3. Tried(base, january, first)
  BY <1>1, DateIsIn DEF Tried
<1> HIDE DEF first
<1>4. Tried(base, january + months, second)
  BY <1>1, <1>3, TriedOn
<1> HIDE DEF second, january
<1>5. Tried(base, january + months + months, third)
  <2>1. january + months \in Nat
    BY <1>1
  <2> QED
    BY <1>4, <2>1, TriedOn
<1> HIDE DEF third
<1>6. Tried(base, january + months + months + months, fourth)
  <2>1. january + months + months \in Nat
    BY <1>1
  <2> QED
    BY <1>5, <2>1, TriedOn
<1> HIDE DEF fourth
<1>7. Tried(base, january + months + months + months + months, last)
  <2>1. january + months + months + months \in Nat
    BY <1>1
  <2> QED
    BY <1>6, <2>1, TriedOn
<1> HIDE DEF last
<1>8. last \in Days /\ 2 * last > base
  BY <1>1, <1>7, AfterBase, MonthFound, Month DEF Tried
<1> QED
  BY <1>2, <1>8

LEMMA Congruent ==
  ASSUME NEW a \in Nat, NEW b \in Nat, NEW months \in {3, 6, 12}, a % months = b % months
  PROVE  /\ a < b => a + months <= b
         /\ (a + months) % months = b % months
<1>1. CASE months = 3
  BY <1>1
<1>2. CASE months = 6
  BY <1>2
<1>3. CASE months = 12
  BY <1>3
<1> QED
  BY <1>1, <1>2, <1>3

\* A date tried, of which NextIsFirst holds but that it need not be after the base.
Candidate(s, base, d) ==
  /\ d \in Days /\ OnDay(s, d)
  /\ Overflows(s) \/ (InMonth(s, MonthOf[d]) /\ \A e \in Days : ~LeftOut(s, base, d, e))
  /\ \A e, f \in Days : LeftOut(s, base, d, e) /\ LeftOut(s, base, d, f) => e = f

LEMMA CandidateOn ==
  ASSUME NEW base, Reached(base), NEW s, s.type = "interval",
         NEW day \in 1 .. 31, s.day = day, NEW months \in {3, 6, 12}, s.months = months,
         NEW month \in 1 .. 12, s.month = month,
         NEW d, Candidate(s, base, d)
  PROVE  Candidate(s, base, After(base, d, months, day))
<1>1. CASE 2 * d > base
  BY <1>1 DEF After
<1>2. CASE ~(2 * d > base)
  <2> DEFINE n == MonthOf[d] + months
  <2>0. /\ \A e \in Days : OnDay(s, e) <=> e = Date(MonthOf[e], day)
        /\ \A m \in Nat : InMonth(s, m) <=> m % months = month % months
    BY DEF OnDay, InMonth
  <2>1. /\ d \in Days /\ MonthOf[d] \in Months /\ MonthOf[d] \in Nat /\ d = Date(MonthOf[d], day)
    BY <2>0, MonthFound, Month DEF Candidate
  <2>2. MonthOf[d] <= MonthOf[Day(base)]
    BY <1>2, <2>1, AfterBase, BaseDay
  <2>3. n \in Nat /\ n \in Months /\ n + 1 \in Months
    BY <2>1, <2>2, BaseDay, Calendar DEF Months
  <2>4. PICK k \in {n, n + 1} : AddMonths(d, months, day) = Date(k, day) /\ (k # n => day > Lengths[n])
    BY <2>1, <2>3, AddMonthsOver
  <2> DEFINE new == Date(k, day)
  <2>5. new \in Days /\ MonthOf[new] = k /\ new = Date(MonthOf[new], day)
    BY <2>3, <2>4, DateIsIn
  <2> HIDE DEF new
  <2>6. ASSUME NEW e \in Days, LeftOut(s, base, new, e)
        PROVE  /\ MonthOf[e] \in Nat /\ MonthOf[d] < MonthOf[e] /\ MonthOf[e] < k
               /\ e = Date(MonthOf[e], day) /\ MonthOf[e] % months = month % months
    <3>1. e = Date(MonthOf[e], day) /\ 2 * e > base /\ e < new /\ InMonth(s, MonthOf[e])
      BY <2>0, <2>6 DEF LeftOut, Named
    <3>2. MonthOf[e] \in Nat /\ MonthOf[d] < MonthOf[e] /\ MonthOf[e] < k
      BY <1>2, <2>1, <2>5, <3>1, BetweenMonths
    <3> QED
      BY <2>0, <3>1, <3>2
  <2>7. ASSUME NEW e \in Days, LeftOut(s, base, new, e), NEW f \in Days, LeftOut(s, base, new, f),
               MonthOf[e] < MonthOf[f]
        PROVE  FALSE
    <3>1. /\ MonthOf[e] \in Nat /\ MonthOf[d] < MonthOf[e]
          /\ MonthOf[f] \in Nat /\ MonthOf[f] < k
          /\ MonthOf[e] % months = MonthOf[f] % months
      BY <2>6, <2>7
    <3>2. MonthOf[e] + months <= MonthOf[f]
      BY <2>7, <3>1, Congruent
    <3>3. k <= MonthOf[d] + months + 1 /\ k \in Nat
      BY <2>3, <2>4
    <3> QED
      BY <2>1, <3>1, <3>2, <3>3
  <2>8. ASSUME NEW e \in Days, LeftOut(s, base, new, e), NEW f \in Days, LeftOut(s, base, new, f)
        PROVE  e = f
    <3>1. MonthOf[e] \in Nat /\ MonthOf[f] \in Nat
          /\ e = Date(MonthOf[e], day) /\ f = Date(MonthOf[f], day)
      BY <2>6, <2>8
    <3>2. MonthOf[e] = MonthOf[f]
      BY <2>7, <2>8, <3>1
    <3> QED
      BY <3>1, <3>2
  <2>9. ASSUME ~Overflows(s)
        PROVE  InMonth(s, MonthOf[new]) /\ \A e \in Days : ~LeftOut(s, base, new, e)
    <3>1. MonthOf[d] % months = month % months
      BY <2>0, <2>1, <2>9 DEF Candidate
    <3>2. n % months = month % months
      <4>1. MonthOf[d] % months = MonthOf[d] % months
        OBVIOUS
      <4>2. n % months = MonthOf[d] % months
        BY <2>1, <4>1, Congruent
      <4> QED
        BY <3>1, <4>2
    <3>3. InMonth(s, n)
      BY <2>0, <2>3, <3>2
    <3>4. k = n
      <4>1. ~(day > Lengths[n])
        BY <2>3, <2>9, <3>3 DEF Overflows
      <4> QED
        BY <2>4, <4>1
    <3>5. ASSUME NEW e \in Days, LeftOut(s, base, new, e) PROVE FALSE
      <4>1. /\ MonthOf[e] \in Nat /\ MonthOf[d] < MonthOf[e] /\ MonthOf[e] < n
            /\ MonthOf[d] % months = MonthOf[e] % months
        BY <2>6, <3>1, <3>4, <3>5
      <4>2. MonthOf[d] + months <= MonthOf[e]
        BY <2>1, <4>1, Congruent
      <4> QED
        BY <2>3, <4>1, <4>2
    <3> QED
      BY <2>5, <3>3, <3>4, <3>5
  <2>10. Candidate(s, base, new)
    <3>1. OnDay(s, new)
      BY <2>0, <2>5
    <3> QED
      BY <2>5, <2>8, <2>9, <3>1 DEF Candidate
  <2>11. After(base, d, months, day) = new
    BY <1>2, <2>4 DEF After, new
  <2> QED
    BY <2>10, <2>11
<1> QED
  BY <1>1, <1>2

LEMMA FirstCandidate ==
  ASSUME NEW base, Reached(base), NEW s, s.type = "interval",
         NEW day \in 1 .. 31, s.day = day, NEW months \in {3, 6, 12}, s.months = months,
         NEW month \in 1 .. 12, s.month = month
  PROVE  Candidate(s, base, Date(January(base) + month - 1, day))
<1> DEFINE january == January(base)
           n == january + month - 1
<1>0. /\ \A e \in Days : OnDay(s, e) <=> e = Date(MonthOf[e], day)
      /\ \A m \in Nat : InMonth(s, m) <=> m % months = month % months
  BY DEF OnDay, InMonth
<1>1. /\ january \in Nat /\ january >= 1 /\ january % 12 = 1
      /\ n \in Months /\ n \in Nat
  BY JanuaryIs, BaseDay, Calendar DEF Months
<1>2. \A e \in Days : BeforeCount(s, base, e) <=> MonthOf[e] < n
  BY DEF BeforeCount
<1> HIDE DEF january
<1>3. n % months = month % months
  <2>1. CASE months = 3
    BY <1>1, <2>1
  <2>2. CASE months = 6
    BY <1>1, <2>2
  <2>3. CASE months = 12
    BY <1>1, <2>3
  <2> QED
    BY <2>1, <2>2, <2>3
<1> HIDE DEF n
<1>4. Date(n, day) \in Days /\ MonthOf[Date(n, day)] = n
  BY <1>1, DateIsIn
<1>5. ASSUME NEW e \in Days, LeftOut(s, base, Date(n, day), e) PROVE FALSE
  <2>1. e = Date(MonthOf[e], day) /\ e < Date(n, day) /\ ~(MonthOf[e] < n)
    BY <1>0, <1>2, <1>5 DEF LeftOut, Named
  <2>2. MonthOf[e] \in Nat /\ n <= MonthOf[e]
    <3>1. MonthOf[e] \in Nat
      BY MonthFound, Month
    <3> QED
      BY <1>1, <2>1, <3>1
  <2>3. Date(n, day) <= e
    BY <1>1, <2>1, <2>2, DatesFollow
  <2> QED
    BY <1>4, <2>1, <2>3, Calendar
<1>6. Candidate(s, base, Date(n, day))
  BY <1>0, <1>1, <1>3, <1>4, <1>5 DEF Candidate
<1> QED
  BY <1>6 DEF n, january

LEMMA IntervalLands ==
  ASSUME NEW base, Reached(base), NEW s, s.type = "interval",
         NEW day \in 1 .. 31, s.day = day, NEW months \in {3, 6, 12}, s.months = months,
         NEW month \in 1 .. 12, s.month = month
  PROVE  \E d \in Days : NextByInterval(base, month, day, months) = 2 * d /\ Lands(s, base, d)
<1> DEFINE first == Date(January(base) + month - 1, day)
           second == After(base, first, months, day)
           third == After(base, second, months, day)
           fourth == After(base, third, months, day)
           last == After(base, fourth, months, day)
<1>1. Candidate(s, base, first)
  BY FirstCandidate
<1>2. NextByInterval(base, month, day, months) = 2 * last
  BY DEF NextByInterval
<1> HIDE DEF first
<1>3. Candidate(s, base, second)
  BY <1>1, CandidateOn
<1> HIDE DEF second
<1>4. Candidate(s, base, third)
  BY <1>3, CandidateOn
<1> HIDE DEF third
<1>5. Candidate(s, base, fourth)
  BY <1>4, CandidateOn
<1> HIDE DEF fourth
<1>6. Candidate(s, base, last)
  BY <1>5, CandidateOn
<1> HIDE DEF last
<1>7. PICK d \in Days : NextByInterval(base, month, day, months) = 2 * d /\ 2 * d > base
  BY IntervalIsAfter
<1>8. d = last
  <2>1. d \in Nat /\ last \in Nat
    BY <1>6, Calendar DEF Candidate
  <2> QED
    BY <1>2, <1>7, <2>1
<1> QED
  BY <1>6, <1>7, <1>8 DEF Candidate, Lands

-----------------------------------------------------------------------------
\* Whatever the schedule is.
LEMMA NextRunLands ==
  ASSUME NEW base, Reached(base), NEW s \in Schedules
  PROVE  \/ /\ NextRunAt(s, base) = Never
            /\ s.type = "weekly" /\ s.weekdays = {Weekday(Day(base))}
         \/ \E d \in Days : NextRunAt(s, base) = 2 * d /\ Lands(s, base, d)
<1>0. s \in Legal
  BY SchedulesAssumption
<1>1. CASE s.type = "daily"
  <2>1. NextRunAt(s, base) = NextDaily(base)
    BY <1>1 DEF NextRunAt
  <2> QED
    BY <1>1, <2>1, DailyIsFirst, FirstLands
<1>2. CASE s.type = "weekly"
  <2>1. /\ s.weekdays \in SUBSET (0 .. 6) /\ s.weekdays # {}
        /\ NextRunAt(s, base) = NextWeekly(base, s.weekdays)
    BY <1>0, <1>2 DEF Legal, NextRunAt
  <2> QED
    BY <1>2, <2>1, WeeklyIsFirst, WeeklyNotFound, FirstLands
<1>3. CASE s.type = "monthly"
  <2>1. s.day \in 1 .. 31 /\ NextRunAt(s, base) = NextMonthly(base, s.day)
    BY <1>0, <1>3 DEF Legal, NextRunAt
  <2> QED
    BY <1>3, <2>1, MonthlyLands
<1>4. CASE s.type = "interval"
  <2>1. /\ s.month \in 1 .. 12 /\ s.day \in 1 .. 31 /\ s.months \in {3, 6, 12}
        /\ NextRunAt(s, base) = NextByInterval(base, s.month, s.day, s.months)
    BY <1>0, <1>4 DEF Legal, NextRunAt
  <2> QED
    BY <1>4, <2>1, IntervalLands
<1>5. s.type \in {"daily", "weekly", "monthly", "interval"}
  BY <1>0 DEF Legal
<1> QED
  BY <1>1, <1>2, <1>3, <1>4, <1>5

LEMMA NextRunTime ==
  ASSUME NEW base, Reached(base), NEW s \in Schedules
  PROVE  \/ NextRunAt(s, base) = Never
         \/ \E d \in Days : NextRunAt(s, base) = 2 * d /\ 2 * d > base
BY NextRunLands DEF Lands

-----------------------------------------------------------------------------
(***************************************************************************)
(* Types: every time of a run, of the rule and of now is one that the      *)
(* calendar has, because what is computed from is never later than now.    *)
(***************************************************************************)
Who == Schedulers \union {"request"}
Within == \E e \in Ends : now <= e
TypeInv == TypeOK /\ Within

LEMMA Reaches ==
  ASSUME TypeInv, NEW base \in Nat, base <= now
  PROVE  Reached(base)
<1>1. PICK e \in Ends : now <= e
  BY DEF TypeInv, Within
<1>2. Years > 2 /\ e \in Nat /\ e < 2 * FirstDay[12 * (Years - 2) + 1]
  BY TimesAssumption
<1>3. FirstDay[12 * (Years - 2) + 1] \in Nat
  <2>1. 12 * (Years - 2) + 1 \in Months
    BY <1>2, Calendar DEF Months
  <2> QED
    BY <2>1, Month
<1> QED
  BY <1>1, <1>2, <1>3 DEF TypeInv, TypeOK, Reached

LEMMA ReachedIsTime ==
  ASSUME NEW base, Reached(base)
  PROVE  base \in Times /\ base # Never
<1>1. /\ Day(base) \in Days /\ base \in Nat /\ base < 2 * Day(base) + 2 /\ Day(base) \in Nat
      /\ Day(base) <= LastDay /\ LastDay \in Int
  BY BaseDay, Calendar
<1> QED
  BY <1>1 DEF Times, Never

LEMMA NextIsTime ==
  ASSUME NEW base, Reached(base), NEW s \in Schedules
  PROVE  /\ NextRunAt(s, base) \in Times
         /\ NextRunAt(s, base) # Never => NextRunAt(s, base) > base
<1>1. LastDay \in Int /\ LastDay >= 0 /\ \A d \in Days : d \in Nat /\ d <= LastDay
  BY BaseDay, Calendar
<1>2. CASE NextRunAt(s, base) = Never
  BY <1>1, <1>2 DEF Times, Never
<1>3. CASE NextRunAt(s, base) # Never
  <2>1. PICK d \in Days : NextRunAt(s, base) = 2 * d /\ 2 * d > base
    BY <1>3, NextRunTime
  <2> QED
    BY <1>1, <2>1 DEF Times
<1> QED
  BY <1>2, <1>3

LEMMA IdleIsRun == IdleRun \in Runs /\ IdleRun.pc = "idle"
BY DEF Runs, IdleRun, Run

LEMMA RunFields ==
  ASSUME NEW r \in Runs, r.pc # "idle"
  PROVE  /\ r.pc \in {"create", "update"} /\ r.at \in Times /\ r.next \in Times
         /\ r.made \in BOOLEAN /\ r.schedule \in Schedules
         /\ [r EXCEPT !.pc = "update"] \in Runs
BY DEF Runs, IdleRun, Run

LEMMA NewRun ==
  ASSUME NEW pc \in {"create", "update"}, NEW at \in Times, NEW next \in Times,
         NEW made \in BOOLEAN, NEW s \in Schedules
  PROVE  Run(pc, at, next, made, s) \in Runs
BY DEF Run, Runs

LEMMA InitTypes == Init => TypeInv
<1> SUFFICES ASSUME Init PROVE TypeInv
  OBVIOUS
<1>1. now \in Nat /\ Within
  BY TimesAssumption DEF Init, Within
<1>2. Reached(now)
  <2>1. PICK e \in Ends : now <= e
    BY <1>1 DEF Within
  <2>2. Years > 2 /\ e \in Nat /\ e < 2 * FirstDay[12 * (Years - 2) + 1]
    BY TimesAssumption
  <2>3. FirstDay[12 * (Years - 2) + 1] \in Nat
    <3>1. 12 * (Years - 2) + 1 \in Months
      BY <2>2, Calendar DEF Months
    <3> QED
      BY <3>1, Month
  <2> QED
    BY <1>1, <2>1, <2>2, <2>3 DEF Reached
<1>3. PICK s \in Schedules : rule = [schedule |-> s, active |-> TRUE, next |-> NextRunAt(s, now)]
  BY DEF Init
<1>4. rule \in Rows /\ rule.next # Never
  BY <1>2, <1>3, NextIsTime DEF Init, Rows
<1> QED
  BY <1>1, <1>2, <1>4, IdleIsRun, ReachedIsTime, BoundAssumption DEF Init, TypeInv, TypeOK

LEMMA StepTypes ==
  ASSUME TypeInv, [Next]_vars
  PROVE  TypeInv'
<1>a. /\ now \in Nat /\ rule \in Rows /\ (rule.active => rule.next # Never)
      /\ template \in BOOLEAN /\ instances \subseteq Times /\ tasks \in Nat
      /\ hands \in 0 .. MaxHand /\ since \in Times /\ run \in [Who -> Runs] /\ Within
  BY DEF TypeInv, TypeOK, Who
<1>b. Reached(now) /\ now \in Times
  BY <1>a, Reaches, ReachedIsTime
<1> USE DEF TypeInv, TypeOK, Within, Who
<1>1. CASE UNCHANGED vars
  BY <1>1, <1>a DEF vars
<1>2. CASE Tick
  <2>1. PICK e \in Ends : now <= e
    BY <1>a
  <2>2. e \in Nat /\ now # e /\ now' = now + 1
    BY <1>2, TimesAssumption DEF Tick
  <2>3. now' <= e /\ now' \in Nat
    BY <1>a, <2>1, <2>2
  <2> QED
    BY <1>2, <1>a, <2>3 DEF Tick
<1>3. CASE SetTemplate
  BY <1>3, <1>a DEF SetTemplate
<1>4. CASE RunNow
  <2>1. Run("create", now, NextRunAt(rule.schedule, now), FALSE, rule.schedule) \in Runs
    BY <1>a, <1>b, NextIsTime, NewRun DEF Rows
  <2>2. run' \in [Who -> Runs]
    BY <1>4, <1>a, <2>1 DEF RunNow
  <2>3. hands' \in 0 .. MaxHand
    BY <1>4, <1>a, BoundAssumption DEF RunNow
  <2> QED
    BY <1>4, <1>a, <2>2, <2>3 DEF RunNow
<1>5. ASSUME NEW s \in Schedules, NEW on \in BOOLEAN, Edit(s, on) PROVE TypeInv'
  <2>1. rule' \in Rows /\ (rule'.active => rule'.next # Never)
    <3>1. NextRunAt(s, now) \in Times /\ Never \in Times
      BY <1>b, NextIsTime, Calendar, BaseDay DEF Times, Never
    <3> QED
      BY <1>5, <3>1 DEF Edit, Rows
  <2> QED
    BY <1>5, <1>a, <1>b, <2>1 DEF Edit
<1>6. ASSUME NEW p \in Schedulers, ListDue(p) PROVE TypeInv'
  <2> DEFINE next == NextRunAt(rule.schedule, rule.next)
  <2>1. rule.next \in Times /\ rule.next \in Nat /\ rule.next <= now /\ rule.schedule \in Schedules
    BY <1>6, <1>a DEF ListDue, Rows, Times, Never
  <2>2. next \in Times
    BY <2>1, Reaches, NextIsTime
  <2>3. Run(IF template THEN "create" ELSE "update", rule.next, next, template, rule.schedule) \in Runs
    BY <1>a, <2>1, <2>2, NewRun
  <2> HIDE DEF next
  <2>4. run' = [run EXCEPT ![p] = Run(IF template THEN "create" ELSE "update",
                                      rule.next, next, template, rule.schedule)]
        /\ UNCHANGED <<now, rule, template, instances, tasks, hands, since>>
    BY <1>6 DEF ListDue, next
  <2> QED
    BY <1>a, <2>3, <2>4
<1>7. ASSUME NEW p \in Who, CreateInstance(p) PROVE TypeInv'
  <2>1. run[p].at \in Times /\ [run[p] EXCEPT !.pc = "update"] \in Runs
    BY <1>7, <1>a, RunFields DEF CreateInstance
  <2>2. instances' \subseteq Times /\ tasks' \in Nat
    BY <1>7, <1>a, <2>1 DEF CreateInstance, InsertInstance
  <2>3. run' \in [Who -> Runs]
    BY <1>7, <1>a, <2>1 DEF CreateInstance
  <2> QED
    BY <1>7, <1>a, <2>2, <2>3 DEF CreateInstance
<1>8. ASSUME NEW p \in Who, UpdateRun(p) PROVE TypeInv'
  <2>1. run[p].at \in Times /\ run[p].next \in Times
    BY <1>8, <1>a, RunFields DEF UpdateRun
  <2>2. rule' \in Rows /\ (rule'.active => rule'.next # Never)
    BY <1>8, <1>a, <2>1 DEF UpdateRun, Rows
  <2>3. since' \in Times
    BY <1>8, <1>a, <2>1 DEF UpdateRun, Later
  <2> QED
    BY <1>8, <1>a, <2>2, <2>3, IdleIsRun DEF UpdateRun
<1>9. ASSUME NEW p \in Who, Fails(p) PROVE TypeInv'
  BY <1>9, <1>a, IdleIsRun DEF Fails
<1> QED
  BY <1>1, <1>2, <1>3, <1>4, <1>5, <1>6, <1>7, <1>8, <1>9, ChoicesAssumption DEF Next, Step

LEMMA TypeInvariance == Spec => []TypeInv
BY InitTypes, StepTypes, PTL DEF Spec

\* Every time that a rule, a run or an instance holds is one of the calendar, an active rule
\* has a next run, and each has a known schedule, for any schedules, irregular ones included.
THEOREM TypeCorrect == Spec => []TypeOK
<1>1. TypeInv => TypeOK
  BY DEF TypeInv
<1> QED
  BY <1>1, TypeInvariance, PTL

-----------------------------------------------------------------------------
(***************************************************************************)
(* No time passed over.                                                    *)
(***************************************************************************)
\* Of what the schedule names between two times, all that is not made is passed over by
\* NextRunAt, from what is made or given up.
Made(s, a, b, made) ==
  \A d \in Days : Named(s, d) /\ a < 2 * d /\ 2 * d < b =>
    2 * d \in made \/ \E t \in made \union 0 .. a : d \in PassedOver(s, t)

\* What a run in progress has read: its next run is computed from its own time, which is not
\* later than now; and as long as the rule has the schedule that it has read, everything
\* before its time is made, and so is its own once it is about to move the rule on.
RunHolds(r, time, schedule, from, made) ==
  r.pc # "idle" =>
    /\ r.next = NextRunAt(r.schedule, r.at)
    /\ r.at \in 0 .. time
    /\ r.made /\ r.schedule = schedule => Made(r.schedule, from, r.at, made)
    /\ r.made /\ r.pc = "update" => r.at \in made

RunsHold == \A p \in Who : RunHolds(run[p], now, rule.schedule, since, instances)
SkipInv == /\ rule.active => Made(rule.schedule, since, rule.next, instances)
           /\ RunsHold

LEMMA Between ==
  ASSUME NEW a \in Times, NEW b \in Times
  PROVE  \A d \in Day(a + 2) .. Day(b - 1) : d \in Days /\ a < 2 * d /\ 2 * d < b
<1>1. LastDay \in Int /\ a \in Int /\ b \in Int /\ a >= -1 /\ b <= 2 * LastDay + 1
  BY Calendar DEF Times
<1>2. \A d \in Day(a + 2) .. Day(b - 1) : d \in Int /\ a < 2 * d /\ 2 * d < b
  BY <1>1 DEF Day
<1> QED
  BY <1>1, <1>2 DEF Days

LEMMA MadeMore ==
  ASSUME NEW s, NEW a \in Int, NEW b \in Int, NEW made, Made(s, a, b, made),
         NEW c \in Int, a <= c, NEW more, made \subseteq more
  PROVE  Made(s, c, b, more)
<1> SUFFICES ASSUME NEW d \in Days, Named(s, d), c < 2 * d, 2 * d < b, 2 * d \notin more
             PROVE  \E t \in more \union 0 .. c : d \in PassedOver(s, t)
  BY DEF Made
<1>1. a < 2 * d /\ 2 * d \notin made
  BY Calendar
<1>2. PICK t \in made \union 0 .. a : d \in PassedOver(s, t)
  BY <1>1 DEF Made
<1>3. t \in more \union 0 .. c
  BY <1>2
<1> QED
  BY <1>2, <1>3

LEMMA MadeNothing ==
  ASSUME NEW s, NEW a \in Int, NEW b \in Int, NEW made, b <= a
  PROVE  Made(s, a, b, made)
BY Calendar DEF Made

\* Between a time that is made or given up and the next run after it.
LEMMA MadePassed ==
  ASSUME NEW s \in Schedules, NEW base, Reached(base), NextRunAt(s, base) # Never,
         NEW a \in Int, base <= a, NEW made
  PROVE  Made(s, a, NextRunAt(s, base), made)
<1> DEFINE next == NextRunAt(s, base)
<1>1. base \in 0 .. a /\ next \in Times /\ next \in Int
  BY NextIsTime, Calendar DEF Reached, Times
<1> SUFFICES ASSUME NEW d \in Days, Named(s, d), a < 2 * d, 2 * d < next
             PROVE  d \in PassedOver(s, base)
  BY <1>1 DEF Made
<1> HIDE DEF next
<1>2. d \in Day(base + 2) .. Day(next - 1)
  BY <1>1, Calendar DEF Day
<1> QED
  BY <1>2 DEF PassedOver, next

\* From a time that is made, what is made before it goes on to the next run after it.
LEMMA MadeOn ==
  ASSUME NEW s \in Schedules, NEW base, Reached(base), NextRunAt(s, base) # Never,
         NEW a \in Int, NEW made, Made(s, a, base, made), base \in made
  PROVE  Made(s, a, NextRunAt(s, base), made)
<1> DEFINE next == NextRunAt(s, base)
<1>1. base \in Nat /\ next \in Times /\ next \in Int
  BY NextIsTime, Calendar DEF Reached, Times
<1> SUFFICES ASSUME NEW d \in Days, Named(s, d), a < 2 * d, 2 * d < next, 2 * d \notin made
             PROVE  \E t \in made \union 0 .. a : d \in PassedOver(s, t)
  BY <1>1 DEF Made
<1> HIDE DEF next
<1>2. d \in Int
  BY Calendar
<1>3. CASE 2 * d < base
  BY <1>3 DEF Made
<1>4. CASE 2 * d = base
  BY <1>4
<1>5. CASE base < 2 * d
  <2>1. d \in Day(base + 2) .. Day(next - 1)
    BY <1>1, <1>2, <1>5 DEF Day
  <2>2. d \in PassedOver(s, base)
    BY <2>1 DEF PassedOver, next
  <2> QED
    BY <2>2
<1> QED
  BY <1>1, <1>2, <1>3, <1>4, <1>5

\* Runs keep what they hold as time goes on, instances are added and more is given up.
LEMMA RunKeeps ==
  ASSUME NEW r, NEW t \in Nat, NEW u \in Nat, NEW s, NEW a \in Int, NEW b \in Int, NEW made,
         NEW more, RunHolds(r, t, s, a, made), t <= u, a <= b, made \subseteq more
  PROVE  RunHolds(r, u, s, b, more)
<1> SUFFICES ASSUME r.pc # "idle" PROVE RunHolds(r, u, s, b, more)
  BY DEF RunHolds
<1>1. r.at \in 0 .. t
  BY DEF RunHolds
<1>2. r.made /\ r.schedule = s => Made(r.schedule, b, r.at, more)
  <2> SUFFICES ASSUME r.made, r.schedule = s PROVE Made(r.schedule, b, r.at, more)
    OBVIOUS
  <2>1. Made(r.schedule, a, r.at, made)
    BY DEF RunHolds
  <2> QED
    BY <1>1, <2>1, MadeMore
<1> QED
  BY <1>1, <1>2 DEF RunHolds

\* When everything up to now is given up, any schedule will do.
LEMMA RunReleased ==
  ASSUME NEW r, NEW t \in Nat, NEW s, NEW a, NEW made, RunHolds(r, t, s, a, made), NEW new
  PROVE  RunHolds(r, t, new, t, made)
<1> SUFFICES ASSUME r.pc # "idle" PROVE RunHolds(r, t, new, t, made)
  BY DEF RunHolds
<1>1. r.at \in 0 .. t
  BY DEF RunHolds
<1>2. Made(r.schedule, t, r.at, made)
  BY <1>1, MadeNothing
<1> QED
  BY <1>1, <1>2 DEF RunHolds

LEMMA IdleHolds ==
  ASSUME NEW t, NEW s, NEW a, NEW made
  PROVE  RunHolds(IdleRun, t, s, a, made)
BY IdleIsRun DEF RunHolds

LEMMA InitSkip ==
  ASSUME Init
  PROVE  SkipInv
<1>1. TypeInv /\ now \in Nat /\ since = now
  BY InitTypes, TimesAssumption DEF Init
<1>2. Reached(now)
  BY <1>1, Reaches
<1>3. PICK s \in Schedules : rule = [schedule |-> s, active |-> TRUE, next |-> NextRunAt(s, now)]
  BY DEF Init
<1>4. Made(rule.schedule, since, rule.next, instances)
  <2>1. NextRunAt(s, now) # Never
    BY <1>3 DEF Init
  <2> QED
    BY <1>1, <1>2, <1>3, <2>1, MadePassed
<1>5. \A p \in Who : run[p] = IdleRun
  BY DEF Init, Who
<1> QED
  BY <1>4, <1>5, IdleHolds DEF SkipInv, RunsHold

\* A step of one run, that leaves the rule as it is.
LEMMA OneRun ==
  ASSUME SkipInv, run \in [Who -> Runs], now \in Nat, since \in Int, NEW p \in Who, NEW r,
         run' = [run EXCEPT ![p] = r], UNCHANGED <<now, rule, since>>,
         instances \subseteq instances', rule.next \in Int,
         RunHolds(r, now, rule.schedule, since, instances')
  PROVE  SkipInv'
<1>1. ASSUME NEW w \in Who PROVE RunHolds(run'[w], now, rule.schedule, since, instances')
  <2>1. CASE w = p
    BY <2>1
  <2>2. CASE w # p
    <3>1. run'[w] = run[w] /\ RunHolds(run[w], now, rule.schedule, since, instances)
      BY <2>2 DEF SkipInv, RunsHold
    <3> QED
      BY <3>1, RunKeeps
  <2> QED
    BY <2>1, <2>2
<1>2. rule.active => Made(rule.schedule, since, rule.next, instances')
  BY MadeMore DEF SkipInv
<1> QED
  BY <1>1, <1>2 DEF SkipInv, RunsHold

LEMMA UpdateSkip ==
  ASSUME TypeInv, TypeInv', SkipInv, NEW p \in Who, UpdateRun(p)
  PROVE  SkipInv'
<1> DEFINE r == run[p]
<1>a. /\ now \in Nat /\ rule \in Rows /\ since \in Int /\ since' \in Int
      /\ rule.next \in Int /\ rule.schedule \in Schedules /\ run \in [Who -> Runs]
  BY DEF TypeInv, TypeOK, Who, Rows, Times
<1>1. /\ r.pc = "update" /\ UNCHANGED <<now, instances>>
      /\ run' = [run EXCEPT ![p] = IdleRun]
  BY DEF UpdateRun
<1>2. r.schedule \in Schedules /\ r.made \in BOOLEAN
  BY <1>a, <1>1, RunFields
<1>3. /\ r.next = NextRunAt(r.schedule, r.at) /\ r.at \in Nat /\ r.at <= now
      /\ r.made /\ r.schedule = rule.schedule => Made(r.schedule, since, r.at, instances)
      /\ r.made => r.at \in instances
  BY <1>a, <1>1 DEF SkipInv, RunsHold, RunHolds
<1>4. CASE r.next = Never
  <2>1. UNCHANGED <<rule, since>>
    BY <1>4 DEF UpdateRun
  <2>2. RunHolds(IdleRun, now, rule.schedule, since, instances)
    BY IdleHolds
  <2> HIDE DEF r
  <2> QED
    BY <1>a, <1>1, <2>1, <2>2, OneRun
<1>5. CASE r.next # Never
  <2>1. /\ Reached(r.at) /\ r.next \in Int /\ NextRunAt(r.schedule, r.at) # Never
    <3>1. Reached(r.at)
      BY <1>3, Reaches
    <3>2. NextRunAt(r.schedule, r.at) \in Int
      BY <1>2, <3>1, NextIsTime, Calendar DEF Times
    <3> QED
      BY <1>3, <1>5, <3>1, <3>2
  <2>2. /\ rule' = [rule EXCEPT !.next = r.next]
        /\ since' = IF r.schedule # rule.schedule THEN Later(since, r.next)
                    ELSE IF r.made THEN since ELSE Later(since, r.at)
    BY <1>5 DEF UpdateRun
  <2> HIDE DEF r
  <2>3. rule'.schedule = rule.schedule /\ rule'.next = r.next /\ since <= since'
    BY <1>a, <1>3, <2>1, <2>2 DEF Rows, Later
  <2>4. Made(rule.schedule, since', r.next, instances)
    <3>1. CASE r.schedule # rule.schedule
      <4>1. r.next <= since'
        BY <1>a, <2>1, <2>2, <3>1 DEF Later
      <4> QED
        BY <1>a, <2>1, <4>1, MadeNothing
    <3>2. CASE r.schedule = rule.schedule /\ r.made
      BY <1>a, <1>2, <1>3, <2>1, <2>2, <3>2, MadeOn
    <3>3. CASE r.schedule = rule.schedule /\ ~r.made
      <4>1. r.at <= since'
        BY <1>a, <1>3, <2>2, <3>3 DEF Later
      <4> QED
        BY <1>a, <1>2, <1>3, <2>1, <3>3, <4>1, MadePassed
    <3> QED
      BY <1>2, <3>1, <3>2, <3>3
  <2>5. ASSUME NEW w \in Who PROVE RunHolds(run'[w], now, rule.schedule, since', instances)
    <3>1. CASE w = p
      BY <1>a, <1>1, <3>1, IdleHolds
    <3>2. CASE w # p
      <4>1. run'[w] = run[w] /\ RunHolds(run[w], now, rule.schedule, since, instances)
        BY <1>1, <3>2 DEF SkipInv, RunsHold
      <4> QED
        BY <1>a, <2>3, <4>1, RunKeeps
    <3> QED
      BY <3>1, <3>2
  <2> QED
    BY <1>1, <2>3, <2>4, <2>5 DEF SkipInv, RunsHold
<1> QED
  BY <1>4, <1>5

LEMMA StepSkip ==
  ASSUME TypeInv, TypeInv', SkipInv, [Next]_vars
  PROVE  SkipInv'
<1>a. /\ now \in Nat /\ rule \in Rows /\ (rule.active => rule.next # Never)
      /\ rule.next \in Times /\ rule.schedule \in Schedules /\ since \in Times
      /\ run \in [Who -> Runs]
      /\ since \in Int /\ rule.next \in Int /\ template \in BOOLEAN
  BY DEF TypeInv, TypeOK, Who, Rows, Times
<1>b. Reached(now)
  BY <1>a, Reaches
<1>1. ASSUME UNCHANGED <<rule, since, instances, run>>, now' \in Nat, now <= now' PROVE SkipInv'
  BY <1>1, <1>a, RunKeeps DEF SkipInv, RunsHold
<1>2. CASE UNCHANGED vars \/ Tick \/ SetTemplate
  BY <1>1, <1>2, <1>a DEF vars, Tick, SetTemplate
<1>3. CASE RunNow
  <2> DEFINE new == Run("create", now, NextRunAt(rule.schedule, now), FALSE, rule.schedule)
  <2>1. RunHolds(new, now, rule.schedule, since, instances)
    BY <1>a DEF Run, RunHolds
  <2>2. UNCHANGED <<now, rule, instances, since>> /\ run' = [run EXCEPT !["request"] = new]
    BY <1>3 DEF RunNow
  <2> HIDE DEF new
  <2> QED
    BY <1>a, <2>1, <2>2, OneRun DEF Who
<1>4. ASSUME NEW s \in Schedules, NEW on \in BOOLEAN, Edit(s, on) PROVE SkipInv'
  <2>1. /\ rule'.schedule = s /\ (rule'.active => rule'.next = NextRunAt(s, now)) /\ since' = now
        /\ UNCHANGED <<now, instances, run>>
    BY <1>4 DEF Edit
  <2>2. rule'.active => Made(s, now, rule'.next, instances)
    BY <1>4, <1>a, <1>b, <2>1, MadePassed DEF Edit
  <2>3. \A p \in Who : RunHolds(run[p], now, s, now, instances)
    BY <1>a, RunReleased DEF SkipInv, RunsHold
  <2> QED
    BY <2>1, <2>2, <2>3 DEF SkipInv, RunsHold
<1>5. ASSUME NEW p \in Schedulers, ListDue(p) PROVE SkipInv'
  <2> DEFINE new == Run(IF template THEN "create" ELSE "update", rule.next,
                        NextRunAt(rule.schedule, rule.next), template, rule.schedule)
  <2>1. rule.active /\ rule.next \in 0 .. now
    BY <1>5, <1>a DEF ListDue, Times, Never
  <2>2. RunHolds(new, now, rule.schedule, since, instances)
    BY <1>a, <2>1 DEF Run, RunHolds, SkipInv
  <2>3. UNCHANGED <<now, rule, instances, since>> /\ run' = [run EXCEPT ![p] = new]
    BY <1>5 DEF ListDue
  <2> HIDE DEF new
  <2> QED
    BY <1>a, <2>2, <2>3, OneRun DEF Who
<1>6. ASSUME NEW p \in Who, CreateInstance(p) PROVE SkipInv'
  <2> DEFINE new == [run[p] EXCEPT !.pc = "update"]
  <2>1. /\ run[p].pc = "create" /\ UNCHANGED <<now, rule, since>>
        /\ run' = [run EXCEPT ![p] = new]
    BY <1>6 DEF CreateInstance
  <2>2. instances \subseteq instances' /\ run[p].at \in instances'
    BY <1>6 DEF CreateInstance, InsertInstance
  <2>3. /\ new.pc = "update" /\ new.at = run[p].at /\ new.next = run[p].next
        /\ new.made = run[p].made /\ new.schedule = run[p].schedule
    <3>1. run[p] \in Runs
      BY <1>a
    <3> QED
      BY <2>1, <3>1 DEF Runs, IdleRun, Run
  <2> HIDE DEF new
  <2>4. RunHolds(run[p], now, rule.schedule, since, instances')
    BY <1>a, <2>2, RunKeeps DEF SkipInv, RunsHold
  <2>5. RunHolds(new, now, rule.schedule, since, instances')
    BY <2>1, <2>2, <2>3, <2>4 DEF RunHolds
  <2> QED
    BY <1>a, <2>1, <2>2, <2>5, OneRun
<1>7. ASSUME NEW p \in Who, Fails(p) PROVE SkipInv'
  <2>1. UNCHANGED <<now, rule, since, instances>> /\ run' = [run EXCEPT ![p] = IdleRun]
    BY <1>7 DEF Fails
  <2> QED
    BY <1>a, <2>1, IdleHolds, OneRun
<1> QED
  BY <1>2, <1>3, <1>4, <1>5, <1>6, <1>7, UpdateSkip, ChoicesAssumption DEF Next, Step, Who

\* Nothing that a schedule names is left out, whatever it is, but what ComputeNextRunAt passes
\* over from a time that was made or given up: by any number of schedulers that list a rule
\* twice, fail, or write late what they computed from a rule that was edited in between.
THEOREM NothingSkipped == Spec => []NoneSkipped
<1>1. TypeInv /\ SkipInv => NoneSkipped
  <2> SUFFICES ASSUME TypeInv, SkipInv, rule.active,
                      NEW d \in Day(since + 2) .. Day(rule.next - 1), Named(rule.schedule, d),
                      2 * d \notin instances,
                      ~\E t \in instances : d \in PassedOver(rule.schedule, t)
               PROVE  \E earlier \in 0 .. since : d \in PassedOver(rule.schedule, since - earlier)
    BY DEF NoneSkipped
  <2>1. since \in Times /\ rule.next \in Times /\ since \in Int
    BY DEF TypeInv, TypeOK, Rows, Times
  <2>2. d \in Days /\ since < 2 * d /\ 2 * d < rule.next
    BY <2>1, Between
  <2>3. PICK t \in 0 .. since : d \in PassedOver(rule.schedule, t)
    BY <2>2 DEF SkipInv, Made
  <2>4. since - t \in 0 .. since /\ since - (since - t) = t
    BY <2>1
  <2> QED
    BY <2>3, <2>4
<1>2. Init => SkipInv
  BY InitSkip
<1>3. TypeInv /\ TypeInv' /\ SkipInv /\ [Next]_vars => SkipInv'
  BY StepSkip
<1> QED
  BY <1>1, <1>2, <1>3, TypeInvariance, PTL DEF Spec

\* What ComputeNextRunAt gives and what it passes over, for every schedule that is let in, in
\* any calendar, from any time on.
THEOREM NextRunIsFirst == Spec => []NextIsFirst
<1>1. TypeInv => NextIsFirst
  <2> SUFFICES ASSUME TypeInv PROVE NextIsFirst
    OBVIOUS
  <2> DEFINE s == rule.schedule
             next == NextRunAt(s, now)
             passed == {e \in PassedOver(s, now) : ~BeforeCount(s, now, e)}
  <2>1. now \in Nat /\ s \in Schedules /\ Reached(now)
    BY Reaches DEF TypeInv, TypeOK, Rows
  <2>2. CASE next = Never
    BY <2>1, <2>2, NextRunLands, Calendar DEF NextIsFirst, Never
  <2>3. CASE next # Never
    <3>1. PICK d \in Days : next = 2 * d /\ Lands(s, now, d)
      BY <2>1, <2>3, NextRunLands
    <3> HIDE DEF s
    <3>2. d \in Nat /\ Day(next) = d /\ next % 2 = 0 /\ next > now /\ d <= LastDay /\ LastDay \in Int
      BY <3>1, Calendar, Halves DEF Lands
    <3>3. ASSUME NEW e \in passed PROVE e \in Days /\ LeftOut(s, now, d, e)
      <4>1. e \in Day(now + 2) .. Day(next - 1) /\ Named(s, e) /\ ~BeforeCount(s, now, e)
        BY DEF PassedOver
      <4> HIDE DEF next
      <4>2. e \in Int /\ 2 * e > now /\ e < d
        BY <2>1, <3>1, <3>2, <4>1 DEF Day
      <4>3. e \in Days
        BY <2>1, <3>2, <4>2 DEF Days
      <4> QED
        BY <4>1, <4>2, <4>3 DEF LeftOut
    <3> HIDE DEF next, passed
    <3>4. OnDay(s, d) /\ (Overflows(s) \/ (InMonth(s, MonthOf[d]) /\ passed = {}))
      BY <3>1, <3>3 DEF Lands
    <3>5. \A e, f \in passed : e = f
      BY <3>1, <3>3 DEF Lands
    <3>6. s.type = "monthly" => \A e \in passed : s.day > Lengths[MonthOf[e]]
      BY <3>1, <3>3 DEF Lands
    <3> QED
      BY <2>3, <3>2, <3>4, <3>5, <3>6 DEF NextIsFirst, s, next, passed
  <2> QED
    BY <2>2, <2>3
<1> QED
  BY <1>1, TypeInvariance, PTL
=============================================================================
