--------------------------- MODULE CalendarProofs ---------------------------
(***************************************************************************)
(* The windows of an ETL job tile the calendar, for all instants, grains   *)
(* and ranges.  Months follow each other (MonthLength, MonthsApart), so    *)
(* the edges of a grain are a line of instants that ascends (Edge); an     *)
(* instant is truncated to the last edge before it (TruncateFinds), and a  *)
(* grain later than an edge is the next one (AddFinds).                    *)
(*                                                                         *)
(* The walk of a backfill is a recursive function, of which a proof knows  *)
(* nothing until there is one that satisfies its equation (WalkDefined).   *)
(***************************************************************************)
EXTENDS Calendar, FiniteSetTheorems, SequenceTheorems,
        WellFoundedInduction, TLAPS

\* The first day of a month of the line of months, of which 0 is January 2000.
FirstDay(month) == MonthStart(2000, month)

\* A month's place in its year.
LEMMA MonthOfYear ==
    ASSUME NEW m \in Int
    PROVE  /\ m \div 12 \in Int /\ m % 12 \in 0 .. 11
           /\ m = 12 * (m \div 12) + (m % 12)
           /\ m % 12 < 11 => /\ (m + 1) \div 12 = m \div 12
                             /\ (m + 1) % 12 = (m % 12) + 1
           /\ m % 12 = 11 => /\ (m + 1) \div 12 = (m \div 12) + 1
                             /\ (m + 1) % 12 = 0
<1>1. m \div 12 \in Int /\ m % 12 \in 0 .. 11
      /\ m = 12 * (m \div 12) + (m % 12)
  OBVIOUS
<1>2. m % 12 < 11 => /\ (m + 1) \div 12 = m \div 12
                     /\ (m + 1) % 12 = (m % 12) + 1
  OBVIOUS
<1>3. m % 12 = 11 => /\ (m + 1) \div 12 = (m \div 12) + 1
                     /\ (m + 1) % 12 = 0
  OBVIOUS
<1> QED
  BY <1>1, <1>2, <1>3

\* Of 400 years 97 are leap years, and they are spread evenly.
LEMMA LeapsFacts ==
    ASSUME NEW y \in Int
    PROVE  /\ LeapsThrough(y) \in Int
           /\ LeapDays(y) \in {0, 1}
           /\ 97 * y - 800 < 400 * LeapsThrough(y)
           /\ 400 * LeapsThrough(y) < 97 * y + 400
BY DEF LeapsThrough, LeapDays

\* There are no fewer leap years through a later year.
LEMMA LeapsMonotone ==
    ASSUME NEW y \in Int, NEW z \in Int, y <= z
    PROVE  LeapsThrough(y) <= LeapsThrough(z)
BY DEF LeapsThrough

\* A year adds one leap day at most.
LEMMA LeapsInt ==
    ASSUME NEW y \in Int
    PROVE  /\ LeapsThrough(y) \in Int /\ LeapsThrough(y - 1) \in Int
           /\ LeapsThrough(1999) \in Int
           /\ LeapsThrough(y) - LeapsThrough(y - 1) \in {0, 1}
BY LeapsFacts DEF LeapDays

\* Years of whole days have months that start at whole days.
LEMMA StartInt ==
    ASSUME NEW y \in Int, NEW mo \in 0 .. 11
    PROVE  StartInYear(y, mo) \in Int
BY LeapsInt DEF StartInYear, YearStart, LeapDays, DaysBefore

\* A month but the last has 28 to 31 days.
LEMMA NextInYear ==
    ASSUME NEW y \in Int, NEW mo \in 0 .. 10
    PROVE  StartInYear(y, mo + 1) - StartInYear(y, mo) \in 28 .. 31
<1>1. /\ LeapsThrough(y) \in Int /\ LeapsThrough(y - 1) \in Int
      /\ LeapsThrough(1999) \in Int
      /\ LeapsThrough(y) - LeapsThrough(y - 1) \in {0, 1}
  BY LeapsInt
<1> QED
  BY <1>1 DEF StartInYear, YearStart, LeapDays, DaysBefore

\* The last month of a year has 31 days.
LEMMA NextYear ==
    ASSUME NEW y \in Int
    PROVE  StartInYear(y + 1, 0) - StartInYear(y, 11) = 31
<1>1. y + 1 - 1 = y
  OBVIOUS
<1> QED
  BY <1>1, LeapsInt DEF StartInYear, YearStart, LeapDays, DaysBefore

\* A later month of a year begins 28 days later at least.
LEMMA LaterInYear ==
    ASSUME NEW y \in Int, NEW mo \in 0 .. 11, NEW n \in 0 .. 11, mo < n
    PROVE  StartInYear(y, mo) + 28 <= StartInYear(y, n)
<1>1. /\ LeapsThrough(y) \in Int /\ LeapsThrough(y - 1) \in Int
      /\ LeapsThrough(1999) \in Int
      /\ LeapsThrough(y) - LeapsThrough(y - 1) \in {0, 1}
  BY LeapsInt
<1> QED
  BY <1>1 DEF StartInYear, YearStart, LeapDays, DaysBefore

\* The months of a year lie within it.
LEMMA WithinYear ==
    ASSUME NEW y \in Int, NEW mo \in 0 .. 11
    PROVE  /\ StartInYear(y, 0) <= StartInYear(y, mo)
           /\ StartInYear(y, mo) + 28 <= StartInYear(y + 1, 0)
<1>1. y + 1 - 1 = y
  OBVIOUS
<1>2. /\ LeapsThrough(y) \in Int /\ LeapsThrough(y - 1) \in Int
      /\ LeapsThrough(1999) \in Int
      /\ LeapsThrough(y) - LeapsThrough(y - 1) \in {0, 1}
  BY LeapsInt
<1> QED
  BY <1>1, <1>2 DEF StartInYear, YearStart, LeapDays, DaysBefore

\* A later year begins no earlier.
LEMMA YearsMonotone ==
    ASSUME NEW y \in Int, NEW z \in Int, y <= z
    PROVE  StartInYear(y, 0) <= StartInYear(z, 0)
<1>1. LeapsThrough(y - 1) <= LeapsThrough(z - 1)
  BY LeapsMonotone
<1>2. /\ LeapsThrough(y - 1) \in Int /\ LeapsThrough(z - 1) \in Int
      /\ LeapsThrough(1999) \in Int
  BY LeapsFacts
<1> QED
  BY <1>1, <1>2 DEF StartInYear, YearStart, DaysBefore

\* Every month has 28 to 31 days.
LEMMA MonthLength ==
    ASSUME NEW m \in Int
    PROVE  FirstDay(m) \in Int /\ FirstDay(m + 1) - FirstDay(m) \in 28 .. 31
<1> DEFINE y == 2000 + (m \div 12)
           mo == m % 12
<1>1. y \in Int /\ mo \in 0 .. 11 /\ FirstDay(m) = StartInYear(y, mo)
  BY MonthOfYear DEF FirstDay, MonthStart
<1>2. mo < 11 => FirstDay(m + 1) = StartInYear(y, mo + 1)
  BY MonthOfYear DEF FirstDay, MonthStart
<1>3. mo = 11 => FirstDay(m + 1) = StartInYear(y + 1, 0)
  <2>1. mo = 11 => 2000 + ((m + 1) \div 12) = y + 1 /\ (m + 1) % 12 = 0
    BY MonthOfYear
  <2> QED
    BY <2>1 DEF FirstDay, MonthStart
<1> HIDE DEF y, mo
<1>4. CASE mo < 11
  <2>1. mo \in 0 .. 10
    BY <1>1, <1>4
  <2> QED
    BY <1>1, <1>2, <1>4, <2>1, NextInYear, StartInt
<1>5. CASE mo = 11
  <2>1. StartInYear(y + 1, 0) - StartInYear(y, 11) = 31
    BY <1>1, NextYear
  <2>2. StartInYear(y, 11) \in Int
    BY <1>1, StartInt
  <2> QED
    BY <1>1, <1>3, <1>5, <2>1, <2>2
<1> QED
  BY <1>1, <1>4, <1>5

\* A later month begins 28 days later at least.
LEMMA MonthsApart ==
    ASSUME NEW m \in Int, NEW n \in Int, m < n
    PROVE  FirstDay(m) + 28 <= FirstDay(n)
<1> DEFINE y == 2000 + (m \div 12)
           z == 2000 + (n \div 12)
<1> DEFINE mo == m % 12
           no == n % 12
<1>1. /\ y \in Int /\ z \in Int /\ mo \in 0 .. 11 /\ no \in 0 .. 11
      /\ m = 12 * (y - 2000) + mo /\ n = 12 * (z - 2000) + no
      /\ FirstDay(m) = StartInYear(y, mo)
      /\ FirstDay(n) = StartInYear(z, no)
  BY MonthOfYear DEF FirstDay, MonthStart
<1> HIDE DEF y, z, mo, no
<1>2. y <= z
  BY <1>1
<1>3. CASE y = z
  <2>1. mo < no
    BY <1>1, <1>3
  <2> QED
    BY <1>1, <1>3, <2>1, LaterInYear
<1>4. CASE y < z
  <2>1. /\ StartInYear(y, mo) + 28 <= StartInYear(y + 1, 0)
        /\ StartInYear(z, 0) <= StartInYear(z, no)
    BY <1>1, WithinYear
  <2>2. StartInYear(y + 1, 0) <= StartInYear(z, 0)
    BY <1>1, <1>4, YearsMonotone
  <2>3. /\ StartInYear(y, mo) \in Int /\ StartInYear(z, no) \in Int
    <3>1. y \in Int /\ z \in Int /\ mo \in 0 .. 11 /\ no \in 0 .. 11
      BY <1>1
    <3>2. StartInYear(y, mo) \in Int
      BY <3>1, StartInt
    <3>3. StartInYear(z, no) \in Int
      BY <3>1, StartInt
    <3> QED
      BY <3>2, <3>3
  <2>4. y + 1 \in Int /\ StartInYear(y + 1, 0) \in Int
        /\ StartInYear(z, 0) \in Int
    BY <1>1, StartInt
  <2> QED
    BY <1>1, <2>1, <2>2, <2>3, <2>4
<1> QED
  BY <1>1, <1>2, <1>3, <1>4

\* 4800 months have 146097 days, and no month is far from where it would be if
\* all had the same length.
LEMMA MonthDrift ==
    ASSUME NEW m \in Int
    PROVE  /\ 4800 * FirstDay(m) <= 146097 * m + 146097
           /\ 146097 * m - 146097 <= 4800 * FirstDay(m)
<1> DEFINE q == m \div 12
           mo == m % 12
<1>1. q \in Int /\ mo \in 0 .. 11 /\ m = 12 * q + mo
      /\ FirstDay(m) = StartInYear(2000 + q, mo)
  BY MonthOfYear DEF FirstDay, MonthStart
<1> HIDE DEF q, mo
<1> DEFINE y == 2000 + q
<1>2. /\ LeapsThrough(y - 1) \in Int /\ LeapDays(y) \in {0, 1}
      /\ 97 * (y - 1) - 800 < 400 * LeapsThrough(y - 1)
      /\ 400 * LeapsThrough(y - 1) < 97 * (y - 1) + 400
  BY <1>1, LeapsFacts
<1>3. LeapsThrough(1999) = 484
  BY DEF LeapsThrough
<1>4. /\ StartInYear(y, mo) >= 365 * q + LeapsThrough(y - 1) - 484
             + 30 * mo - 2
      /\ StartInYear(y, mo) <= 365 * q + LeapsThrough(y - 1) - 484
             + 31 * mo + 1
  BY <1>1, <1>2, <1>3 DEF StartInYear, YearStart, DaysBefore
<1>5. StartInYear(y, mo) \in Int /\ LeapsThrough(y - 1) \in Int
      /\ y = 2000 + q
  <2>1. y \in Int
    BY <1>1
  <2> HIDE DEF y
  <2>2. mo \in 0 .. 11
    BY <1>1
  <2>3. StartInYear(y, mo) \in Int
    BY <2>1, <2>2, StartInt
  <2> QED
    BY <1>2, <2>3 DEF y
<1> HIDE DEF y
<1> QED
  BY <1>1, <1>2, <1>4, <1>5

\* The month of a day is found around where it would be if all had one length.
LEMMA MonthFound ==
    ASSUME NEW day \in Int
    PROVE  \E month \in Around(day) : HasDay(month, day)
<1> DEFINE m == (day * 4800) \div 146097
<1>1. m \in Int /\ 146097 * m <= 4800 * day /\ 4800 * day < 146097 * m + 146097
  OBVIOUS
<1> HIDE DEF m
<1>2. /\ FirstDay(m - 1) \in Int /\ FirstDay(m) \in Int
      /\ FirstDay(m + 1) \in Int /\ FirstDay(m + 2) \in Int
  BY <1>1, MonthLength
<1>3. FirstDay(m - 1) <= day
  <2>1. 4800 * FirstDay(m - 1) <= 146097 * (m - 1) + 146097
    BY <1>1, MonthDrift
  <2> QED
    BY <1>1, <1>2, <2>1
<1>4. day < FirstDay(m + 2)
  <2>1. 146097 * (m + 2) - 146097 <= 4800 * FirstDay(m + 2)
    BY <1>1, MonthDrift
  <2> QED
    BY <1>1, <1>2, <2>1
<1>5. HasDay(m - 1, day) \/ HasDay(m, day) \/ HasDay(m + 1, day)
  <2>1. (m - 1) + 1 = m /\ (m + 1) + 1 = m + 2
    BY <1>1
  <2> QED
    BY <1>1, <1>2, <1>3, <1>4, <2>1 DEF HasDay, FirstDay
<1>6. Around(day) = m - 1 .. m + 1
  BY DEF Around, m
<1> QED
  BY <1>1, <1>5, <1>6

\* A day is in one month.
LEMMA OneMonth ==
    ASSUME NEW day \in Int, NEW m \in Int, NEW n \in Int,
           HasDay(m, day), HasDay(n, day)
    PROVE  m = n
<1>1. /\ FirstDay(m) <= day /\ day < FirstDay(m + 1)
      /\ FirstDay(n) <= day /\ day < FirstDay(n + 1)
      /\ FirstDay(m) \in Int /\ FirstDay(n) \in Int
      /\ FirstDay(m + 1) \in Int /\ FirstDay(n + 1) \in Int
  BY MonthLength DEF HasDay, FirstDay
<1>2. ~(m + 1 < n) /\ ~(n + 1 < m)
  BY <1>1, MonthsApart
<1> QED
  BY <1>1, <1>2

-----------------------------------------------------------------------------
(* The edges of a grain, in turn                                           *)

\* The k-th edge of a grain; a year begins with its first month.
Edge(grain, k) ==
    CASE grain = "year" -> 1440 * FirstDay(12 * k)
      [] grain = "month" -> 1440 * FirstDay(k)
      [] grain = "day" -> 1440 * k
      [] grain = "hour" -> 60 * k
      [] grain = "minute" -> k

\* The edges of a grain ascend.
LEMMA EdgesAhead ==
    ASSUME NEW grain \in Grains, NEW j \in Int, NEW k \in Int, j < k
    PROVE  /\ Edge(grain, j) \in Int /\ Edge(grain, k) \in Int
           /\ Edge(grain, j) < Edge(grain, k)
<1>1. CASE grain = "year"
  <2>1. 12 * j \in Int /\ 12 * k \in Int /\ 12 * j < 12 * k
    OBVIOUS
  <2>2. FirstDay(12 * j) \in Int /\ FirstDay(12 * k) \in Int
    BY <2>1, MonthLength
  <2>3. FirstDay(12 * j) + 28 <= FirstDay(12 * k)
    BY <2>1, MonthsApart
  <2> QED
    BY <1>1, <2>2, <2>3 DEF Edge
<1>2. CASE grain = "month"
  <2>1. FirstDay(j) \in Int /\ FirstDay(k) \in Int
    BY MonthLength
  <2>2. FirstDay(j) + 28 <= FirstDay(k)
    BY MonthsApart
  <2> QED
    BY <1>2, <2>1, <2>2 DEF Edge
<1>3. CASE grain = "day"
  BY <1>3 DEF Edge
<1>4. CASE grain = "hour"
  BY <1>4 DEF Edge
<1>5. CASE grain = "minute"
  BY <1>5 DEF Edge
<1> QED
  BY <1>1, <1>2, <1>3, <1>4, <1>5 DEF Grains

\* Every edge is before the next.
LEMMA EdgesInt ==
    ASSUME NEW grain \in Grains, NEW k \in Int
    PROVE  /\ Edge(grain, k) \in Int /\ Edge(grain, k + 1) \in Int
           /\ Edge(grain, k) < Edge(grain, k + 1)
<1> DEFINE j == k + 1
<1>1. j \in Int /\ k < j
  OBVIOUS
<1> HIDE DEF j
<1>2. /\ Edge(grain, k) \in Int /\ Edge(grain, j) \in Int
      /\ Edge(grain, k) < Edge(grain, j)
  BY <1>1, EdgesAhead
<1> QED
  BY <1>2 DEF j

\* Edges are in the order of their places.
LEMMA EdgesOrdered ==
    ASSUME NEW grain \in Grains, NEW j \in Int, NEW k \in Int
    PROVE  /\ j < k <=> Edge(grain, j) < Edge(grain, k)
           /\ j <= k <=> Edge(grain, j) <= Edge(grain, k)
<1>1. Edge(grain, j) \in Int /\ Edge(grain, k) \in Int
  BY EdgesInt
<1>2. j < k => Edge(grain, j) < Edge(grain, k)
  BY EdgesAhead
<1>3. k < j => Edge(grain, k) < Edge(grain, j)
  BY EdgesAhead
<1> QED
  BY <1>1, <1>2, <1>3

\* The month that is chosen for a day is the one it is in.
LEMMA MonthChosen ==
    ASSUME NEW day \in Int, NEW m \in Int, HasDay(m, day)
    PROVE  (CHOOSE month \in Around(day) : HasDay(month, day)) = m
<1> DEFINE c == CHOOSE month \in Around(day) : HasDay(month, day)
<1>1. c \in Around(day) /\ HasDay(c, day)
  BY MonthFound
<1>2. c \in Int
  BY <1>1 DEF Around
<1> HIDE DEF c
<1>3. c = m
  BY <1>1, <1>2, OneMonth
<1> QED
  BY <1>3 DEF c

\* The fields of an instant, of the month that its day is in.
LEMMA FieldsFound ==
    ASSUME NEW t \in Int, NEW m \in Int, HasDay(m, t \div 1440)
    PROVE  Fields(t) = FieldsIn(t, m)
<1> DEFINE day == t \div 1440
<1>1. day \in Int /\ HasDay(m, day)
  OBVIOUS
<1>2. Fields(t)
        = FieldsIn(t, CHOOSE month \in Around(day) : HasDay(month, day))
  BY DEF Fields
<1> HIDE DEF day
<1>3. (CHOOSE month \in Around(day) : HasDay(month, day)) = m
  BY <1>1, MonthChosen
<1> QED
  BY <1>2, <1>3

\* The field that each grain counts.
LEMMA Precisions ==
    /\ Precision("year") = 1 /\ Precision("month") = 2 /\ Precision("day") = 3
    /\ Precision("hour") = 4 /\ Precision("minute") = 5
BY DEF Precision

\* The place of a month in its year.
LEMMA YearOfMonths ==
    ASSUME NEW k \in Int, NEW mo \in 0 .. 11
    PROVE  (12 * k + mo) \div 12 = k /\ (12 * k + mo) % 12 = mo
OBVIOUS

\* Days, hours and minutes of an instant.
LEMMA HoursOfDay ==
    ASSUME NEW t \in Int
    PROVE  /\ t \div 60 \in Int /\ t \div 1440 \in Int
           /\ t % 60 \in 0 .. 59 /\ (t \div 60) % 24 \in 0 .. 23
           /\ 24 * (t \div 1440) + ((t \div 60) % 24) = t \div 60
           /\ 60 * (t \div 60) + (t % 60) = t
<1> DEFINE h == t \div 60
<1>1. h \in Int /\ t % 60 \in 0 .. 59 /\ 60 * h + (t % 60) = t
  OBVIOUS
<1>2. h % 24 \in 0 .. 23 /\ h \div 24 \in Int
      /\ 24 * (h \div 24) + (h % 24) = h
  BY <1>1
<1>3. h \div 24 = t \div 1440
  BY <1>1, <1>2
<1> QED
  BY <1>1, <1>2, <1>3

\* What an instant of a day of a month is truncated to.
TruncatedTo(t, day, m) ==
    /\ TruncateToGrain(t, "year") = 1440 * FirstDay(12 * (m \div 12))
    /\ TruncateToGrain(t, "month") = 1440 * FirstDay(m)
    /\ TruncateToGrain(t, "day") = 1440 * day
    /\ TruncateToGrain(t, "hour") = 60 * (t \div 60)
    /\ TruncateToGrain(t, "minute") = t

\* Of a day in a month, an instant is truncated as its fields say.
LEMMA TruncateInMonth ==
    ASSUME NEW t \in Int, NEW day \in Int, day = t \div 1440,
           NEW m \in Int, HasDay(m, day)
    PROVE  TruncatedTo(t, day, m)
<1> DEFINE q == m \div 12
           mo == m % 12
           d == day - FirstDay(m) + 1
           h == (t \div 60) % 24
           mi == t % 60
<1>1. Fields(t) = <<2000 + q, mo, d, h, mi>>
  <2>1. Fields(t) = FieldsIn(t, m)
    <3>1. HasDay(m, t \div 1440)
      OBVIOUS
    <3>2. t \in Int /\ m \in Int
      OBVIOUS
    <3> QED
      BY ONLY <3>1, <3>2, FieldsFound, Zenon
  <2> QED
    BY <2>1 DEF FieldsIn, FirstDay
<1>2. /\ q \in Int /\ mo \in 0 .. 11 /\ m = 12 * q + mo
      /\ FirstDay(m) = StartInYear(2000 + q, mo)
  BY MonthOfYear DEF FirstDay, MonthStart
<1>3. FirstDay(12 * q) = StartInYear(2000 + q, 0)
  BY <1>2, YearOfMonths DEF FirstDay, MonthStart
<1>4. MonthStart(2000 + q, mo) = FirstDay(m)
  <2>1. mo \div 12 = 0 /\ mo % 12 = mo /\ 2000 + q + 0 = 2000 + q
    BY <1>2
  <2> QED
    BY <1>2, <2>1 DEF MonthStart
<1>5. MonthStart(2000 + q, 0) = FirstDay(12 * q)
  <2>1. 0 \div 12 = 0 /\ 0 % 12 = 0 /\ 2000 + q + 0 = 2000 + q
    BY <1>2
  <2> QED
    BY <1>3, <2>1 DEF MonthStart
<1>6. /\ FirstDay(m) \in Int /\ FirstDay(12 * q) \in Int
      /\ t \div 60 \in Int /\ day \in Int
      /\ mi \in 0 .. 59 /\ h \in 0 .. 23
      /\ 24 * day + h = t \div 60
      /\ 60 * (t \div 60) + mi = t
      /\ d = day - FirstDay(m) + 1
  BY <1>2, MonthLength, HoursOfDay
<1> DEFINE y == 2000 + q
<1>7. Fields(t) = <<y, mo, d, h, mi>>
  BY <1>1
<1> HIDE DEF y, q, mo, d, h, mi
<1>8. /\ Keep(Fields(t), 1) = <<y, 0, 1, 0, 0>>
      /\ Keep(Fields(t), 2) = <<y, mo, 1, 0, 0>>
      /\ Keep(Fields(t), 3) = <<y, mo, d, 0, 0>>
      /\ Keep(Fields(t), 4) = <<y, mo, d, h, 0>>
      /\ Keep(Fields(t), 5) = <<y, mo, d, h, mi>>
  BY <1>7 DEF Keep
<1>9. /\ Utc(<<y, 0, 1, 0, 0>>) = 1440 * FirstDay(12 * q)
      /\ Utc(<<y, mo, 1, 0, 0>>) = 1440 * FirstDay(m)
      /\ Utc(<<y, mo, d, 0, 0>>) = 1440 * day
      /\ Utc(<<y, mo, d, h, 0>>) = 60 * (t \div 60)
      /\ Utc(<<y, mo, d, h, mi>>) = t
  BY <1>4, <1>5, <1>6 DEF Utc, y
<1> QED
  BY <1>8, <1>9, Precisions DEF TruncatedTo, TruncateToGrain, q

-----------------------------------------------------------------------------
(* The buckets                                                             *)

\* The day of an instant is in a month.
LEMMA DayInMonth ==
    ASSUME NEW day \in Int
    PROVE  \E m \in Int : HasDay(m, day)
<1>1. \A month \in Around(day) : month \in Int
  BY DEF Around
<1> QED
  BY <1>1, MonthFound

\* An instant's day against a day's first instant.
LEMMA DayOfInstant ==
    ASSUME NEW t \in Int, NEW day \in Int
    PROVE  /\ t \div 1440 \in Int
           /\ 1440 * day <= t <=> day <= t \div 1440
           /\ t < 1440 * day <=> t \div 1440 < day
OBVIOUS

\* The first month of a year and of the next.
LEMMA YearsMonths ==
    ASSUME NEW m \in Int
    PROVE  /\ m \div 12 \in Int
           /\ 12 * (m \div 12) <= m /\ m + 1 <= 12 * ((m \div 12) + 1)
OBVIOUS

\* Later months begin no earlier.
LEMMA FirstDaysAscend ==
    ASSUME NEW m \in Int, NEW n \in Int, m <= n
    PROVE  FirstDay(m) \in Int /\ FirstDay(n) \in Int
           /\ FirstDay(m) <= FirstDay(n)
<1>1. FirstDay(m) \in Int /\ FirstDay(n) \in Int
  BY MonthLength
<1>2. CASE m = n
  BY <1>1, <1>2
<1>3. CASE m < n
  BY <1>1, <1>3, MonthsApart
<1> QED
  BY <1>1, <1>2, <1>3

\* An instant is truncated to the last edge before it.
LEMMA TruncateFinds ==
    ASSUME NEW grain \in Grains, NEW t \in Int
    PROVE  \E k \in Int : /\ TruncateToGrain(t, grain) = Edge(grain, k)
                          /\ Edge(grain, k) <= t /\ t < Edge(grain, k + 1)
<1> DEFINE day == t \div 1440
<1>1. day \in Int
  OBVIOUS
<1>2. PICK m \in Int : HasDay(m, day)
  BY <1>1, DayInMonth
<1>3. TruncatedTo(t, day, m)
  <2>1. day \in Int /\ day = t \div 1440
    OBVIOUS
  <2> HIDE DEF day
  <2> QED
    BY <1>2, <2>1, TruncateInMonth
<1>4. /\ FirstDay(m) \in Int /\ FirstDay(m + 1) \in Int
      /\ FirstDay(m) <= day /\ day < FirstDay(m + 1)
  BY <1>2, MonthLength DEF HasDay, FirstDay
<1>5. /\ 1440 * day <= t /\ t < 1440 * (day + 1)
  OBVIOUS
<1>6. CASE grain = "year"
  <2> DEFINE k == m \div 12
  <2>1. /\ k \in Int /\ 12 * k \in Int /\ 12 * (k + 1) \in Int
        /\ 12 * k <= m /\ m + 1 <= 12 * (k + 1) /\ m + 1 \in Int
    BY YearsMonths
  <2>2. TruncateToGrain(t, "year") = 1440 * FirstDay(12 * k)
    BY <1>3 DEF TruncatedTo
  <2> HIDE DEF k, day
  <2>3. /\ FirstDay(12 * k) \in Int /\ FirstDay(12 * (k + 1)) \in Int
        /\ FirstDay(12 * k) <= FirstDay(m)
        /\ FirstDay(m + 1) <= FirstDay(12 * (k + 1))
    BY <2>1, FirstDaysAscend
  <2>4. 1440 * FirstDay(12 * k) <= t /\ t < 1440 * FirstDay(12 * (k + 1))
    BY <1>1, <1>4, <1>5, <2>3
  <2> QED
    BY <1>6, <2>1, <2>2, <2>4 DEF Edge, TruncatedTo
<1>7. CASE grain = "month"
  <2> HIDE DEF day
  <2>1. 1440 * FirstDay(m) <= t /\ t < 1440 * FirstDay(m + 1)
    BY <1>1, <1>4, <1>5
  <2> QED
    BY <1>3, <1>7, <2>1 DEF Edge, TruncatedTo
<1>8. CASE grain = "day"
  <2> HIDE DEF day
  <2> QED
    BY <1>1, <1>3, <1>5, <1>8 DEF Edge, TruncatedTo
<1>9. CASE grain = "hour"
  <2>1. t \div 60 \in Int /\ 60 * (t \div 60) <= t
        /\ t < 60 * ((t \div 60) + 1)
    OBVIOUS
  <2> QED
    BY <1>3, <1>9, <2>1 DEF Edge, TruncatedTo
<1>10. CASE grain = "minute"
  BY <1>3, <1>10 DEF Edge, TruncatedTo
<1> QED
  BY <1>6, <1>7, <1>8, <1>9, <1>10 DEF Grains

\* An instant between two edges is truncated to the first of them.
LEMMA EdgesFound ==
    ASSUME NEW grain \in Grains, NEW t \in Int, NEW k \in Int,
           Edge(grain, k) <= t, t < Edge(grain, k + 1)
    PROVE  TruncateToGrain(t, grain) = Edge(grain, k)
<1>1. PICK j \in Int : /\ TruncateToGrain(t, grain) = Edge(grain, j)
                       /\ Edge(grain, j) <= t /\ t < Edge(grain, j + 1)
  BY TruncateFinds
<1>2. k + 1 \in Int /\ j + 1 \in Int /\ j < j + 1 /\ k < k + 1
  OBVIOUS
<1>3. /\ Edge(grain, j) \in Int /\ Edge(grain, k) \in Int
      /\ Edge(grain, j + 1) \in Int /\ Edge(grain, k + 1) \in Int
  BY <1>2, EdgesAhead
<1>4. ~(j + 1 < k) /\ j + 1 # k
  BY <1>1, <1>2, <1>3, EdgesAhead
<1>5. ~(k + 1 < j) /\ k + 1 # j
  BY <1>1, <1>2, <1>3, EdgesAhead
<1>6. j = k
  BY <1>4, <1>5
<1> QED
  BY <1>1, <1>6

\* The first instant of a month, which may be the twelfth from 0.
LEMMA FirstOfMonth ==
    ASSUME NEW y \in Int, NEW mo \in Int, 0 <= mo, mo <= 12,
           NEW m \in Int, m = 12 * (y - 2000) + mo
    PROVE  Month(y, mo) = 1440 * FirstDay(m)
<1>1. 2000 + (m \div 12) = y + (mo \div 12) /\ m % 12 = mo % 12
  OBVIOUS
<1>2. MonthStart(y, mo) = FirstDay(m)
  BY <1>1 DEF MonthStart, FirstDay
<1>3. FirstDay(m) \in Int
  BY MonthLength
<1> QED
  BY <1>2, <1>3 DEF Month, Utc

\* A grain after an edge is the next edge.
LEMMA AddFinds ==
    ASSUME NEW grain \in Grains, NEW k \in Int
    PROVE  AddGrain(Edge(grain, k), grain) = Edge(grain, k + 1)
<1> DEFINE t == Edge(grain, k)
<1>1. t \in Int
  BY EdgesAhead
<1>2. CASE grain = "year"
  <2> DEFINE m == 12 * k
             first == FirstDay(m)
  <2>1. m \in Int /\ m \div 12 = k /\ m % 12 = 0
    OBVIOUS
  <2>2. first \in Int /\ first < FirstDay(m + 1)
    BY <2>1, MonthLength
  <2>3. t = 1440 * first
    BY <1>2 DEF Edge
  <2>4. t \div 1440 = first /\ (t \div 60) % 24 = 0 /\ t % 60 = 0
    <3> HIDE DEF first
    <3> QED
      BY <2>2, <2>3
  <2>5. HasDay(m, t \div 1440)
    BY <2>2, <2>4 DEF HasDay, FirstDay
  <2>6. Fields(t) = FieldsIn(t, m)
    BY <1>1, <2>1, <2>5, FieldsFound, Zenon
  <2>7. Fields(t) = <<2000 + k, 0, 1, 0, 0>>
    BY <2>1, <2>2, <2>4, <2>6 DEF FieldsIn, FirstDay
  <2>8. [Fields(t) EXCEPT ![1] = @ + 1] = <<2001 + k, 0, 1, 0, 0>>
    BY <2>7
  <2>9. AddGrain(t, grain) = Utc(<<2001 + k, 0, 1, 0, 0>>)
    BY <1>2, <2>8, Precisions DEF AddGrain
  <2>10. Utc(<<2001 + k, 0, 1, 0, 0>>) = 1440 * FirstDay(12 * (k + 1))
    <3> DEFINE y == 2001 + k
               m2 == 12 * (k + 1)
    <3>1. y \in Int /\ 0 \in Int /\ 0 <= 0 /\ 0 <= 12 /\ m2 \in Int
          /\ m2 = 12 * (y - 2000) + 0
      OBVIOUS
    <3>2. Utc(<<2001 + k, 0, 1, 0, 0>>) = Month(y, 0)
      BY DEF Month
    <3> HIDE DEF y, m2
    <3>3. Month(y, 0) = 1440 * FirstDay(m2)
      BY <3>1, FirstOfMonth
    <3> QED
      BY <3>2, <3>3 DEF m2
  <2> QED
    BY <1>2, <2>9, <2>10 DEF Edge
<1>3. CASE grain = "month"
  <2> DEFINE first == FirstDay(k)
             q == k \div 12
             mo == k % 12
  <2>1. q \in Int /\ mo \in 0 .. 11 /\ k = 12 * q + mo
    OBVIOUS
  <2>2. first \in Int /\ first < FirstDay(k + 1)
    BY MonthLength
  <2>3. t = 1440 * first
    BY <1>3 DEF Edge
  <2>4. t \div 1440 = first /\ (t \div 60) % 24 = 0 /\ t % 60 = 0
    <3> HIDE DEF first
    <3> QED
      BY <2>2, <2>3
  <2>5. HasDay(k, t \div 1440)
    BY <2>2, <2>4 DEF HasDay, FirstDay
  <2>6. Fields(t) = FieldsIn(t, k)
    BY <1>1, <2>5, FieldsFound, Zenon
  <2>7. Fields(t) = <<2000 + q, mo, 1, 0, 0>>
    BY <2>2, <2>4, <2>6 DEF FieldsIn, FirstDay
  <2> HIDE DEF q, mo, first
  <2>8. [Fields(t) EXCEPT ![2] = @ + 1] = <<2000 + q, mo + 1, 1, 0, 0>>
    BY <2>7
  <2>9. AddGrain(t, grain) = Utc(<<2000 + q, mo + 1, 1, 0, 0>>)
    BY <1>3, <2>8, Precisions DEF AddGrain
  <2>10. Utc(<<2000 + q, mo + 1, 1, 0, 0>>) = 1440 * FirstDay(k + 1)
    <3> DEFINE y == 2000 + q
               n == mo + 1
               m == k + 1
    <3>1. /\ y \in Int /\ n \in Int /\ 0 <= n /\ n <= 12
          /\ m \in Int /\ m = 12 * (y - 2000) + n
      BY <2>1
    <3>2. Utc(<<2000 + q, mo + 1, 1, 0, 0>>) = Month(y, n)
      BY DEF Month
    <3> HIDE DEF y, n, m
    <3>3. Month(y, n) = 1440 * FirstDay(m)
      BY <3>1, FirstOfMonth
    <3> QED
      BY <3>2, <3>3 DEF m
  <2> QED
    BY <1>3, <2>9, <2>10 DEF Edge
<1>4. CASE grain = "day"
  <2>1. t = 1440 * k /\ t \div 1440 = k /\ (t \div 60) % 24 = 0 /\ t % 60 = 0
    BY <1>4 DEF Edge
  <2>2. PICK m \in Int : HasDay(m, k)
    BY DayInMonth
  <2>3. Fields(t) = FieldsIn(t, m)
    <3>1. HasDay(m, t \div 1440)
      BY <2>1, <2>2
    <3> QED
      BY <1>1, <3>1, FieldsFound, Zenon
  <2> DEFINE y == 2000 + (m \div 12)
             mo == m % 12
             first == FirstDay(m)
  <2>4. Fields(t) = <<y, mo, k - first + 1, 0, 0>>
    BY <2>1, <2>3 DEF FieldsIn, FirstDay
  <2>5. MonthStart(y, mo) = first /\ first \in Int
    <3>1. mo \div 12 = 0 /\ mo % 12 = mo /\ y + 0 = y
      OBVIOUS
    <3> QED
      BY <3>1, MonthLength DEF MonthStart, FirstDay
  <2> HIDE DEF y, mo, first
  <2>6. [Fields(t) EXCEPT ![3] = @ + 1] = <<y, mo, k - first + 2, 0, 0>>
    BY <2>4, <2>5
  <2>7. AddGrain(t, grain) = Utc(<<y, mo, k - first + 2, 0, 0>>)
    BY <1>4, <2>6, Precisions DEF AddGrain
  <2>8. Utc(<<y, mo, k - first + 2, 0, 0>>) = 1440 * (k + 1)
    BY <2>5 DEF Utc
  <2> QED
    BY <1>4, <2>7, <2>8 DEF Edge
<1>5. CASE grain = "hour"
  BY <1>1, <1>5 DEF Edge, AddGrain
<1>6. CASE grain = "minute"
  BY <1>1, <1>6 DEF Edge, AddGrain
<1> QED
  BY <1>2, <1>3, <1>4, <1>5, <1>6 DEF Grains

\* "The window edges the runner computes and the buckets the database groups by
\* can never disagree": whatever the grain, every instant is in the bucket that
\* is found for it, whose bounds are aligned, and the instants that truncate to
\* its first are the instants from its first until its last.
THEOREM BucketsTile ==
    ASSUME NEW grain \in Grains, NEW t \in Int
    PROVE  LET window == WindowAt(TruncateToGrain(t, grain), grain)
           IN  /\ window.from \in Int /\ window.until \in Int
               /\ window.from <= t /\ t < window.until
               /\ Aligned(window.from, grain) /\ Aligned(window.until, grain)
               /\ \A s \in Int :
                     TruncateToGrain(s, grain) = window.from
                     <=> window.from <= s /\ s < window.until
<1>1. PICK k \in Int : /\ TruncateToGrain(t, grain) = Edge(grain, k)
                       /\ Edge(grain, k) <= t /\ t < Edge(grain, k + 1)
  BY TruncateFinds
<1> DEFINE from == Edge(grain, k)
           until == Edge(grain, k + 1)
<1>2. AddGrain(from, grain) = until
  BY AddFinds
<1>3. from \in Int /\ until \in Int /\ from < until
  BY EdgesAhead
<1>4. Aligned(from, grain)
  BY <1>3, EdgesFound DEF Aligned
<1>5. Aligned(until, grain)
  <2> DEFINE j == k + 1
  <2>1. j \in Int /\ j + 1 \in Int /\ j < j + 1 /\ until = Edge(grain, j)
    OBVIOUS
  <2> HIDE DEF j, until
  <2>2. Edge(grain, j) \in Int /\ Edge(grain, j) < Edge(grain, j + 1)
    BY <2>1, EdgesAhead
  <2>3. TruncateToGrain(Edge(grain, j), grain) = Edge(grain, j)
    BY <2>1, <2>2, EdgesFound
  <2> QED
    BY <2>1, <2>3 DEF Aligned
<1>6. ASSUME NEW s \in Int
      PROVE  TruncateToGrain(s, grain) = from <=> from <= s /\ s < until
  <2>1. ASSUME from <= s, s < until
        PROVE  TruncateToGrain(s, grain) = from
    BY <2>1, EdgesFound
  <2>2. ASSUME TruncateToGrain(s, grain) = from
        PROVE  from <= s /\ s < until
    <3>1. PICK j \in Int : /\ TruncateToGrain(s, grain) = Edge(grain, j)
                           /\ Edge(grain, j) <= s /\ s < Edge(grain, j + 1)
      BY TruncateFinds
    <3>2. Edge(grain, j) = Edge(grain, k)
      BY <2>2, <3>1
    <3>3. j = k
      BY <3>2, EdgesAhead
    <3> QED
      BY <3>1, <3>3
  <2> QED
    BY <2>1, <2>2
<1> HIDE DEF from, until
<1>7. WindowAt(TruncateToGrain(t, grain), grain)
      = [from |-> from, until |-> until]
  BY <1>1, <1>2 DEF WindowAt, from
<1> QED
  BY <1>1, <1>3, <1>4, <1>5, <1>6, <1>7 DEF from, until

-----------------------------------------------------------------------------
(* The walk of a backfill                                                  *)

\* The naturals are well founded.
LEMMA LeastNatural ==
    ASSUME NEW S \in SUBSET Nat, S # {}
    PROVE  \E n \in S : \A m \in S : n <= m
<1> DEFINE Segments == {0 .. n : n \in S}
<1>1. Segments # {} /\ Segments \subseteq FiniteSubsetsOf(Nat)
  <2>1. \A n \in S : 0 .. n \in SUBSET Nat /\ IsFiniteSet(0 .. n)
    BY FS_Interval
  <2> QED
    BY <2>1 DEF FiniteSubsetsOf
<1>2. PICK T \in Segments :
         \A U \in Segments : <<U, T>> \notin StrictSubsetOrdering(Nat)
  BY <1>1, FS_StrictSubsetOrderingWellFounded, WFMin
<1>3. PICK n \in S : T = 0 .. n
  OBVIOUS
<1>4. ASSUME NEW m \in S, m < n PROVE FALSE
  <2>1. 0 .. m \in Segments /\ 0 .. m \subseteq 0 .. n /\ n \in 0 .. n
        /\ n \notin 0 .. m
    BY <1>4
  <2>2. 0 .. m \in SUBSET Nat /\ T \in SUBSET Nat
    BY <1>3
  <2>3. <<0 .. m, T>> \in StrictSubsetOrdering(Nat)
    BY <1>3, <2>1, <2>2 DEF StrictSubsetOrdering
  <2> QED
    BY <1>2, <2>1, <2>3
<1> QED
  BY <1>4

\* A walk along the integers that stops.
WalkStep(f, stop, first, next, e) ==
    IF stop[e] THEN <<>> ELSE first[e] \o f[next[e]]

\* A walk from an integer on.
IsWalk(f, stop, first, next, a) ==
    \A e \in Int : e >= a => f[e] = WalkStep(f, stop, first, next, e)

\* A walk from everywhere.
IsWholeWalk(f, stop, first, next) ==
    f = [e \in Int |-> WalkStep(f, stop, first, next, e)]

\* A walk advances, and stops at a bound at the latest.
Stops(stop, next, bound) ==
    /\ \A e \in Int : next[e] > e
    /\ \A e \in Int : e >= bound => stop[e]

\* Two walks agree where both are.
LEMMA PartsAgree ==
    ASSUME NEW stop, NEW first, NEW next \in [Int -> Int], NEW bound \in Int,
           Stops(stop, next, bound), NEW a \in Int, NEW b \in Int, a <= b,
           NEW f, IsWalk(f, stop, first, next, a),
           NEW g, IsWalk(g, stop, first, next, b)
    PROVE  \A e \in Int : e >= b => f[e] = g[e]
<1> USE DEF Stops, IsWalk
<1> SUFFICES ASSUME NEW e0 \in Int, e0 >= b, f[e0] # g[e0] PROVE FALSE
  OBVIOUS
<1> DEFINE Bad == {n \in Nat : bound - n >= b /\ f[bound - n] # g[bound - n]}
<1>1. \A e \in Int : e >= b /\ f[e] # g[e] => e < bound
  <2> SUFFICES ASSUME NEW e \in Int, e >= b, e >= bound PROVE f[e] = g[e]
    OBVIOUS
  <2>1. stop[e] /\ e >= a
    OBVIOUS
  <2> QED
    BY <2>1 DEF WalkStep
<1>2. \A e \in Int : e >= b /\ f[e] # g[e] =>
         bound - e \in Bad /\ bound - e \in Nat
  <2> SUFFICES ASSUME NEW e \in Int, e >= b, f[e] # g[e]
               PROVE  bound - e \in Bad
    OBVIOUS
  <2>1. e < bound /\ bound - e \in Nat /\ bound - (bound - e) = e
    BY <1>1
  <2> QED
    BY <2>1
<1>3. PICK n \in Bad : \A m \in Bad : n <= m
  <2>1. Bad # {} /\ Bad \in SUBSET Nat
    BY <1>2
  <2> HIDE DEF Bad
  <2> QED
    BY <2>1, LeastNatural
<1> DEFINE e == bound - n
<1>4. /\ e \in Int /\ n \in Nat /\ n = bound - e /\ e >= b /\ e >= a
      /\ f[e] # g[e]
  BY <1>3
<1> HIDE DEF e
<1>5. next[e] \in Int /\ next[e] > e
  BY <1>4
<1>6. f[next[e]] = g[next[e]]
  <2> SUFFICES ASSUME f[next[e]] # g[next[e]] PROVE FALSE
    OBVIOUS
  <2>1. bound - next[e] \in Bad
    BY <1>2, <1>4, <1>5
  <2> QED
    BY <1>3, <1>4, <1>5, <2>1
<1>7. /\ f[e] = WalkStep(f, stop, first, next, e)
      /\ g[e] = WalkStep(g, stop, first, next, e)
  BY <1>4
<1> QED
  BY <1>4, <1>6, <1>7 DEF WalkStep

\* A walk that advances and stops is defined everywhere.
LEMMA WalkDefined ==
    ASSUME NEW stop, NEW first, NEW next \in [Int -> Int], NEW bound \in Int,
           Stops(stop, next, bound)
    PROVE  \E f : IsWholeWalk(f, stop, first, next)
<1> USE DEF Stops, IsWalk
<1> DEFINE Part(f, a) == IsWalk(f, stop, first, next, a)
<1>1. ASSUME NEW a \in Int, a >= bound PROVE \E f : Part(f, a)
  <2> DEFINE f == [e \in Int |-> <<>>]
  <2>1. Part(f, a)
    <3>1. \A e \in Int : e >= a => stop[e] /\ f[e] = <<>>
      BY <1>1
    <3> HIDE DEF f
    <3> QED
      BY <3>1 DEF WalkStep
  <2> QED
    BY <2>1
<1>2. ASSUME NEW a \in Int, NEW g, Part(g, a + 1) PROVE \E f : Part(f, a)
  <2> DEFINE f == [e \in Int |->
                      IF e = a THEN WalkStep(g, stop, first, next, a)
                      ELSE g[e]]
  <2>1. ASSUME NEW e \in Int, e >= a
        PROVE  f[e] = WalkStep(f, stop, first, next, e)
    <3>1. next[e] \in Int /\ next[e] # a
      BY <2>1
    <3>2. f[next[e]] = g[next[e]]
      BY <3>1
    <3>3. f[e] = WalkStep(g, stop, first, next, e)
      <4>1. CASE e = a
        BY <4>1
      <4>2. CASE e # a
        <5>1. e >= a + 1 /\ f[e] = g[e]
          BY <2>1, <4>2
        <5> QED
          BY <1>2, <5>1
      <4> QED
        BY <4>1, <4>2
    <3> HIDE DEF f
    <3> QED
      BY <3>2, <3>3 DEF WalkStep
  <2> HIDE DEF f
  <2> QED
    BY <2>1
<1>3. ASSUME NEW a \in Int PROVE \E f : Part(f, a)
  <2> SUFFICES ASSUME ~\E f : Part(f, a) PROVE FALSE
    OBVIOUS
  <2> DEFINE Bad == {n \in Nat : ~\E f : Part(f, bound - n)}
  <2> HIDE DEF Part
  <2>1. a < bound
    BY <1>1
  <2>2. bound - a \in Bad
    <3>1. bound - a \in Nat /\ bound - (bound - a) = a
      BY <2>1
    <3> QED
      BY <3>1
  <2>3. PICK n \in Bad : \A m \in Bad : n <= m
    <3>1. Bad # {} /\ Bad \in SUBSET Nat
      BY <2>2
    <3> HIDE DEF Bad
    <3> QED
      BY <3>1, LeastNatural
  <2>4. n \in Nat /\ ~\E f : Part(f, bound - n)
    BY <2>3
  <2>5. n # 0
    <3>1. bound - 0 = bound /\ bound >= bound
      OBVIOUS
    <3> QED
      BY <1>1, <2>4, <3>1
  <2>6. n - 1 \in Nat /\ bound - (n - 1) = (bound - n) + 1 /\ bound - n \in Int
    BY <2>4, <2>5
  <2>7. n - 1 \notin Bad
    BY <2>3, <2>4, <2>6
  <2>8. \E f : Part(f, (bound - n) + 1)
    BY <2>6, <2>7
  <2> QED
    BY <1>2, <2>4, <2>6, <2>8
<1> DEFINE G == [a \in Int |-> CHOOSE f : Part(f, a)]
           f == [e \in Int |-> G[e][e]]
<1>4. ASSUME NEW e \in Int PROVE f[e] = WalkStep(f, stop, first, next, e)
  <2>1. Part(G[e], e) /\ f[e] = G[e][e]
    <3>1. G[e] = CHOOSE g : Part(g, e)
      OBVIOUS
    <3> HIDE DEF Part, G
    <3> QED
      BY <1>3, <3>1
  <2>2. next[e] \in Int /\ next[e] > e
    OBVIOUS
  <2> DEFINE b == next[e]
  <2>3. Part(G[b], b) /\ f[b] = G[b][b]
    <3>1. G[b] = CHOOSE g : Part(g, b)
      BY <2>2
    <3>2. f[b] = G[b][b]
      BY <2>2
    <3> HIDE DEF Part, G, b, f
    <3>3. b \in Int
      BY <2>2 DEF b
    <3> QED
      BY <1>3, <3>1, <3>2, <3>3
  <2> HIDE DEF G, f
  <2>4. G[e][b] = G[b][b]
    <3>1. b \in Int /\ e <= b /\ b >= b
      BY <2>2
    <3> HIDE DEF b
    <3>2. /\ IsWalk(G[e], stop, first, next, e)
          /\ IsWalk(G[b], stop, first, next, b)
      BY <2>1, <2>3
    <3> HIDE DEF Part, Stops, IsWalk
    <3>3. ASSUME NEW c \in Int, e <= c, NEW g, NEW h,
                 IsWalk(g, stop, first, next, e),
                 IsWalk(h, stop, first, next, c)
          PROVE  \A x \in Int : x >= c => g[x] = h[x]
      BY <3>3, PartsAgree
    <3>4. \A x \in Int : x >= b => G[e][x] = G[b][x]
      BY <3>1, <3>2, <3>3
    <3> QED
      BY <3>1, <3>4
  <2>5. G[e][e] = WalkStep(G[e], stop, first, next, e)
    BY <2>1
  <2> QED
    BY <2>1, <2>3, <2>4, <2>5 DEF WalkStep
<1>5. IsWholeWalk(f, stop, first, next)
  <2>1. f = [e \in Int |-> f[e]]
    OBVIOUS
  <2> HIDE DEF f
  <2> QED
    BY <1>4, <2>1 DEF IsWholeWalk
<1> QED
  BY <1>5

\* A later year's month begins later.
LEMMA LaterYear ==
    ASSUME NEW y \in Int, NEW mo \in 0 .. 11
    PROVE  StartInYear(y, mo) < StartInYear(y + 1, mo)
<1>1. StartInYear(y, mo) + 28 <= StartInYear(y + 1, 0)
  BY WithinYear
<1>2. y + 1 \in Int /\ mo \in 0 .. 11 /\ 0 \in 0 .. 11
  OBVIOUS
<1> DEFINE z == y + 1
<1> HIDE DEF z
<1>3. z \in Int
  BY <1>2 DEF z
<1>4. StartInYear(z, 0) <= StartInYear(z, mo)
  BY <1>3, WithinYear
<1>5. StartInYear(z, 0) \in Int /\ StartInYear(z, mo) \in Int
  BY <1>2, <1>3, StartInt
<1>6. StartInYear(y, mo) \in Int
  BY StartInt
<1> QED
  BY <1>1, <1>4, <1>5, <1>6 DEF z

\* The fields of an instant are whole, and stand for it.
LEMMA FieldsMean ==
    ASSUME NEW t \in Int
    PROVE  \E y \in Int, mo \in 0 .. 11, d \in Int, h \in Int, mi \in Int :
              Fields(t) = <<y, mo, d, h, mi>> /\ Utc(<<y, mo, d, h, mi>>) = t
<1> DEFINE day == t \div 1440
<1>1. day \in Int
  OBVIOUS
<1>2. PICK m \in Int : HasDay(m, day)
  BY <1>1, DayInMonth
<1> DEFINE y == 2000 + (m \div 12)
           mo == m % 12
           d == day - FirstDay(m) + 1
           h == (t \div 60) % 24
           mi == t % 60
<1>3. Fields(t) = <<y, mo, d, h, mi>>
  <2>1. HasDay(m, t \div 1440)
    BY <1>2
  <2>2. t \in Int /\ m \in Int
    OBVIOUS
  <2>3. Fields(t) = FieldsIn(t, m)
    BY ONLY <2>1, <2>2, FieldsFound, Zenon
  <2> QED
    BY <2>3 DEF FieldsIn, FirstDay
<1>4. y \in Int /\ mo \in 0 .. 11 /\ d \in Int /\ h \in Int /\ mi \in Int
  BY <1>1, MonthLength
<1>5. Keep(Fields(t), 5) = <<y, mo, d, h, mi>>
  <2> HIDE DEF y, mo, d, h, mi
  <2> QED
    BY <1>3 DEF Keep
<1>6. TruncateToGrain(t, "minute") = t
  <2>1. day = t \div 1440
    OBVIOUS
  <2> HIDE DEF day
  <2>2. TruncatedTo(t, day, m)
    BY <1>1, <1>2, <2>1, TruncateInMonth
  <2> QED
    BY <2>2 DEF TruncatedTo
<1>7. Utc(<<y, mo, d, h, mi>>) = t
  <2> HIDE DEF y, mo, d, h, mi
  <2> QED
    BY <1>5, <1>6, Precisions DEF TruncateToGrain
<1> HIDE DEF y, mo, d, h, mi
<1> QED
  BY <1>3, <1>4, <1>7

\* The start of a month of a year.
LEMMA MonthStarts ==
    ASSUME NEW y \in Int, NEW mo \in 0 .. 11
    PROVE  /\ MonthStart(y, mo) \in Int /\ MonthStart(y + 1, mo) \in Int
           /\ MonthStart(y, mo + 1) \in Int
           /\ MonthStart(y, mo) < MonthStart(y + 1, mo)
           /\ MonthStart(y, mo) < MonthStart(y, mo + 1)
<1> DEFINE m == 12 * (y - 2000) + mo
<1>1. /\ m \in Int /\ 2000 + (m \div 12) = y /\ m % 12 = mo
      /\ mo \div 12 = 0 /\ mo % 12 = mo /\ y + 0 = y /\ (y + 1) + 0 = y + 1
  OBVIOUS
<1>2. /\ MonthStart(y, mo) = StartInYear(y, mo)
      /\ MonthStart(y + 1, mo) = StartInYear(y + 1, mo)
  BY <1>1 DEF MonthStart
<1>3. MonthStart(y, mo) = FirstDay(m)
  BY <1>1, <1>2 DEF FirstDay, MonthStart
<1>4. MonthStart(y, mo + 1) = FirstDay(m + 1)
  <2>1. 2000 + ((m + 1) \div 12) = y + ((mo + 1) \div 12)
        /\ (m + 1) % 12 = (mo + 1) % 12
    OBVIOUS
  <2> QED
    BY <2>1 DEF FirstDay, MonthStart
<1> HIDE DEF m
<1>5. /\ FirstDay(m) \in Int /\ FirstDay(m + 1) \in Int
      /\ FirstDay(m) < FirstDay(m + 1)
  <2>1. /\ FirstDay(m) \in Int /\ FirstDay(m + 1) - FirstDay(m) \in 28 .. 31
    BY <1>1, MonthLength
  <2>2. FirstDay(m + 1) \in Int
    BY <1>1, MonthLength
  <2> QED
    BY <2>1, <2>2
<1>6. StartInYear(y + 1, mo) \in Int
  <2> DEFINE z == y + 1
  <2>1. z \in Int
    OBVIOUS
  <2> HIDE DEF z
  <2>2. StartInYear(z, mo) \in Int
    BY <2>1, StartInt
  <2> QED
    BY <2>2 DEF z
<1>7. StartInYear(y, mo) < StartInYear(y + 1, mo)
  BY LaterYear
<1> QED
  BY <1>2, <1>3, <1>4, <1>5, <1>6, <1>7

\* A grain later is later, from any instant.
LEMMA AddAdvances ==
    ASSUME NEW grain \in Grains, NEW t \in Int
    PROVE  AddGrain(t, grain) \in Int /\ t < AddGrain(t, grain)
<1>1. PICK y \in Int, mo \in 0 .. 11, d \in Int, h \in Int, mi \in Int :
        Fields(t) = <<y, mo, d, h, mi>> /\ Utc(<<y, mo, d, h, mi>>) = t
  BY FieldsMean
<1>2. /\ MonthStart(y, mo) \in Int /\ MonthStart(y + 1, mo) \in Int
      /\ MonthStart(y, mo + 1) \in Int
      /\ MonthStart(y, mo) < MonthStart(y + 1, mo)
      /\ MonthStart(y, mo) < MonthStart(y, mo + 1)
  BY MonthStarts
<1>3. CASE grain = "year"
  <2>1. AddGrain(t, grain) = Utc(<<y + 1, mo, d, h, mi>>)
    BY <1>1, <1>3, Precisions DEF AddGrain
  <2> QED
    BY <1>1, <1>2, <2>1 DEF Utc
<1>4. CASE grain = "month"
  <2>1. AddGrain(t, grain) = Utc(<<y, mo + 1, d, h, mi>>)
    BY <1>1, <1>4, Precisions DEF AddGrain
  <2> QED
    BY <1>1, <1>2, <2>1 DEF Utc
<1>5. CASE grain = "day"
  <2>1. AddGrain(t, grain) = Utc(<<y, mo, d + 1, h, mi>>)
    BY <1>1, <1>5, Precisions DEF AddGrain
  <2> QED
    BY <1>1, <1>2, <2>1 DEF Utc
<1>6. CASE grain = "hour"
  BY <1>6 DEF AddGrain
<1>7. CASE grain = "minute"
  BY <1>7 DEF AddGrain
<1> QED
  BY <1>3, <1>4, <1>5, <1>6, <1>7 DEF Grains

\* The windows between two edges.
Tiles(grain, a, b) ==
    [i \in 1 .. b - a |-> WindowAt(Edge(grain, a + i - 1), grain)]

\* A window before those between two edges.
LEMMA TilesGrow ==
    ASSUME NEW grain, NEW a \in Int, NEW b \in Int, a < b
    PROVE  <<WindowAt(Edge(grain, a), grain)>> \o Tiles(grain, a + 1, b)
           = Tiles(grain, a, b)
<1> DEFINE W(k) == WindowAt(Edge(grain, k), grain)
           tail == Tiles(grain, a + 1, b)
<1>1. b - a \in Nat \ {0} /\ b - (a + 1) \in Nat
  OBVIOUS
<1>2. tail = [i \in 1 .. b - (a + 1) |-> W((a + 1) + i - 1)]
  BY DEF Tiles
<1>3. Tiles(grain, a, b) = [i \in 1 .. b - a |-> W(a + i - 1)]
  BY DEF Tiles
<1> HIDE DEF W
<1>4. tail \in Seq({W(k) : k \in Int}) /\ Len(tail) = b - (a + 1)
  BY <1>1, <1>2
<1>5. a + 1 - 1 = a
  OBVIOUS
<1>6. /\ Len(<<W(a)>> \o tail) = b - a
      /\ \A i \in 1 .. b - a : (<<W(a)>> \o tail)[i] = W(a + i - 1)
      /\ <<W(a)>> \o tail \in Seq({W(k) : k \in Int})
  <2>1. <<W(a)>> \in Seq({W(k) : k \in Int}) /\ Len(<<W(a)>>) = 1
    OBVIOUS
  <2>2. /\ <<W(a)>> \o tail \in Seq({W(k) : k \in Int})
        /\ Len(<<W(a)>> \o tail) = b - a
    BY <1>1, <1>4, <2>1, ConcatProperties
  <2>3. ASSUME NEW i \in 1 .. b - a
        PROVE  (<<W(a)>> \o tail)[i] = W(a + i - 1)
    <3>1. CASE i = 1
      BY <1>1, <1>4, <1>5, <3>1, <2>1, ConcatProperties
    <3>2. CASE i # 1
      <4>1. i - 1 \in 1 .. b - (a + 1)
        BY <3>2
      <4>2. tail[i - 1] = W((a + 1) + (i - 1) - 1)
        BY <1>2, <4>1
      <4>3. (<<W(a)>> \o tail)[i] = tail[i - 1]
        BY <1>1, <1>4, <2>1, <3>2, ConcatProperties
      <4>4. (a + 1) + (i - 1) - 1 = a + i - 1
        BY <4>1
      <4> QED
        BY <4>2, <4>3, <4>4
    <3> QED
      BY <3>1, <3>2
  <2> QED
    BY <2>2, <2>3
<1> DEFINE all == <<W(a)>> \o tail
<1>7. all = [i \in 1 .. b - a |-> W(a + i - 1)]
  <2> HIDE DEF all, tail
  <2>1. all \in Seq({W(k) : k \in Int}) /\ Len(all) = b - a
        /\ \A i \in 1 .. b - a : all[i] = W(a + i - 1)
    BY <1>6 DEF all
  <2> QED
    BY <1>1, <2>1
<1> QED
  BY <1>3, <1>7 DEF W

\* A walk over the edges lists the windows between them.
LEMMA WalkTiles ==
    ASSUME NEW grain, NEW b \in Int, NEW f,
           \A k \in Int : k >= b => f[Edge(grain, k)] = <<>>,
           \A k \in Int : k < b =>
              f[Edge(grain, k)]
              = <<WindowAt(Edge(grain, k), grain)>> \o f[Edge(grain, k + 1)]
    PROVE  \A a \in Int : f[Edge(grain, a)] = Tiles(grain, a, b)
<1> SUFFICES ASSUME NEW a0 \in Int, f[Edge(grain, a0)] # Tiles(grain, a0, b)
             PROVE  FALSE
  OBVIOUS
<1>1. ASSUME NEW a \in Int, a >= b
      PROVE  f[Edge(grain, a)] = Tiles(grain, a, b)
  <2>1. 1 .. b - a = {}
    BY <1>1
  <2>2. Tiles(grain, a, b) = <<>>
    BY <2>1 DEF Tiles
  <2> QED
    BY <1>1, <2>2
<1> DEFINE Bad == {n \in Nat : f[Edge(grain, b - n)] # Tiles(grain, b - n, b)}
<1>2. b - a0 \in Bad
  <2>1. b - a0 \in Nat /\ b - (b - a0) = a0
    BY <1>1
  <2> QED
    BY <2>1
<1>3. PICK n \in Bad : \A m \in Bad : n <= m
  <2>1. Bad # {} /\ Bad \in SUBSET Nat
    BY <1>2
  <2> HIDE DEF Bad
  <2> QED
    BY <2>1, LeastNatural
<1> DEFINE a == b - n
<1>4. /\ a \in Int /\ n \in Nat /\ n = b - a
      /\ f[Edge(grain, a)] # Tiles(grain, a, b)
  BY <1>3
<1> HIDE DEF a
<1>5. a < b
  <2> SUFFICES ASSUME a >= b PROVE FALSE
    BY <1>4
  <2>1. f[Edge(grain, a)] = Tiles(grain, a, b)
    BY <1>1, <1>4
  <2> QED
    BY <1>4, <2>1
<1>6. f[Edge(grain, a + 1)] = Tiles(grain, a + 1, b)
  <2>1. n - 1 \in Nat /\ n - 1 < n /\ b - (n - 1) = a + 1
    BY <1>4, <1>5
  <2>2. n - 1 \notin Bad
    <3> HIDE DEF Bad
    <3> QED
      BY <1>3, <1>4, <2>1
  <2> QED
    BY <2>1, <2>2
<1>7. f[Edge(grain, a)]
      = <<WindowAt(Edge(grain, a), grain)>> \o f[Edge(grain, a + 1)]
  BY <1>4, <1>5
<1> QED
  BY <1>4, <1>5, <1>6, <1>7, TilesGrow

\* The loop of a backfill.
LEMMA BackfillWalk ==
    ASSUME NEW grain \in Grains, NEW until \in Int
    PROVE  \E f : /\ \A from : WindowsInRange(from, until, grain) = f[from]
                 /\ \A e \in Int : f[e] =
                       IF e >= until THEN <<>>
                       ELSE <<WindowAt(e, grain)>> \o f[AddGrain(e, grain)]
<1> DEFINE Walk[edge \in Int] ==
              IF edge >= until THEN <<>>
              ELSE <<WindowAt(edge, grain)>> \o Walk[AddGrain(edge, grain)]
           stop == [e \in Int |-> e >= until]
           first == [e \in Int |-> <<WindowAt(e, grain)>>]
           next == [e \in Int |-> AddGrain(e, grain)]
<1>1. \A from : WindowsInRange(from, until, grain) = Walk[from]
  BY DEF WindowsInRange
<1>2. next \in [Int -> Int] /\ Stops(stop, next, until)
  BY AddAdvances DEF Stops
<1>3. \E f : IsWholeWalk(f, stop, first, next)
  <2> HIDE DEF stop, first, next, Walk
  <2> QED
    BY <1>2, WalkDefined
<1>4. \E f : f = [edge \in Int |->
                    IF edge >= until THEN <<>>
                    ELSE <<WindowAt(edge, grain)>> \o f[AddGrain(edge, grain)]]
  BY <1>3 DEF IsWholeWalk, WalkStep
<1>5. Walk = [edge \in Int |->
                IF edge >= until THEN <<>>
                ELSE <<WindowAt(edge, grain)>> \o Walk[AddGrain(edge, grain)]]
  BY <1>4
<1> HIDE DEF Walk
<1>6. \A e \in Int : Walk[e] =
         IF e >= until THEN <<>>
         ELSE <<WindowAt(e, grain)>> \o Walk[AddGrain(e, grain)]
  BY <1>5
<1> QED
  BY <1>1, <1>6

\* What the loop lists, between two edges.
LEMMA BackfillLists ==
    ASSUME NEW grain \in Grains, NEW a \in Int, NEW b \in Int
    PROVE  WindowsInRange(Edge(grain, a), Edge(grain, b), grain)
           = Tiles(grain, a, b)
<1> DEFINE until == Edge(grain, b)
<1>1. until \in Int /\ \A k \in Int : Edge(grain, k) \in Int
  BY EdgesInt
<1>2. PICK f : /\ \A from : WindowsInRange(from, until, grain) = f[from]
               /\ \A e \in Int : f[e] =
                     IF e >= until THEN <<>>
                     ELSE <<WindowAt(e, grain)>> \o f[AddGrain(e, grain)]
  <2> HIDE DEF until
  <2> QED
    BY <1>1, BackfillWalk
<1>3. \A k \in Int : k >= b => f[Edge(grain, k)] = <<>>
  BY <1>1, <1>2, EdgesOrdered
<1>4. \A k \in Int : k < b =>
         f[Edge(grain, k)]
         = <<WindowAt(Edge(grain, k), grain)>> \o f[Edge(grain, k + 1)]
  <2> SUFFICES ASSUME NEW k \in Int, k < b
               PROVE  f[Edge(grain, k)]
                      = <<WindowAt(Edge(grain, k), grain)>>
                        \o f[Edge(grain, k + 1)]
    OBVIOUS
  <2>1. ~(Edge(grain, k) >= until) /\ Edge(grain, k) \in Int
    BY <1>1, EdgesOrdered
  <2>2. AddGrain(Edge(grain, k), grain) = Edge(grain, k + 1)
    BY AddFinds
  <2> QED
    BY <1>2, <2>1, <2>2
<1>5. f[Edge(grain, a)] = Tiles(grain, a, b)
  BY <1>3, <1>4, WalkTiles
<1> QED
  BY <1>2, <1>5

\* Aligned bounds are edges.
LEMMA AlignedEdge ==
    ASSUME NEW grain \in Grains, NEW t \in Int, Aligned(t, grain)
    PROVE  \E k \in Int : t = Edge(grain, k)
BY TruncateFinds DEF Aligned

\* Aligned instants are truncated to themselves.
LEMMA EdgesAligned ==
    ASSUME NEW grain \in Grains, NEW k \in Int
    PROVE  TruncateToGrain(Edge(grain, k), grain) = Edge(grain, k)
<1>1. /\ Edge(grain, k) \in Int /\ Edge(grain, k) <= Edge(grain, k)
      /\ Edge(grain, k) < Edge(grain, k + 1)
  BY EdgesInt
<1> DEFINE t == Edge(grain, k)
<1>2. t \in Int /\ Edge(grain, k) <= t /\ t < Edge(grain, k + 1)
  BY <1>1
<1> HIDE DEF t
<1>3. TruncateToGrain(t, grain) = Edge(grain, k)
  BY <1>2, EdgesFound
<1> QED
  BY <1>3 DEF t

\* The window between two edges that follow each other.
LEMMA WindowOfEdges ==
    ASSUME NEW grain \in Grains, NEW k \in Int
    PROVE  WindowAt(Edge(grain, k), grain)
           = [from |-> Edge(grain, k), until |-> Edge(grain, k + 1)]
BY AddFinds DEF WindowAt

\* The windows between two edges are as many as there are edges, and meet.
LEMMA TilesMeet ==
    ASSUME NEW grain \in Grains, NEW a \in Int, NEW b \in Int, a <= b
    PROVE  /\ Len(Tiles(grain, a, b)) = b - a
           /\ DOMAIN Tiles(grain, a, b) = 1 .. b - a
           /\ \A i \in 1 .. b - a :
                 /\ Tiles(grain, a, b)[i]
                    = WindowAt(Edge(grain, a + i - 1), grain)
                 /\ Tiles(grain, a, b)[i].from = Edge(grain, a + i - 1)
                 /\ Tiles(grain, a, b)[i].until = Edge(grain, a + i)
<1> DEFINE W(k) == WindowAt(Edge(grain, k), grain)
           tiles == Tiles(grain, a, b)
<1>1. tiles = [i \in 1 .. b - a |-> W(a + i - 1)] /\ b - a \in Nat
  BY DEF Tiles
<1>2. ASSUME NEW i \in 1 .. b - a
      PROVE  /\ tiles[i] = W(a + i - 1)
             /\ tiles[i].from = Edge(grain, a + i - 1)
             /\ tiles[i].until = Edge(grain, a + i)
  <2> DEFINE k == a + i - 1
  <2>1. k \in Int /\ k + 1 = a + i /\ tiles[i] = W(k)
    BY <1>1
  <2>2. W(k) = [from |-> Edge(grain, k), until |-> Edge(grain, k + 1)]
    <3>1. k \in Int
      BY <2>1
    <3> HIDE DEF k
    <3> QED
      BY <3>1, WindowOfEdges
  <2> HIDE DEF tiles, W
  <2> QED
    BY <2>1, <2>2
<1> HIDE DEF tiles, W
<1>3. Len(tiles) = b - a /\ DOMAIN tiles = 1 .. b - a
  BY <1>1
<1> QED
  BY <1>2, <1>3 DEF tiles, W

\* What the windows between two edges begin with.
LEMMA TilesBegin ==
    ASSUME NEW grain \in Grains, NEW a \in Int, NEW b \in Int, NEW c \in Int,
           a <= c, c <= b
    PROVE  Tiles(grain, a, c) = SubSeq(Tiles(grain, a, b), 1, c - a)
<1> DEFINE W(k) == WindowAt(Edge(grain, k), grain)
           tiles == Tiles(grain, a, b)
<1>1. tiles = [i \in 1 .. b - a |-> W(a + i - 1)] /\ b - a \in Nat
      /\ c - a \in Nat /\ c - a <= b - a
  BY DEF Tiles
<1>2. Tiles(grain, a, c) = [i \in 1 .. c - a |-> W(a + i - 1)]
  BY DEF Tiles
<1> HIDE DEF tiles
<1>3. SubSeq(tiles, 1, c - a) = [i \in 1 .. c - a |-> tiles[i]]
  <2>1. tiles \in Seq({W(k) : k \in Int}) /\ Len(tiles) = b - a
    BY <1>1
  <2> HIDE DEF W
  <2> QED
    BY <1>1, <2>1
<1>4. \A i \in 1 .. c - a : tiles[i] = W(a + i - 1)
  BY <1>1
<1> QED
  BY <1>2, <1>3, <1>4 DEF tiles

\* One window more between two edges.
LEMMA TilesExtend ==
    ASSUME NEW grain \in Grains, NEW a \in Int, NEW c \in Int, a <= c
    PROVE  Tiles(grain, a, c) \o <<WindowAt(Edge(grain, c), grain)>>
           = Tiles(grain, a, c + 1)
<1> DEFINE W(k) == WindowAt(Edge(grain, k), grain)
           tiles == Tiles(grain, a, c)
           S == {W(k) : k \in Int}
           more == tiles \o <<W(c)>>
           longer == Tiles(grain, a, c + 1)
<1>1. tiles = [i \in 1 .. c - a |-> W(a + i - 1)] /\ c - a \in Nat
  BY DEF Tiles
<1>2. longer = [i \in 1 .. (c - a) + 1 |-> W(a + i - 1)]
  <2>1. (c + 1) - a = (c - a) + 1
    OBVIOUS
  <2> QED
    BY <2>1 DEF Tiles
<1> HIDE DEF tiles, longer
<1>3. tiles \in Seq(S) /\ Len(tiles) = c - a
  BY <1>1
<1>8. W(c) \in S
  OBVIOUS
<1> HIDE DEF S, W
<1>9. <<W(c)>> \in Seq(S) /\ Len(<<W(c)>>) = 1
  BY <1>8
<1>4. /\ more \in Seq(S) /\ Len(more) = (c - a) + 1
      /\ \A i \in 1 .. (c - a) + 1 :
            more[i] = IF i <= c - a THEN tiles[i] ELSE W(c)
  <2>1. /\ more \in Seq(S) /\ Len(more) = Len(tiles) + Len(<<W(c)>>)
        /\ \A i \in 1 .. Len(tiles) + Len(<<W(c)>>) :
              more[i] = IF i <= Len(tiles) THEN tiles[i]
                        ELSE <<W(c)>>[i - Len(tiles)]
    BY <1>3, <1>9, ConcatProperties
  <2> HIDE DEF W, more
  <2> QED
    BY <1>1, <1>3, <1>9, <2>1
<1>5. \A i \in 1 .. (c - a) + 1 : more[i] = W(a + i - 1)
  <2> SUFFICES ASSUME NEW i \in 1 .. (c - a) + 1
               PROVE  more[i] = W(a + i - 1)
    OBVIOUS
  <2>1. CASE i <= c - a
    <3>1. tiles[i] = W(a + i - 1)
      BY <1>1, <2>1
    <3> QED
      BY <1>4, <2>1, <3>1
  <2>2. CASE ~(i <= c - a)
    <3>1. a + i - 1 = c
      BY <1>1, <2>2
    <3> QED
      BY <1>4, <2>2, <3>1
  <2> QED
    BY <2>1, <2>2
<1>6. more = [i \in 1 .. (c - a) + 1 |-> more[i]]
  BY <1>1, <1>4
<1> HIDE DEF more, W
<1>7. more = longer
  BY <1>2, <1>5, <1>6
<1> QED
  BY <1>7 DEF more, longer, tiles, W

\* The next run, from a marker in a bucket.
LEMMA NextOfEdges ==
    ASSUME NEW grain \in Grains, NEW c \in Int, NEW t, NEW now \in Int,
           TruncateToGrain(t, grain) = Edge(grain, c)
    PROVE  NextWindow(t, grain, now)
           = IF Edge(grain, c + 1) > now THEN <<>>
             ELSE <<WindowAt(Edge(grain, c), grain)>>
<1>1. WindowAt(Edge(grain, c), grain).until = Edge(grain, c + 1)
  BY WindowOfEdges
<1> QED
  BY <1>1 DEF NextWindow

-----------------------------------------------------------------------------
(* The range of a backfill, and the runs that fold it                      *)

\* The range and the watermark lie on edges, and what is between is folded.
OnEdges(a, b, c) ==
    /\ a < b /\ a <= c /\ c <= b
    /\ range.from = Edge(range.grain, a) /\ range.until = Edge(range.grain, b)
    /\ TruncateToGrain(watermark, range.grain) = Edge(range.grain, c)
    /\ folded = Tiles(range.grain, a, c)

\* What every step of a run keeps.
CalendarIInv ==
    /\ range.grain \in Grains
    /\ \E a \in Int, b \in Int, c \in Int : OnEdges(a, b, c)

\* The first run starts at the first edge.
LEMMA CalendarStart ==
    ASSUME CalendarInit PROVE CalendarIInv
<1>1. /\ range.grain \in Grains /\ range.from \in Int /\ range.until \in Int
      /\ range.from < range.until
      /\ Aligned(range.from, range.grain) /\ Aligned(range.until, range.grain)
      /\ TruncateToGrain(watermark, range.grain) = range.from
      /\ folded = <<>>
  BY BackfillsAssumption DEF CalendarInit, FirstMarkers
<1>2. PICK a \in Int, b \in Int :
         range.from = Edge(range.grain, a)
         /\ range.until = Edge(range.grain, b)
  BY <1>1, AlignedEdge
<1>3. a < b
  BY <1>1, <1>2, EdgesOrdered
<1>4. Tiles(range.grain, a, a) = <<>>
  <2>1. 1 .. a - a = {}
    OBVIOUS
  <2> QED
    BY <2>1 DEF Tiles
<1>5. OnEdges(a, b, a)
  BY <1>1, <1>2, <1>3, <1>4 DEF OnEdges
<1> QED
  BY <1>1, <1>5 DEF CalendarIInv

\* A run goes from one edge to the next.
LEMMA RunKeepsEdges ==
    ASSUME CalendarIInv, NEW lag \in Lags, Run(range.until - lag)
    PROVE  CalendarIInv'
<1> DEFINE grain == range.grain
           now == range.until - lag
<1>1. grain \in Grains /\ UNCHANGED range
  BY DEF CalendarIInv, Run
<1>2. PICK a \in Int, b \in Int, c \in Int : OnEdges(a, b, c)
  BY DEF CalendarIInv
<1>3. /\ a < b /\ a <= c /\ c <= b
      /\ range.from = Edge(grain, a) /\ range.until = Edge(grain, b)
      /\ TruncateToGrain(watermark, grain) = Edge(grain, c)
      /\ folded = Tiles(grain, a, c)
  BY <1>2 DEF OnEdges
<1>4. lag \in Nat /\ Edge(grain, b) \in Int /\ now \in Int
      /\ now <= Edge(grain, b)
  <2>1. lag \in Nat
    BY BackfillsAssumption
  <2>2. Edge(grain, b) \in Int
    BY <1>1, EdgesInt
  <2> QED
    BY <1>3, <2>1, <2>2
<1>5. /\ NextWindow(watermark, grain, now) # <<>>
      /\ folded' = folded \o NextWindow(watermark, grain, now)
      /\ watermark' = NextWindow(watermark, grain, now)[1].until
  BY DEF Run
<1> HIDE DEF grain, now
<1> DEFINE window == WindowAt(Edge(grain, c), grain)
           d == c + 1
<1>6. NextWindow(watermark, grain, now)
      = IF Edge(grain, d) > now THEN <<>> ELSE <<window>>
  BY <1>1, <1>3, <1>4, NextOfEdges
<1>7. d \in Int /\ window.until = Edge(grain, d)
  BY <1>1, WindowOfEdges
<1>8. folded \o <<window>> = Tiles(grain, a, d)
  BY <1>1, <1>3, TilesExtend
<1>9. c < d /\ a <= d
  BY <1>3
<1> HIDE DEF window, d
<1>10. /\ ~(Edge(grain, d) > now) /\ watermark' = Edge(grain, d)
       /\ folded' = Tiles(grain, a, d)
  BY <1>5, <1>6, <1>7, <1>8
<1>11. d <= b
  <2>1. Edge(grain, d) \in Int
    BY <1>1, <1>7, EdgesInt
  <2>2. Edge(grain, d) <= Edge(grain, b)
    BY <1>4, <1>10, <2>1
  <2> QED
    BY <1>1, <1>7, <2>2, EdgesOrdered
<1>12. TruncateToGrain(watermark', grain) = Edge(grain, d)
  BY <1>1, <1>7, <1>10, EdgesAligned
<1>13. OnEdges(a, b, d)'
  BY <1>1, <1>3, <1>9, <1>10, <1>11, <1>12 DEF OnEdges, grain
<1> QED
  BY <1>1, <1>7, <1>13 DEF CalendarIInv, grain

\* Where the watermark is at an edge, a range is partitioned and its runs fold
\* the next of its windows.
LEMMA EdgesTile ==
    ASSUME CalendarIInv PROVE WindowsTile
<1> DEFINE grain == range.grain
           windows == WindowsInRange(range.from, range.until, grain)
           n == Len(folded)
<1>1. grain \in Grains
  BY DEF CalendarIInv
<1>2. PICK a \in Int, b \in Int, c \in Int : OnEdges(a, b, c)
  BY DEF CalendarIInv
<1>3. /\ a < b /\ a <= c /\ c <= b
      /\ range.from = Edge(grain, a) /\ range.until = Edge(grain, b)
      /\ TruncateToGrain(watermark, grain) = Edge(grain, c)
      /\ folded = Tiles(grain, a, c)
  BY <1>2 DEF OnEdges
<1>4. windows = Tiles(grain, a, b)
  BY <1>1, <1>3, BackfillLists
<1>12. n = Len(folded) /\ a <= b
  BY <1>3
<1> HIDE DEF windows, n, grain
<1>5. /\ Len(windows) = b - a /\ DOMAIN windows = 1 .. b - a
      /\ \A i \in 1 .. b - a :
            /\ windows[i] = WindowAt(Edge(grain, a + i - 1), grain)
            /\ windows[i].from = Edge(grain, a + i - 1)
            /\ windows[i].until = Edge(grain, a + i)
  BY <1>1, <1>4, <1>12, TilesMeet
<1>6. n = c - a
  BY <1>1, <1>3, <1>12, TilesMeet
<1>7. folded = SubSeq(windows, 1, n)
  BY <1>1, <1>3, <1>4, <1>6, TilesBegin
<1>8. /\ windows[1].from = range.from
      /\ windows[Len(windows)].until = range.until
      /\ \A i \in 1 .. Len(windows) - 1 :
            windows[i].until = windows[i + 1].from
  <2>1. /\ 1 \in 1 .. b - a /\ b - a \in 1 .. b - a /\ a + 1 - 1 = a
        /\ a + (b - a) = b
    BY <1>3
  <2>2. \A i \in 1 .. (b - a) - 1 : windows[i].until = windows[i + 1].from
    <3> SUFFICES ASSUME NEW i \in 1 .. (b - a) - 1
                 PROVE  windows[i].until = windows[i + 1].from
      OBVIOUS
    <3>1. i \in 1 .. b - a /\ i + 1 \in 1 .. b - a /\ a + (i + 1) - 1 = a + i
      OBVIOUS
    <3> QED
      BY <1>5, <3>1
  <2> QED
    BY <1>3, <1>5, <2>1, <2>2
<1>9. ASSUME NEW t \in Instants(range)
      PROVE  \E i \in DOMAIN windows :
                /\ windows[i].from <= t /\ t < windows[i].until
                /\ TruncateToGrain(t, grain) = windows[i].from
  <2>1. t \in Int /\ range.from <= t /\ t < range.until
    <3>1. ASSUME NEW e \in Edges(range) PROVE e \in Int
      <4>1. PICK i \in 1 .. b - a : e = windows[i].from
        BY <1>5 DEF Edges, windows, grain
      <4> DEFINE k == a + i - 1
      <4>2. k \in Int /\ e = Edge(grain, k)
        BY <1>5, <4>1
      <4> HIDE DEF k
      <4> QED
        BY <1>1, <4>2, EdgesInt
    <3> QED
      BY <3>1 DEF Instants
  <2>2. PICK k \in Int : /\ TruncateToGrain(t, grain) = Edge(grain, k)
                         /\ Edge(grain, k) <= t /\ t < Edge(grain, k + 1)
    BY <1>1, <2>1, TruncateFinds
  <2>3. a < k + 1 /\ k < b
    <3> DEFINE j == k + 1
    <3>1. j \in Int /\ t < Edge(grain, j)
      BY <2>2
    <3> HIDE DEF j
    <3>2. /\ Edge(grain, a) \in Int /\ Edge(grain, b) \in Int
          /\ Edge(grain, k) \in Int /\ Edge(grain, j) \in Int
      BY <1>1, <3>1, EdgesInt
    <3>3. Edge(grain, a) < Edge(grain, j) /\ Edge(grain, k) < Edge(grain, b)
      BY <1>3, <2>1, <2>2, <3>1, <3>2
    <3>4. a < j /\ k < b
      BY <1>1, <3>1, <3>3, EdgesOrdered
    <3> QED
      BY <3>4 DEF j
  <2> DEFINE i == k - a + 1
  <2>4. i \in 1 .. b - a /\ a + i - 1 = k /\ a + i = k + 1
    BY <2>3
  <2> HIDE DEF i
  <2>5. windows[i].from = Edge(grain, k)
        /\ windows[i].until = Edge(grain, k + 1)
    BY <1>5, <2>4
  <2> QED
    BY <1>5, <2>2, <2>4, <2>5
<1>10. ASSUME NEW lag \in Lags
       PROVE  NextWindow(watermark, grain, range.until - lag)
              = IF /\ n < Len(windows)
                   /\ windows[n + 1].until <= range.until - lag
                THEN <<windows[n + 1]>> ELSE <<>>
  <2> DEFINE d == c + 1
             now == range.until - lag
  <2>1. lag \in Nat /\ Edge(grain, b) \in Int /\ now \in Int
        /\ now <= Edge(grain, b)
    <3>1. lag \in Nat /\ Edge(grain, b) \in Int
      BY <1>1, BackfillsAssumption, EdgesInt
    <3> QED
      BY <1>3, <3>1
  <2> HIDE DEF now
  <2>2. NextWindow(watermark, grain, now)
        = IF Edge(grain, d) > now THEN <<>>
          ELSE <<WindowAt(Edge(grain, c), grain)>>
    BY <1>1, <1>3, <2>1, NextOfEdges
  <2>3. d \in Int /\ c < d /\ (c < b <=> d <= b)
    OBVIOUS
  <2>4. Edge(grain, d) \in Int /\ (d <= b <=> Edge(grain, d) <= Edge(grain, b))
    <3> HIDE DEF d
    <3> QED
      BY <1>1, <2>3, EdgesInt, EdgesOrdered
  <2>5. CASE c < b
    <3>1. n < Len(windows) /\ n + 1 \in 1 .. b - a /\ a + (n + 1) - 1 = c
          /\ a + (n + 1) = d
      BY <1>3, <1>5, <1>6, <2>5
    <3>2. windows[n + 1] = WindowAt(Edge(grain, c), grain)
          /\ windows[n + 1].until = Edge(grain, d)
      <4> HIDE DEF d
      <4> QED
        BY <1>5, <3>1
    <3> HIDE DEF d
    <3> QED
      BY <2>1, <2>2, <2>4, <3>1, <3>2 DEF now
  <2>6. CASE ~(c < b)
    <3>1. ~(n < Len(windows))
      BY <1>3, <1>5, <1>6, <2>6
    <3>2. Edge(grain, d) > now
      <4> HIDE DEF d
      <4> QED
        BY <2>1, <2>3, <2>4, <2>6
    <3> HIDE DEF d
    <3> QED
      BY <2>2, <3>1, <3>2 DEF now
  <2> QED
    BY <2>5, <2>6
<1>11. n <= Len(windows)
  BY <1>3, <1>5, <1>6
<1> QED
  BY <1>7, <1>8, <1>9, <1>10, <1>11 DEF WindowsTile, windows, n, grain

\* "The windows partition the range exactly", whatever the range and the grain,
\* and runs fold them in turn, each when it has closed.
THEOREM RangeIsTiled == CalendarSpec => []WindowsTile
<1>1. CalendarInit => CalendarIInv
  BY CalendarStart
<1>2. CalendarIInv /\ [CalendarNext]_calendarVars => CalendarIInv'
  <2>1. CASE UNCHANGED calendarVars
    BY <2>1 DEF calendarVars, CalendarIInv, OnEdges
  <2> QED
    BY <2>1, RunKeepsEdges DEF CalendarNext
<1>3. CalendarIInv => WindowsTile
  BY EdgesTile
<1> QED
  BY <1>1, <1>2, <1>3, PTL DEF CalendarSpec
=============================================================================
