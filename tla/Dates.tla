-------------------------------- MODULE Dates --------------------------------
(***************************************************************************)
(* Date arithmetic in queries: dateAdd, dateSub, dateBin and dateDiff of   *)
(* packages/core/src/operators.ts, as each dialect renders them and its    *)
(* engine evaluates them.  Instants are those of Calendar, in sessions     *)
(* that are in UTC; a minute is the smallest unit.                         *)
(***************************************************************************)
EXTENDS Calendar

Dialects == {"postgres", "mysql", "sqlite"}

DurationUnits == <<"years", "months", "days", "hours", "minutes">>

\* The parts of a duration that are not zero, in the order of the units.
DurationParts(duration) ==
    SelectSeq([i \in 1 .. 5 |-> <<DurationUnits[i], duration[i]>>],
              LAMBDA part : part[2] # 0)

\* Broken variant: the sign goes to the first part only.
SignedFirst(parts, sign) == [parts EXCEPT ![1][2] = sign * @]

Signed(parts, sign) ==
    [i \in DOMAIN parts |-> <<parts[i][1], sign * parts[i][2]>>]

\* One interval for PostgreSQL, added or subtracted; a list of modifiers for
\* SQLite; for MySQL a date_add of each part around the last.
DateShift(duration, sign, dialect) ==
    LET parts == DurationParts(duration)
    IN  IF dialect = "postgres" THEN [sign |-> sign, interval |-> parts]
        ELSE [steps |-> Signed(parts, sign)]

BinUnitMinutes == [days |-> 1440, hours |-> 60, minutes |-> 1]

\* Broken variant: only the largest unit counts.
FirstUnit(every) ==
    LET part == DurationParts(every)[1] IN part[2] * BinUnitMinutes[part[1]]

MinutesOf(every) == every[3] * 1440 + every[4] * 60 + every[5]

Binnable(every) ==
    /\ \A i \in DOMAIN DurationParts(every) :
          DurationParts(every)[i][1] \in DOMAIN BinUnitMinutes
    /\ MinutesOf(every) > 0

DateDiffMinutes == [minutes |-> 1, hours |-> 60, days |-> 1440]

-----------------------------------------------------------------------------
(* How the engines count *)

TimeOf(t) == t % 1440

\* MySQL and PostgreSQL keep to the month's last day.
AddMonths(t, n) ==
    LET f == Fields(t)
        start == MonthStart(f[1], f[2] + n)
        days == MonthStart(f[1], f[2] + n + 1) - start
    IN  (start + (IF f[3] < days THEN f[3] ELSE days) - 1) * 1440 + TimeOf(t)

\* SQLite runs over into the next month.
OverMonths(t, n) == Utc([Fields(t) EXCEPT ![2] = @ + n])

Months(t, n, dialect) == IF dialect = "sqlite" THEN OverMonths(t, n) ELSE AddMonths(t, n)

Add(t, part, dialect) ==
    LET n == part[2]
    IN  CASE part[1] = "years" -> Months(t, 12 * n, dialect)
          [] part[1] = "months" -> Months(t, n, dialect)
          [] OTHER -> t + n * BinUnitMinutes[part[1]]

\* An interval has months, days and a time, whatever it was written in.
SumOf(parts, units) ==
    LET Sum[i \in 0 .. Len(parts)] ==
            IF i = 0 THEN 0
            ELSE Sum[i - 1] + (IF parts[i][1] \in DOMAIN units
                               THEN units[parts[i][1]] * parts[i][2] ELSE 0)
    IN  Sum[Len(parts)]

AddInterval(t, parts, sign) ==
    AddMonths(t, sign * SumOf(parts, [years |-> 12, months |-> 1]))
    + sign * SumOf(parts, BinUnitMinutes)

AddSteps(t, steps, dialect) ==
    LET After[i \in 0 .. Len(steps)] ==
            IF i = 0 THEN t ELSE Add(After[i - 1], steps[i], dialect)
    IN  After[Len(steps)]

Shifted(t, duration, sign, dialect) ==
    LET shift == DateShift(duration, sign, dialect)
    IN  IF dialect = "postgres" THEN AddInterval(t, shift.interval, shift.sign)
        ELSE AddSteps(t, shift.steps, dialect)

Epoch == Utc(<<1970, 0, 1, 0, 0>>)

\* Towards zero, as SQLite divides integers and all cast and trunc.
Toward0(a, n) == IF a >= 0 THEN a \div n ELSE -((-a) \div n)

\* The bin of an instant, as a number of minutes since the epoch.
DateBin(every, t, dialect) ==
    LET n == MinutesOf(every)
        since == t - Epoch
    IN  n * (IF dialect = "sqlite" THEN Toward0(since, n) ELSE since \div n)

\* julianday() is a binary fraction of days since a noon, and has 31 bits after
\* the point in this millennium: how far it is from the instant, in the 86400th
\* part of the last bit.
RoundingOf(t) ==
    LET seconds == 60 * ((t + 720) % 1440)
        rest == (11648 * seconds) % 86400  \* 11648 is 2^31 modulo 86400
    IN  IF rest < 43200 THEN -rest ELSE 86400 - rest

\* A difference of whole units, a little less for the rounding, is a unit less.
DateDiff(field, from, to, dialect) ==
    LET n == DateDiffMinutes[field]
        whole == Toward0(to - from, n)
        drift == RoundingOf(to) - RoundingOf(from)
    IN  IF dialect # "sqlite" \/ (to - from) % n # 0 THEN whole
        ELSE CASE to > from /\ drift < 0 -> whole - 1
               [] to < from /\ drift > 0 -> whole + 1
               [] OTHER -> whole

-----------------------------------------------------------------------------
(* Bounds *)

DateInstants ==
    {Utc(<<2024, 0, 31, 10, 0>>), Utc(<<2024, 1, 29, 0, 0>>), Utc(<<2023, 11, 31, 23, 59>>)}
    \cup {Utc(<<y, mo, d, h, 30>>) : y \in {2023, 2024}, mo \in {1, 11}, d \in {1, 28}, h \in {0, 11}}

Durations ==
    {<<1, 0, 0, 0, 0>>, <<0, 1, 0, 0, 0>>, <<0, 0, 30, 0, 0>>, <<0, 0, 0, 36, -90>>,
     <<1, -13, 0, 0, 0>>, <<0, 2, -1, 1, 0>>, <<0, 0, 0, 1, -15>>, <<0, 0, 0, 0, 7>>}

DateSamples ==
    [at : DateInstants, duration : Durations, sign : {1, -1}]
    \cup [from : DateInstants, hours : -3 .. 3, minutes : {-1, 0, 1},
          field : DOMAIN DateDiffMinutes]

Until(s) == s.from + 60 * s.hours + s.minutes

\* On every dialect, what a duration leads to is found by counting its years and
\* months in the calendar and its days and time on the clock, if that is a day
\* every month has; and it leads back.  A bin is as long as was asked for, starts
\* at a multiple of it and has the instant in it.  A difference in time is off by
\* one unit at most, nearer to zero, and only where it is of whole units.
DatesMean(s) ==
    \A dialect \in Dialects :
        IF "field" \in DOMAIN s
        THEN LET given == DateDiff(s.field, s.from, Until(s), dialect)
                 apart == Until(s) - s.from
             IN  \/ given = Toward0(apart, DateDiffMinutes[s.field])
                 \/ /\ apart % DateDiffMinutes[s.field] = 0
                    /\ apart > 0 => given * DateDiffMinutes[s.field] < apart
                    /\ apart < 0 => given * DateDiffMinutes[s.field] > apart
        ELSE LET f == Fields(s.at)
                 d == s.duration
                 found == Shifted(s.at, d, s.sign, dialect)
                 asked == d[3] * 1440 + d[4] * 60 + d[5]
                 bin == DateBin(d, s.at, dialect)
             IN  /\ f[3] <= 28 \/ (d[1] = 0 /\ d[2] = 0) =>
                       found = Utc([f EXCEPT ![1] = @ + s.sign * d[1],
                                             ![2] = @ + s.sign * d[2]])
                               + s.sign * asked
                 /\ d[1] = 0 /\ d[2] = 0 => Shifted(found, d, -s.sign, dialect) = s.at
                 /\ Binnable(d) => /\ bin % asked = 0
                                   /\ bin <= s.at - Epoch
                                   /\ s.at - Epoch < bin + asked

\* "Whole units elapsed from `from` to `to`, truncated toward zero", on every
\* dialect.
DiffWhole(s) ==
    "field" \in DOMAIN s =>
        \A dialect \in Dialects :
            DateDiff(s.field, s.from, Until(s), dialect)
            = Toward0(Until(s) - s.from, DateDiffMinutes[s.field])
=============================================================================
