------------------------------ MODULE Calendar ------------------------------
(***************************************************************************)
(* The windows of packages/etl/src/window.ts on the calendar: buckets of   *)
(* a minute up to a year, that follow each other in UTC.  EtlWindow has    *)
(* the same functions on a line of equal buckets.  Here a range of them is *)
(* backfilled, and runs fold it one after the other.                       *)
(*                                                                         *)
(* An instant is a number of minutes since 2000-01-01T00:00Z, of markers   *)
(* that were parsed.  The grain "second" is to the minute what the minute  *)
(* is to the hour and is left out.                                         *)
(***************************************************************************)
EXTENDS Integers, Sequences

CONSTANTS
    Backfills,  \* the ranges that may be asked for, each with a job's grain
    Lags        \* how far from an edge a marker or a clock may be, in minutes

VARIABLES
    range,      \* the range, from until, and the grain
    watermark,  \* the marker that the next run starts from
    folded      \* the windows that runs have folded, in turn

calendarVars == <<range, watermark, folded>>

-----------------------------------------------------------------------------
(* Date of the language: the fields of an instant in UTC, and the instant   *)
(* of fields, where a month may run over the end of its year.  Years before *)
(* 100, which Date.UTC takes for those of the last century, are left out.   *)

LeapsThrough(y) == (y \div 4) - (y \div 100) + (y \div 400)
YearStart(y) == 365 * (y - 2000) + LeapsThrough(y - 1) - LeapsThrough(1999)
LeapDays(y) == LeapsThrough(y) - LeapsThrough(y - 1)

DaysBefore == <<0, 31, 59, 90, 120, 151, 181, 212, 243, 273, 304, 334>>

StartInYear(y, mo) ==
    YearStart(y) + DaysBefore[mo + 1] + (IF mo > 1 THEN LeapDays(y) ELSE 0)

\* The first day of a month; months are counted from 0.
MonthStart(y, mo) == StartInYear(y + (mo \div 12), mo % 12)

\* Of the fields year, month, day, hour and minute.
Utc(f) == ((MonthStart(f[1], f[2]) + f[3] - 1) * 24 + f[4]) * 60 + f[5]

FieldsIn(t, month) ==
    <<2000 + (month \div 12), month % 12,
      (t \div 1440) - MonthStart(2000, month) + 1, (t \div 60) % 24, t % 60>>

\* 4800 months of the calendar have 146097 days; a month is found around there.
Around(day) == ((day * 4800) \div 146097) - 1 .. ((day * 4800) \div 146097) + 1

HasDay(month, day) ==
    MonthStart(2000, month) <= day /\ day < MonthStart(2000, month + 1)

Fields(t) ==
    FieldsIn(t, CHOOSE month \in Around(t \div 1440) : HasDay(month, t \div 1440))

-----------------------------------------------------------------------------
Grains == {"year", "month", "day", "hour", "minute"}

\* The field a grain counts.
Precision(grain) ==
    CASE grain = "year" -> 1 [] grain = "month" -> 2 [] grain = "day" -> 3
      [] grain = "hour" -> 4 [] grain = "minute" -> 5

Keep(f, precision) ==
    [i \in 1 .. 5 |-> IF i <= precision THEN f[i] ELSE <<0, 0, 1, 0, 0>>[i]]

\* The edge of the bucket an instant lies in: every finer field is zeroed.
TruncateToGrain(instant, grain) == Utc(Keep(Fields(instant), Precision(grain)))

\* Broken variant: a year and a month have a number of days.
AddDays(instant, grain) ==
    instant + (CASE grain = "year" -> 365 [] grain = "month" -> 30
                 [] grain = "day" -> 1 [] OTHER -> 0) * 1440
            + (CASE grain = "hour" -> 60 [] grain = "minute" -> 1 [] OTHER -> 0)

\* One grain later: by the calendar for years, months and days.
AddGrain(instant, grain) ==
    CASE grain = "hour" -> instant + 60
      [] grain = "minute" -> instant + 1
      [] OTHER -> Utc([Fields(instant) EXCEPT ![Precision(grain)] = @ + 1])

\* parseAligned: other bounds are refused.
Aligned(instant, grain) == TruncateToGrain(instant, grain) = instant

WindowAt(from, grain) == [from |-> from, until |-> AddGrain(from, grain)]

\* The windows of a backfill, in turn, from aligned bounds.
WindowsInRange(from, until, grain) ==
    LET Walk[edge \in Int] ==
            IF edge >= until THEN <<>>
            ELSE <<WindowAt(edge, grain)>> \o Walk[AddGrain(edge, grain)]
    IN  Walk[from]

\* The window a run folds, if it has closed, from the watermark or the start.
NextWindow(marker, grain, now) ==
    LET window == WindowAt(TruncateToGrain(marker, grain), grain)
    IN  IF window.until > now THEN <<>> ELSE <<window>>

-----------------------------------------------------------------------------
(* Runs                                                                     *)

\* windowsInRange refuses other ranges.
ASSUME BackfillsAssumption ==
    /\ Lags \subseteq Nat
    /\ \A s \in Backfills :
          /\ s.grain \in Grains /\ s.from \in Int /\ s.until \in Int
          /\ s.from < s.until
          /\ Aligned(s.from, s.grain) /\ Aligned(s.until, s.grain)

Backfill(grain, from, until) == [grain |-> grain, from |-> from, until |-> until]

\* The first run starts from a marker in the first bucket.
FirstMarkers(s) ==
    {t \in {s.from + lag : lag \in Lags}
          \cup {AddGrain(s.from, s.grain) - lag : lag \in Lags} :
        TruncateToGrain(t, s.grain) = s.from}

CalendarInit ==
    /\ range \in Backfills
    /\ watermark \in FirstMarkers(range)
    /\ folded = <<>>

\* No range at all.
NoCalendar ==
    range = Backfill("minute", 0, 0) /\ watermark = 0 /\ folded = <<>>

\* A run folds the next window, if it has closed, and commits its end.
Run(now) ==
    LET next == NextWindow(watermark, range.grain, now)
    IN  /\ next # <<>>
        /\ folded' = folded \o next
        /\ watermark' = next[1].until
        /\ UNCHANGED range

CalendarNext == \E lag \in Lags : Run(range.until - lag)

CalendarSpec == CalendarInit /\ [][CalendarNext]_calendarVars

-----------------------------------------------------------------------------
(* Bounds *)

Month(y, mo) == Utc(<<y, mo, 1, 0, 0>>)

\* Ranges over leap days, years that are none, and the ends of years.
WindowSamples ==
    {Backfill("year", Month(y, 0), Month(y + 5, 0)) : y \in {1898, 1998, 2023, 2098}}
    \cup {Backfill("month", Month(y, 10), Month(y + 1, 4)) : y \in {1899, 1999, 2023, 2099}}
    \cup {Backfill("day", Utc(<<y, 1, 26, 0, 0>>), Utc(<<y, 2, 3, 0, 0>>)) : y \in {1900, 2000, 2024, 2025}}
    \cup {Backfill("day", Utc(<<2024, 11, 30, 0, 0>>), Utc(<<2025, 0, 2, 0, 0>>))}
    \cup {Backfill("hour", Utc(<<2024, 1, d, 20, 0>>), Utc(<<2024, 2, 1, 3, 0>>)) : d \in {28, 29}}
    \cup {Backfill("minute", Utc(<<2024, 11, 31, 23, 58>>), Utc(<<2025, 0, 1, 0, 3>>))}

Edges(s) == LET windows == WindowsInRange(s.from, s.until, s.grain)
            IN  {windows[i].from : i \in DOMAIN windows}

\* Instants around the edges of a range, and late in its months and years.
Instants(s) ==
    {t \in {e + later : e \in Edges(s),
                        later \in {-1, 0, 1, 360, 28 * 1440, 364 * 1440}} :
        s.from <= t /\ t < s.until}

\* "The windows partition the range exactly": a backfill's begin with it, end
\* with it and meet; each is the bucket, as the database truncates, of every
\* instant in it.  Runs, from any instant of the first bucket, fold these very
\* windows in turn, each as soon as it has closed.
WindowsTile ==
    range.from < range.until =>
        LET windows == WindowsInRange(range.from, range.until, range.grain)
            n == Len(folded)
            Closed(now) == n < Len(windows) /\ windows[n + 1].until <= now
        IN  /\ windows[1].from = range.from
            /\ windows[Len(windows)].until = range.until
            /\ \A i \in 1 .. Len(windows) - 1 :
                  windows[i].until = windows[i + 1].from
            /\ \A t \in Instants(range) : \E i \in DOMAIN windows :
                  /\ windows[i].from <= t /\ t < windows[i].until
                  /\ TruncateToGrain(t, range.grain) = windows[i].from
            /\ n <= Len(windows) /\ folded = SubSeq(windows, 1, n)
            /\ \A now \in {range.until - lag : lag \in Lags} :
                  NextWindow(watermark, range.grain, now)
                  = IF Closed(now) THEN <<windows[n + 1]>> ELSE <<>>
=============================================================================
