--------------------------- MODULE TemporalValues ---------------------------
(***************************************************************************)
(* Dates, times and instants on their way into a database and back, when   *)
(* the facade was asked to parse them (packages/core/src/temporal.ts):     *)
(* serialized to ISO text, rewritten for MySQL, stored, handed over by the *)
(* driver as text or as a JavaScript Date, and decoded by the column's     *)
(* type.  The modes "string" and "date" hand over what the driver gives,   *)
(* and are left out; a fraction of a second, which a Date cuts, is too.    *)
(*                                                                         *)
(* A value is its type, a day and the minute in it, 0 where it has none;   *)
(* an instant's are those in UTC.  Text has the parts it is written with.  *)
(* A value is stored, and read by processes that run in zones of their own.*)
(***************************************************************************)
EXTENDS Integers, Sequences

CONSTANTS
    Moments,      \* the values that a program may store
    ProcessZones  \* minutes ahead of UTC at which a process may be

VARIABLES
    driver,  \* "pg", "neon", "mysql" or "sqlite"
    moment,  \* the value that is stored
    stored,  \* what the database was sent: <<>>, or its text
    reads    \* what was read: <<>>, or the value and the reader's zone

temporalVars == <<driver, moment, stored, reads>>

Val(type, day, minute) == [type |-> type, day |-> day, minute |-> minute]

ASSUME MomentsAssumption ==
    /\ ProcessZones \subseteq Int
    /\ \A value \in Moments :
          /\ value = Val(value.type, value.day, value.minute)
          /\ value.type \in {"date", "time", "timestamp", "timestamptz"}
          /\ value.day \in Int /\ value.minute \in 0 .. 1439
          /\ value.type = "date" => value.minute = 0
          /\ value.type = "time" => value.day = 0

Text(day, sep, minute, zone) ==
    [is |-> "text", day |-> day, sep |-> sep, minute |-> minute, zone |-> zone]
Unzoned == <<>>
Z == <<0>>
Unmarked(text) == Text(text.day, text.sep, text.minute, Unzoned)
Spaced(text) == Text(text.day, " ", text.minute, Unzoned)

Date(instant) == [is |-> "Date", instant |-> instant]
ToIsoString(date) ==
    Text(date.instant \div 1440, "T", date.instant % 1440, Z)

-----------------------------------------------------------------------------
(* In *)

\* serializeTemporalValue: an instant, and a zoned one, is written in UTC.
Serialize(value) ==
    CASE value.type = "date" -> Text(value.day, "", 0, Unzoned)
      [] value.type = "time" -> Text(0, "", value.minute, Unzoned)
      [] value.type = "timestamp" -> Text(value.day, "T", value.minute, Unzoned)
      [] value.type = "timestamptz" -> Text(value.day, "T", value.minute, Z)

\* mysqlInstantLiteral: MySQL takes no zone in a literal.
Literal(value) ==
    IF driver = "mysql" /\ value.type = "timestamptz"
    THEN Spaced(Serialize(value))
    ELSE Serialize(value)

-----------------------------------------------------------------------------
(* What a driver hands over of a column, in a process whose zone is that    *)
(* many minutes ahead of UTC                                                *)

\* SQLite keeps text as it was given, MySQL writes its own; the PostgreSQL
\* drivers make Dates, of a timestamp by the process's zone.  The two of pg put
\* a day at midnight in UTC, that of neon at midnight in the process's zone.
HandedOver(type, text, zone) ==
    LET wall == text.day * 1440 + text.minute
    IN  CASE driver = "sqlite" -> text
          [] driver = "mysql" ->
                IF type \in {"date", "time"} THEN text
                ELSE Spaced(text)
          [] driver \in {"pg", "neon"} ->
                CASE type = "time" -> text
                  [] type = "timestamptz" -> Date(wall)
                  [] type = "timestamp" -> Date(wall - zone)
                  [] type = "date" ->
                        Date(IF driver = "neon" THEN wall - zone ELSE wall)

-----------------------------------------------------------------------------
(* Out *)

IsDate(read) == read.is = "Date"

DateText(read) == IF IsDate(read) THEN ToIsoString(read) ELSE read

\* The zone of a time or a timestamp is cut off, whatever it is.
PlainText(read) == Unmarked(DateText(read))

\* Broken variant: a text without a zone is left as it is, to be refused.
InstantTextAsIs(read) == IF IsDate(read) THEN ToIsoString(read) ELSE read

\* A text without a zone is in UTC: only MySQL writes one.
InstantText(read) ==
    IF IsDate(read) THEN ToIsoString(read)
    ELSE IF read.zone = Unzoned
         THEN Text(read.day, read.sep, read.minute, Z) ELSE read

Invalid == Val("invalid", 0, 0)

\* Temporal.Instant.from: a text needs a zone.
InstantFrom(text) ==
    IF text.zone = Unzoned THEN Invalid
    ELSE LET utc == text.day * 1440 + text.minute - text.zone[1]
         IN  Val("timestamptz", utc \div 1440, utc % 1440)

\* parseTemporalColumnValue.
Parse(type, read) ==
    CASE type = "date" -> Val(type, DateText(read).day, 0)
      [] type = "time" -> Val(type, 0, PlainText(read).minute)
      [] type = "timestamp" ->
            Val(type, PlainText(read).day, PlainText(read).minute)
      [] type = "timestamptz" -> InstantFrom(InstantText(read))

-----------------------------------------------------------------------------
NoTemporal ==
    /\ driver = "pg" /\ moment = Invalid /\ stored = <<>> /\ reads = <<>>

TemporalInit ==
    /\ driver \in {"pg", "neon", "mysql", "sqlite"} /\ moment \in Moments
    /\ stored = <<>> /\ reads = <<>>

\* A process stores the value.
StoreValue ==
    /\ stored = <<>> /\ moment # Invalid
    /\ stored' = <<Literal(moment)>>
    /\ UNCHANGED <<driver, moment, reads>>

\* Another one reads it.
ReadValue(zone) ==
    /\ stored # <<>>
    /\ reads' = <<[zone |-> zone,
                   value |-> Parse(moment.type,
                                   HandedOver(moment.type, stored[1], zone))]>>
    /\ UNCHANGED <<driver, moment, stored>>

TemporalNext == StoreValue \/ \E zone \in ProcessZones : ReadValue(zone)

TemporalSpec == TemporalInit /\ [][TemporalNext]_temporalVars

-----------------------------------------------------------------------------
\* A Date that stands for no instant, but for a day or a wall clock read in the
\* zone of the process.
LocalDate(type) ==
    <<driver, type>> \in {<<"pg", "timestamp">>, <<"neon", "timestamp">>,
                          <<"neon", "date">>}

\* What was stored is read back, on every database and in every zone; what
\* comes as a local Date only where the zone is UTC.
ValuesKept ==
    reads # <<>> /\ (LocalDate(moment.type) => reads[1].zone = 0)
    => reads[1].value = moment

\* "A process-TZ-dependent representation difference that resolves to the same
\* Temporal.PlainDate": so it does west of UTC, and not east of it, where the
\* midnight of the process is the day before in UTC.
DatesResolve ==
    reads # <<>> /\ moment.type = "date" => reads[1].value = moment

-----------------------------------------------------------------------------
(* Bounds *)

SomeMoments ==
    {Val("date", day, 0) : day \in {-1, 0, 59}}
    \cup {Val("time", 0, minute) : minute \in {0, 754, 1439}}
    \cup {Val(type, day, minute) : type \in {"timestamp", "timestamptz"},
                                   day \in {-1, 0}, minute \in {0, 754, 1439}}
SomeZones == {-180, 0, 330}
=============================================================================
