------------------------------ MODULE Logging -------------------------------
(***************************************************************************)
(* One call on the Database facade and the events it logs                  *)
(* (packages/core/src/logger.ts; execute, batch and transaction of         *)
(* packages/orm/src/core/database.ts).  Events are asked for before, and   *)
(* after, the statements; the sink is the program's, answers isEnabled as  *)
(* it likes each time, and its log() may throw.                            *)
(***************************************************************************)
EXTENDS Integers, Sequences

CONSTANT Answers  \* what isEnabled does when asked: "yes", "no" or "throws"

ASSUME AnswersAssumption == "yes" \in Answers /\ Answers \subseteq {"yes", "no", "throws"}

VARIABLES
    made,       \* the call: its kind, the settings, whether it binds parameters
    logPc,      \* where it stands
    timed,      \* whether its end is to be logged
    landed,     \* the statements took effect
    unreadable, \* a value that came back could not be decoded
    told        \* the events handed to log(), in order

loggingVars == <<made, logPc, timed, landed, unreadable, told>>

Order == [silent |-> -1, error |-> 0, warn |-> 1, info |-> 2, debug |-> 3, trace |-> 4]

Event(level, category, what) == [level |-> level, category |-> category, what |-> what]

\* Broken variant: a category's own level is not looked at.
PassesLevelOnly(settings, e) ==
    settings.level # "silent" /\ Order[e.level] <= Order[settings.level]

\* logEnabled, before the sink is asked: a category may be "on" or "off", or
\* have a level instead of the general one.
Passes(settings, e) ==
    LET own == settings.categories[e.category]
        threshold == IF own = "unset" THEN settings.level ELSE own
    IN  /\ settings.level # "silent" /\ own # "off"
        /\ own # "on" => Order[e.level] <= Order[threshold]

Asked(e) == IF Passes(made.settings, e) THEN Answers ELSE {"no"}

\* Broken variant: what log() throws reaches the caller.
EmitLoud(e, next, thrown) ==
    \E answer \in Asked(e), throws \in BOOLEAN :
        /\ told' = IF answer = "yes" THEN Append(told, e) ELSE told
        /\ logPc' = IF answer = "throws" \/ (answer = "yes" /\ throws) THEN thrown ELSE next

\* emitSisalLogEvent asks again.  What log() throws is swallowed, so whether it
\* does makes no difference; what isEnabled throws is not.
Emit(e, next, thrown) ==
    \E answer \in Asked(e) :
        /\ told' = IF answer = "yes" THEN Append(told, e) ELSE told
        /\ logPc' = IF answer = "throws" THEN thrown ELSE next

\* if (enabled(...)) emit(...)
Announce(e, next, thrown) ==
    \/ "yes" \in Asked(e) /\ Emit(e, next, thrown)
    \/ \E answer \in Asked(e) \ {"yes"} :
          /\ logPc' = IF answer = "throws" THEN thrown ELSE next
          /\ UNCHANGED told

Skip(next) == logPc' = next /\ UNCHANGED told

-----------------------------------------------------------------------------
(* The call *)

LogCategory == [execute |-> "orm.result", batch |-> "orm.batch", transaction |-> "orm.transaction"]

\* Only with structured settings are binds and transactions logged.
Structured == made.settings.metadata

\* The text of a query, before it is run.
LogSql ==
    /\ logPc = "sql"
    /\ Announce(Event("debug", "orm.sql", "started"), "bind", "rejected")
    /\ UNCHANGED <<made, timed, landed, unreadable>>

LogBind ==
    /\ logPc = "bind"
    /\ IF made.binds /\ made.settings.parameters # "off" /\ Structured
       THEN Announce(Event("trace", "orm.bind", "parameters"), "gate", "rejected")
       ELSE Skip("gate")
    /\ UNCHANGED <<made, timed, landed, unreadable>>

\* Whether the end will be logged is asked at the start; batches and
\* transactions log their start with it.
Gate ==
    LET e == Event("debug", LogCategory[made.kind], "started")
    IN  /\ logPc = "gate"
        /\ \/ /\ made.kind = "transaction" => Structured
              /\ "yes" \in Asked(e) /\ timed' = TRUE
              /\ IF made.kind = "execute" THEN Skip("running") ELSE Emit(e, "running", "rejected")
           \/ /\ made.kind = "transaction" /\ ~Structured
              /\ Skip("running") /\ UNCHANGED timed
           \/ /\ made.kind = "transaction" => Structured
              /\ \E answer \in Asked(e) \ {"yes"} :
                    Skip(IF answer = "throws" THEN "rejected" ELSE "running")
              /\ UNCHANGED timed
        /\ UNCHANGED <<made, landed, unreadable>>

\* The driver's answer.
Ran ==
    /\ logPc = "running"
    /\ \/ landed' = TRUE /\ Skip("completed")
       \/ landed' = FALSE /\ Skip("failed")
    /\ UNCHANGED <<made, timed, unreadable>>

LogCompleted ==
    /\ logPc = "completed"
    /\ LET next == IF made.kind = "execute" THEN "decoding" ELSE "resolved"
       IN  IF timed THEN Emit(Event("debug", LogCategory[made.kind], "completed"), next, "failed")
                    ELSE Skip(next)
    /\ UNCHANGED <<made, timed, landed, unreadable>>

\* The rows are decoded inside the same try.
Decode ==
    /\ logPc = "decoding"
    /\ \/ Skip("resolved") /\ UNCHANGED unreadable
       \/ Skip("failed") /\ unreadable' = TRUE
    /\ UNCHANGED <<made, timed, landed>>

\* The failure is logged, and thrown on.
LogFailed ==
    LET category == IF made.kind = "execute" THEN "orm.query" ELSE LogCategory[made.kind]
    IN  /\ logPc = "failed"
        /\ IF made.kind = "transaction" /\ ~Structured THEN Skip("rejected")
           ELSE Announce(Event("error", category, "failed"), "rejected", "rejected")
        /\ UNCHANGED <<made, timed, landed, unreadable>>

LoggingNext ==
    LogSql \/ LogBind \/ Gate \/ Ran \/ LogCompleted \/ Decode \/ LogFailed

-----------------------------------------------------------------------------
(* Bounds *)

LogCategories == {"orm.sql", "orm.bind", "orm.result", "orm.query", "orm.batch", "orm.transaction"}

\* Normalized settings: with one general level and one category of its own.
LogSettings ==
    {[level |-> level, metadata |-> metadata, parameters |-> parameters,
      categories |-> [c \in LogCategories |-> IF c = chosen THEN own ELSE "unset"]] :
        level \in {"silent", "error", "debug", "trace"}, metadata \in BOOLEAN,
        parameters \in {"off", "redacted"}, chosen \in LogCategories,
        own \in {"unset", "on", "off", "trace", "silent"}}

LoggingInit ==
    /\ made \in [kind : DOMAIN LogCategory, settings : LogSettings, binds : {TRUE}]
    /\ logPc = IF made.kind = "execute" THEN "sql" ELSE "gate"
    /\ timed = FALSE /\ landed = FALSE /\ unreadable = FALSE /\ told = <<>>

NoLogging ==
    /\ made = [kind |-> "none"] /\ logPc = "none"
    /\ timed = FALSE /\ landed = FALSE /\ unreadable = FALSE /\ told = <<>>

\* A caller is told that its call took effect if, and only if, it did, whatever
\* the sink does (but for values that came back and cannot be read); what is
\* logged is what happened: a call that is said to be completed was, and one that
\* is said to have failed is rejected; and nothing is logged that the settings
\* keep quiet.
LogsHarmless ==
    LET says(what) == \E i \in DOMAIN told : told[i].what = what
    IN  /\ logPc = "resolved" => landed
        /\ logPc = "rejected" => ~landed \/ unreadable
        /\ says("completed") => landed
        /\ says("failed") => logPc = "rejected"
        /\ \A i \in DOMAIN told :
              /\ made.settings.level # "silent"
              /\ made.settings.categories[told[i].category] \notin {"off", "silent"}
=============================================================================
