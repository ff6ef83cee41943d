------------------------------ MODULE CliArgs -------------------------------
(***************************************************************************)
(* How `sisal migrate` reads its command line (packages/migrate/src/cli    *)
(* .ts): the flags and their values, the log level, the options of the     *)
(* migrate() call, and the database that flags, the configuration and the  *)
(* environment name together.                                              *)
(*                                                                         *)
(* An argument is a word, `--name` or `--name=value` (a value of <<>> is   *)
(* none), a run of n v's behind a dash, `-c`, or `--`.                     *)
(***************************************************************************)
EXTENDS Integers, Sequences, SequencesExt, FiniteSetsExt, TLC

Word(text) == [is |-> "word", text |-> text]
Flag(name, value) == [is |-> "flag", name |-> name, value |-> value]
Vs(n) == [is |-> "v", count |-> n]
ShortConfig == [is |-> "c"]
Rest == [is |-> "--"]

ValueFlags == {"config", "database-path", "database-url", "log-level", "steps"}
LogLevels == {"silent", "error", "debug", "trace"}

-----------------------------------------------------------------------------
(* Parsing *)

\* Broken variant: whatever comes next is the value.
AnyNext(args, i) == i <= Len(args)

\* requireFlagValue: there is a next argument, and it does not begin with "-".
HasValue(args, i) == i <= Len(args) /\ args[i].is = "word"

\* What the loop knows: the flags, how many verbose flags, the words, the
\* argument it goes on at, and whether it has thrown.
Nothing == [flags |-> <<>>, verbose |-> 0, words |-> <<>>, next |-> 1,
            refused |-> FALSE]

SetFlag(s, name, value) == [s EXCEPT !.flags = (name :> value) @@ @]

TakeValue(args, s, i, name) ==
    IF ~HasValue(args, i + 1) THEN [s EXCEPT !.refused = TRUE]
    ELSE [SetFlag(s, name, <<IF args[i + 1].is = "word" THEN args[i + 1].text
                             ELSE "-">>) EXCEPT !.next = i + 2]

\* One round of the loop of parseArgs.
Read(args, s, i) ==
    LET arg == args[i]
    IN  CASE i < s.next \/ s.refused -> s
          [] arg.is = "--" ->
                [s EXCEPT !.words = @ \o [j \in 1 .. Len(args) - i |-> args[i + j]],
                          !.next = Len(args) + 1]
          [] arg.is = "c" -> TakeValue(args, s, i, "config")
          [] arg.is = "v" -> [s EXCEPT !.verbose = @ + arg.count]
          [] arg.is = "word" -> [s EXCEPT !.words = Append(@, arg)]
          [] arg.is = "flag" ->
                CASE arg.name = "verbose" /\ arg.value # <<>> ->
                        [s EXCEPT !.refused = TRUE]
                  [] arg.name = "verbose" -> [s EXCEPT !.verbose = @ + 1]
                  [] arg.name \in ValueFlags /\ arg.value = <<>> ->
                        TakeValue(args, s, i, arg.name)
                  [] OTHER -> SetFlag(s, arg.name, arg.value)

ParseArgs(args) ==
    FoldLeft(LAMBDA s, i : Read(args, s, i), Nothing, [i \in DOMAIN args |-> i])

Has(parsed, name) == name \in DOMAIN parsed.flags

\* flags.get(name) === true: given, without a value.
IsSet(parsed, name) == Has(parsed, name) /\ parsed.flags[name] = <<>>

Verbosity(parsed) ==
    {w \in {"quiet", "log-level", "verbose"} :
        IF w = "verbose" THEN parsed.verbose > 0
        ELSE IF w = "quiet" THEN IsSet(parsed, w) ELSE Has(parsed, w)}

\* resolveCliLogLevelFlag: one way of saying it, at most, and a level there is.
LogLevelRefused(parsed) ==
    \/ Cardinality(Verbosity(parsed)) > 1
    \/ Has(parsed, "log-level") /\ parsed.flags["log-level"][1] \notin LogLevels

LogLevel(parsed) ==
    CASE IsSet(parsed, "quiet") -> "silent"
      [] Has(parsed, "log-level") -> parsed.flags["log-level"][1]
      [] parsed.verbose > 1 -> "trace"
      [] parsed.verbose = 1 -> "debug"
      [] OTHER -> ""

Numbers == "1" :> 1 @@ "2" :> 2 @@ "0" :> 0

\* optionalPositiveInteger; 0 is no limit.
StepsRefused(parsed) ==
    /\ Has(parsed, "steps")
    /\ \/ parsed.flags["steps"][1] \notin DOMAIN Numbers
       \/ Numbers[parsed.flags["steps"][1]] <= 0
Steps(parsed) == IF Has(parsed, "steps") THEN Numbers[parsed.flags["steps"][1]] ELSE 0

-----------------------------------------------------------------------------
(* The database: "" is one that is not named *)

FirstOf(names) ==
    LET named == {i \in DOMAIN names : names[i] # ""}
    IN  IF named = {} THEN "" ELSE names[Min(named)]

StringFlag(parsed, name) == IF Has(parsed, name) THEN parsed.flags[name][1] ELSE ""

DefaultFile == "sisal.migrate.ts"

\* Broken variant: the environment comes before the configuration.
EnvironmentFirst(parsed, config, env) ==
    FirstOf(<<StringFlag(parsed, "database-url"), env.url, config.url>>)

\* loadConfig.
DatabaseUrl(parsed, config, env) ==
    FirstOf(<<StringFlag(parsed, "database-url"), config.url, env.url>>)
DatabasePath(parsed, config) ==
    FirstOf(<<StringFlag(parsed, "database-path"), config.path>>)

\* loadDefaultAdapter, createMigrator: what the migrator is made with.
Database(parsed, config, env) ==
    IF config.dialect = "sqlite"
    THEN FirstOf(<<DatabasePath(parsed, config), DatabaseUrl(parsed, config, env)>>)
    ELSE DatabaseUrl(parsed, config, env)

\* runSisalCli, commandMigrate: refused, or the call that is made.
Migrate(args, config, env) ==
    LET parsed == ParseArgs(args)
    IN  IF \/ parsed.refused \/ LogLevelRefused(parsed) \/ StepsRefused(parsed)
           \/ parsed.words = <<>> \/ parsed.words[1] # Word("migrate")
           \/ Database(parsed, config, env) = ""
        THEN <<>>
        ELSE <<[file |-> FirstOf(<<StringFlag(parsed, "config"), DefaultFile>>),
                dryRun |-> IsSet(parsed, "dry-run"),
                allowDirty |-> IsSet(parsed, "allow-dirty"),
                steps |-> Steps(parsed), level |-> LogLevel(parsed),
                database |-> Database(parsed, config, env)]>>

-----------------------------------------------------------------------------
(* Bounds: a command line is written from what is asked for, in one of the  *)
(* forms that the help lists                                                *)

Ask(name, value) == [name |-> name, value |-> value]

Forms(ask) ==
    CASE ask.name = "verbose" -> {<<Vs(1)>>, <<Flag("verbose", <<>>)>>}
      [] ask.name \in {"dry-run", "allow-dirty", "quiet"} -> {<<Flag(ask.name, <<>>)>>}
      [] ask.value = <<>> -> {<<Flag(ask.name, <<>>)>>}  \* the value forgotten
      [] OTHER -> {<<Flag(ask.name, <<>>), Word(ask.value[1])>>,
                   <<Flag(ask.name, ask.value)>>}
                  \cup (IF ask.name # "config" THEN {}
                        ELSE {<<ShortConfig, Word(ask.value[1])>>})

Asks == {Ask("dry-run", <<>>), Ask("allow-dirty", <<>>), Ask("quiet", <<>>),
         Ask("verbose", <<>>), Ask("log-level", <<"error">>),
         Ask("log-level", <<"loud">>), Ask("steps", <<"1">>), Ask("steps", <<"2">>),
         Ask("steps", <<"0">>), Ask("database-url", <<>>),
         Ask("config", <<"f">>), Ask("database-url", <<"u">>), Ask("database-path", <<"p">>)}

CommandLines(asks) ==
    {FlattenSeq(forms) : forms \in
        {f \in [DOMAIN asks -> UNION {Forms(asks[i]) : i \in DOMAIN asks}] :
            \A i \in DOMAIN asks : f[i] \in Forms(asks[i])}}

CliSamples ==
    [asks : UNION {[1 .. n -> Asks] : n \in 0 .. 2}, command : {"first", "last", "rest"},
     config : {c \in [dialect : {"sqlite", "postgres"}, url : {"", "cu"}, path : {"", "cp"}] :
                  c.dialect = "postgres" => c.path = ""},
     env : [url : {"", "eu"}]]

Asked(s, name) == {i \in DOMAIN s.asks : s.asks[i].name = name}
LastOf(s, name) == s.asks[Max(Asked(s, name))].value[1]

Given(s, name) == IF Asked(s, name) # {} THEN LastOf(s, name) ELSE ""

\* A value was forgotten, one makes no sense, or two things contradict.
Wrong(s) ==
    \/ \E i \in Asked(s, "database-url") : s.asks[i].value = <<>>
    \/ Asked(s, "steps") # {} /\ LastOf(s, "steps") = "0"
    \/ Asked(s, "log-level") # {} /\ LastOf(s, "log-level") = "loud"
    \/ Cardinality({n \in {"quiet", "verbose", "log-level"} : Asked(s, n) # {}}) > 1

\* The database that is meant: one of the command line before one of the
\* configuration before one of the environment; of SQLite, a path before a URL.
Meant(s) ==
    LET urls == <<Given(s, "database-url"), s.config.url, s.env.url>>
    IN  IF s.config.dialect = "sqlite"
        THEN FirstOf(<<Given(s, "database-path"), s.config.path>> \o urls)
        ELSE FirstOf(urls)

\* A command line does what was asked for, in whatever forms and order it is
\* written: a dry run is one, no flag is taken for another's value, the database
\* is the one meant; and one that is wrong does nothing.
ArgsMean(s) ==
    \A line \in CommandLines(s.asks) :
        LET command == Word("migrate")
            args == CASE s.command = "first" -> <<command>> \o line
                      [] s.command = "last" -> Append(line, command)
                      [] s.command = "rest" -> line \o <<Rest, command>>
            did == Migrate(args, s.config, s.env)
        IN  IF \/ Wrong(s) \/ Meant(s) = ""
            THEN did = <<>>
            ELSE did = <<[file |-> FirstOf(<<Given(s, "config"), DefaultFile>>),
                          dryRun |-> Asked(s, "dry-run") # {},
                          allowDirty |-> Asked(s, "allow-dirty") # {},
                          steps |-> IF Asked(s, "steps") = {} THEN 0
                                    ELSE Numbers[LastOf(s, "steps")],
                          level |-> CASE Asked(s, "quiet") # {} -> "silent"
                                      [] Asked(s, "log-level") # {} -> LastOf(s, "log-level")
                                      [] Cardinality(Asked(s, "verbose")) = 2 -> "trace"
                                      [] Cardinality(Asked(s, "verbose")) = 1 -> "debug"
                                      [] OTHER -> "",
                          database |-> Meant(s)]>>
=============================================================================
