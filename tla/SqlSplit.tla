------------------------------ MODULE SqlSplit ------------------------------
(***************************************************************************)
(* A generated migration is written as one script (buildMigrationFile of   *)
(* packages/migrate/src/core/workflow.ts) and split into its statements    *)
(* again when it runs (packages/migrate/src/core/sql_split.ts).            *)
(*                                                                         *)
(* Text is a sequence of characters; "nl" is a line feed, "sp" a space,    *)
(* "dq" a double quote and "bs" a backslash, and "a", "E" and "1" stand    *)
(* for the characters of identifiers.                                      *)
(***************************************************************************)
EXTENDS Integers, Sequences, SequencesExt, FiniteSetsExt

Letters == {"a", "E"}
IdentifierChars == Letters \cup {"1", "$"}
Blank == {"sp", "nl"}

At(text, i) == IF i \in DOMAIN text THEN text[i] ELSE "none"

Trim(text) ==
    LET solid == {i \in DOMAIN text : text[i] \notin Blank}
    IN  IF solid = {} THEN <<>> ELSE SubSeq(text, Min(solid), Max(solid))

\* dollarTagAt: `$$` or `$tag$` at an index, <<>> when there is none.
DollarTagAt(text, i) ==
    LET ends == {j \in i + 1 .. Len(text) :
                    /\ text[j] = "$"
                    /\ \A k \in i + 1 .. j - 1 : text[k] \in Letters \cup {"1"}
                    /\ j > i + 1 => text[i + 1] \in Letters}
    IN  IF ends = {} THEN <<>> ELSE SubSeq(text, i, CHOOSE j \in ends : TRUE)

\* An escape string: a quote after an E that is no end of an identifier.
EscapeAt(text, i) ==
    At(text, i - 1) = "E" /\ At(text, i - 2) \notin IdentifierChars

\* What the loop knows at an index: where it is, how deep in comments, the
\* open dollar quote, the index it goes on at, and the statements so far.
Start == [in |-> "text", depth |-> 0, tag |-> <<>>, next |-> 1, from |-> 1,
          found |-> <<>>]

Cut(text, s, i) ==
    LET statement == Trim(SubSeq(text, s.from, i))
    IN  [s EXCEPT !.from = i + 1,
                  !.found = IF statement \in {<<>>, <<";">>} THEN @
                            ELSE Append(@, statement)]

\* Outside everything: what opens here.
Open(text, s, i) ==
    LET two == <<At(text, i), At(text, i + 1)>>
        tag == IF text[i] = "$" THEN DollarTagAt(text, i) ELSE <<>>
    IN  CASE two = <<"-", "-">> -> [s EXCEPT !.in = "line", !.next = i + 2]
          [] two = <<"/", "*">> ->
                [s EXCEPT !.in = "block", !.depth = 1, !.next = i + 2]
          [] tag # <<>> ->
                [s EXCEPT !.in = "dollar", !.tag = tag, !.next = i + Len(tag)]
          [] text[i] = "'" ->
                [s EXCEPT !.in = IF EscapeAt(text, i) THEN "escape" ELSE "single"]
          [] text[i] = "dq" -> [s EXCEPT !.in = "double"]
          [] text[i] = ";" -> Cut(text, s, i)
          [] OTHER -> s

\* Broken variant: the first closing ends a comment, however deep.
CloseFlat(text, s, i) ==
    IF <<At(text, i), At(text, i + 1)>> = <<"*", "/">>
    THEN [s EXCEPT !.in = "text", !.next = i + 2] ELSE s

\* Block comments nest.
CloseBlock(text, s, i) ==
    LET two == <<At(text, i), At(text, i + 1)>>
    IN  CASE two = <<"/", "*">> -> [s EXCEPT !.depth = @ + 1, !.next = i + 2]
          [] two = <<"*", "/">> ->
                [s EXCEPT !.depth = @ - 1, !.next = i + 2,
                          !.in = IF s.depth = 1 THEN "text" ELSE "block"]
          [] OTHER -> s

CloseQuote(text, s, i, quote) ==
    CASE s.in = "escape" /\ text[i] = "bs" -> [s EXCEPT !.next = i + 2]
      [] text[i] = quote /\ At(text, i + 1) = quote -> [s EXCEPT !.next = i + 2]
      [] text[i] = quote -> [s EXCEPT !.in = "text"]
      [] OTHER -> s

\* One round of the loop.
Step(text, s, i) ==
    CASE i < s.next -> s
      [] OTHER ->
         CASE s.in = "line" -> IF text[i] = "nl" THEN [s EXCEPT !.in = "text"] ELSE s
           [] s.in = "block" -> CloseBlock(text, s, i)
           [] s.in = "dollar" ->
                 IF SubSeq(text, i, i + Len(s.tag) - 1) = s.tag
                 THEN [s EXCEPT !.in = "text", !.next = i + Len(s.tag)] ELSE s
           [] s.in \in {"single", "escape"} -> CloseQuote(text, s, i, "'")
           [] s.in = "double" -> CloseQuote(text, s, i, "dq")
           [] s.in = "text" -> Open(text, s, i)

SplitSqlStatements(text) ==
    LET s == FoldLeft(LAMBDA state, i : Step(text, state, i), Start,
                      [i \in DOMAIN text |-> i])
        tail == Trim(SubSeq(text, s.from, Len(text)))
    IN  IF tail = <<>> THEN s.found ELSE Append(s.found, tail)

\* buildMigrationFile: every statement ends in a semicolon, an empty line
\* between two.
Terminated(statement) ==
    IF Last(statement) = ";" THEN statement ELSE Append(statement, ";")

BuildScript(statements) ==
    LET given == SelectSeq([i \in DOMAIN statements |-> Trim(statements[i])],
                           LAMBDA t : t # <<>>)
    IN  FlattenSeq([i \in DOMAIN given |->
            Terminated(given[i])
                \o (IF i < Len(given) THEN <<"nl", "nl">> ELSE <<"nl">>)])

-----------------------------------------------------------------------------
(* Bounds: what statements of PostgreSQL are made of. *)

Pieces ==
    {<<"a">>, <<"$", "1">>, <<"-">>,
     <<"'", ";", "'">>, <<"'", "a", "'", "'", ";", "'">>,
     <<"'", "bs", "'">>, <<"a", "E", "'", "bs", "'">>,
     <<"E", "'", "bs", "'", ";", "'">>,
     <<"dq", ";", "'", "dq">>,
     <<"-", "-", "'", ";", "nl">>,
     <<"/", "*", "/", "*", ";", "*", "/", ";", "*", "/">>,
     <<"$", "$", ";", "'", "$", "$">>,
     <<"$", "a", "$", ";", "$", "$", ";", "$", "a", "$">>}

\* Two pieces are put side by side when both fit into so many characters.
PairLength == 16

\* Pieces with spaces around: a piece is a token, or several.
Spaced(ps) == FlattenSeq([i \in DOMAIN ps |-> <<"sp">> \o ps[i]])
\* A statement that ended in a line comment would hide its semicolon.
LineComment == <<"-", "-", "'", ";", "nl">>
Statements == {Trim(Spaced(ps)) : ps \in
                  {<<p>> : p \in Pieces \ {LineComment}}
                  \cup {<<p, q>> \in Pieces \X (Pieces \ {LineComment}) :
                            Len(p) + Len(q) <= PairLength}}
ScriptSamples == {<<s>> : s \in Statements}
                 \cup {<<s, p>> : s \in Statements, p \in Pieces \ {LineComment}}

\* A script is split into the statements it was built from, each with its
\* semicolon, whatever semicolons and quotes its literals, identifiers,
\* comments and bodies hold.
SplitKeeps(statements) ==
    SplitSqlStatements(BuildScript(statements)) =
        [i \in DOMAIN statements |-> Append(statements[i], ";")]
=============================================================================
