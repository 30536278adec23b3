------------------------------ MODULE ExecText ------------------------------
(***************************************************************************)
(* From the structured form of a command to the arguments its client gets. *)
(* The server writes {"client": c, "args": [...], "flags": {...}} as one   *)
(* line of text (parseStructuredExec, appendFlag and quoteArg in           *)
(* internal/server/server.go), which the workers split into steps and      *)
(* words again (SplitPipeline and ParseCommand in engine/pipeline.go).     *)
(*                                                                         *)
(* A text is a sequence of character classes: Plain stands for every       *)
(* character that neither side treats specially, Space for white space.    *)
(* Template expressions, which are rendered in between, are left out: see  *)
(* Survivable.                                                             *)
(***************************************************************************)
LOCAL INSTANCE Integers
LOCAL INSTANCE Sequences
LOCAL INSTANCE SequencesExt

Plain     == "x"
Space     == " "
Single    == "'"
Double    == "\""
Backslash == "\\"
Open      == "{"
Close     == "}"
Bar       == "|"
Angle     == ">"
Shell     == "$"   \* any of < & ; ( ) $, which only quoteArg knows

Classes == {Plain, Space, Single, Double, Backslash, Open, Close, Bar, Angle, Shell}

-----------------------------------------------------------------------------

-----------------------------------------------------------------------------
(* The server writes. *)

NeedsQuotes(arg) ==
    ToSet(arg) \intersect {Space, Single, Double, Backslash, Bar, Angle, Shell} # {}

\* ' is written '\'' : the quotation is closed, a quote escaped, and opened again.
Escaped(c) == IF c = Single THEN <<Single, Backslash, Single, Single>> ELSE <<c>>

quoteArg(arg) ==
    IF arg = <<>> \/ NeedsQuotes(arg)
    THEN <<Single>> \o FlattenSeq([i \in DOMAIN arg |-> Escaped(arg[i])]) \o <<Single>>
    ELSE arg

Client   == <<Plain>>
FlagName == <<Plain>>   \* with its dashes; it is not quoted

\* The positional arguments, then the flags with their values.
StructuredExec(args, flags) ==
    Client \o FlattenSeq([i \in DOMAIN args |-> <<Space>> \o quoteArg(args[i])])
           \o FlattenSeq([i \in DOMAIN flags |-> <<Space>> \o FlagName \o <<Space>> \o quoteArg(flags[i])])

-----------------------------------------------------------------------------
(* The worker reads. *)

Trim(text) ==
    LET inner == {i \in DOMAIN text : text[i] # Space}
    IN  IF inner = {} THEN <<>>
        ELSE SubSeq(text, CHOOSE i \in inner : \A j \in inner : i <= j,
                          CHOOSE i \in inner : \A j \in inner : i >= j)

\* |> ends a step wherever it stands.
SplitPipeline(text) ==
    LET Read(acc, c) ==
          IF c = Angle /\ acc.step # <<>> /\ Last(acc.step) = Bar
          THEN [steps |-> Append(acc.steps, Front(acc.step)), step |-> <<>>]
          ELSE [acc EXCEPT !.step = Append(@, c)]
        last == FoldLeft(Read, [steps |-> <<>>, step |-> <<>>], text)
        all  == Append(last.steps, last.step)
    IN  SelectSeq([i \in DOMAIN all |-> Trim(all[i])], LAMBDA s : s # <<>>)

\* The automaton of ParseCommand: what it has read, and in which state it is.
ParserStart == [words |-> <<>>, word |-> <<>>, escaped |-> FALSE, single |-> FALSE,
                double |-> FALSE, depth |-> 0]

Write(s, c) == [s EXCEPT !.word = Append(@, c), !.escaped = FALSE]

EndWord(s) == IF s.word = <<>> THEN s ELSE [s EXCEPT !.words = Append(@, s.word), !.word = <<>>]

ReadChar(s, c) ==
    CASE s.escaped -> Write(s, c)
      [] ~s.escaped /\ c = Backslash /\ ~s.single -> [s EXCEPT !.escaped = TRUE]
      [] ~s.escaped /\ c = Double /\ ~s.single /\ s.depth = 0 -> [s EXCEPT !.double = ~@]
      [] ~s.escaped /\ c = Single /\ ~s.double /\ s.depth = 0 -> [s EXCEPT !.single = ~@]
      [] OTHER -> IF s.single \/ s.double THEN Write(s, c)
                  ELSE IF c = Open THEN [Write(s, c) EXCEPT !.depth = @ + 1]
                  ELSE IF c = Close /\ s.depth > 0 THEN [Write(s, c) EXCEPT !.depth = @ - 1]
                  ELSE IF c = Space /\ s.depth = 0 THEN EndWord(s)
                  ELSE Write(s, c)

ParseCommand(text) == EndWord(FoldLeft(ReadChar, ParserStart, text)).words

-----------------------------------------------------------------------------
(* What comes through. *)

\* How many braces an argument leaves open for ParseCommand.
OpenBraces(arg) ==
    FoldLeft(LAMBDA n, c : IF c = Open THEN n + 1 ELSE IF c = Close /\ n > 0 THEN n - 1 ELSE n,
             0, arg)

Has(arg, c, d) == \E i \in 1 .. Len(arg) - 1 : arg[i] = c /\ arg[i + 1] = d

\* A list of values, arguments or flags, that comes through: no value is empty, none
\* contains |>, and an unquoted one closes its braces, unless it is the last.
Survivable(values) ==
    \A i \in DOMAIN values :
      /\ values[i] # <<>>
      /\ ~Has(values[i], Bar, Angle)
      /\ OpenBraces(values[i]) = 0 \/ NeedsQuotes(values[i]) \/ i = Len(values)

NoTemplate(values) == \A i \in DOMAIN values : ~Has(values[i], Open, Open)

\* What the client gets: its steps, and in the only one its name and its values.
Received(args, flags) == LET steps == SplitPipeline(StructuredExec(args, flags))
                         IN  [i \in DOMAIN steps |-> ParseCommand(steps[i])]

Meant(args, flags) ==
    <<Client>> \o args \o FlattenSeq([i \in DOMAIN flags |-> <<FlagName, flags[i]>>])

Survives(args, flags) == Received(args, flags) = <<Meant(args, flags)>>

Texts(n) == UNION {[1 .. k -> Classes] : k \in 0 .. n}

\* Over all values up to a length, alone and in pairs: a pair of arguments, or an
\* argument and the value of a flag.
QuotingUndone ==
    /\ \A a \in Texts(3) : NoTemplate(<<a>>) => (Survives(<<a>>, <<>>) <=> Survivable(<<a>>))
    /\ \A a, b \in Texts(2) : NoTemplate(<<a, b>>) =>
         /\ Survives(<<a, b>>, <<>>) <=> Survivable(<<a, b>>)
         /\ Survives(<<a>>, <<b>>) <=> Survivable(<<a, b>>)

=============================================================================
