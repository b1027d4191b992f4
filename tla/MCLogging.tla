----------------------------- MODULE MCLogging -----------------------------
(***************************************************************************)
(* All that happens to a line.  A behaviour is about one of: the logs and  *)
(* their files; a format string and its arguments; a pattern and the lines *)
(* made with it; and the logger that writes to the terminal.               *)
(*                                                                         *)
(* Four lines of three lengths.  Format strings of up to two parts for a   *)
(* few lists of arguments, with a buffer so small that it has to grow in   *)
(* most of them.  Patterns of each flag, and of flags and characters in    *)
(* several orders, for times that differ in one field each.  Two threads.  *)
(***************************************************************************)
EXTENDS PapasLog, PapasLogger, Format

MCLineSize == <<1, 2, 3, 1>>

MCStatements == {[level |-> 3, operands |-> <<"a", "b">>], [level |-> 4, operands |-> <<"c", "d", "e">>],
                 [level |-> 2, operands |-> <<"f">>]}
-----------------------------------------------------------------------------
IntArg(n) == [type |-> "int", value |-> n]
DoubleArg(t) == [type |-> "double", special |-> FALSE, negative |-> FALSE, text |-> t]
NamedArg(n, arg) == [type |-> "named", name |-> n, arg |-> arg]

F(ref, spec) == [kind |-> "field", ref |-> ref, spec |-> spec,
                 width |-> Literally(spec.width), precision |-> Literally(spec.precision)]

Wide(align, fill) == [EmptySpec EXCEPT !.width = 6, !.align = align, !.fill = fill]
Hex == [EmptySpec EXCEPT !.width = 5, !.fill = "0", !.align = "numeric", !.flags = {"hash"}, !.type = "x"]
Precise(align) == [Wide(align, "*") EXCEPT !.precision = 3, !.type = "p"]
Signed(align) == [Wide(align, "0") EXCEPT !.flags = {"sign", "plus"}]

MCPart ==
  {[kind |-> "text", text |-> <<"{">>], [kind |-> "unmatched"],
   F(ByCount, EmptySpec), F(ByNumber(0), Hex), F(ByName("n"), EmptySpec),
   F(ByCount, Signed("default")), F(ByCount, Signed("numeric")),
   F(ByNumber(1), [EmptySpec EXCEPT !.precision = 1]),
   [F(ByCount, Wide("left", "*")) EXCEPT !.width = ByCount],
   [F(ByCount, EmptySpec) EXCEPT !.precision = ByNumber(0)],
   F(ByNumber(1), Precise("left")), F(ByNumber(1), Precise("center"))}
  \cup {F(ByCount, Wide(align, "*")) : align \in Align}

MCFormatString == UNION {[1..n -> MCPart] : n \in 1..2}

MCArgLists ==
  {<<IntArg(-10), IntArg(7)>>, <<DoubleArg(<<"1", ".", "5">>), IntArg(3), IntArg(0)>>,
   <<[type |-> "string", text |-> <<"a", "b">>], [type |-> "uint", value |-> 9]>>,
   <<[type |-> "char", value |-> 65, text |-> "A"], [type |-> "custom", text |-> <<"c", "d">>]>>,
   <<[type |-> "bool", value |-> 1], [type |-> "cstring", null |-> FALSE, value |-> 8, text |-> <<"s">>]>>,
   <<[type |-> "double", special |-> TRUE, negative |-> TRUE, text |-> <<"i", "n", "f">>],
     NamedArg("n", IntArg(1)), NamedArg("n", IntArg(2))>>,
   <<[type |-> "pointer", value |-> 31], [type |-> "cstring", null |-> TRUE, value |-> 0, text |-> <<>>]>>,
   <<>>}

-----------------------------------------------------------------------------
VARIABLES pattern, user_chars, _formatters, compiled, given, lines

At(tm, nanos, name) ==
  [tm |-> tm, nanos |-> nanos, name |-> name, level |-> "info", short_level |-> "I",
   thread_id |-> 7, raw |-> "text"]

Noon == [year |-> 117, mon |-> 8, mday |-> 9, wday |-> 6, hour |-> 12, min |-> 9, sec |-> 9, gmtoff |-> 120]

MCMessages ==
  {At(tm, 9000009, "a") :
     tm \in {Noon, [Noon EXCEPT !.year = 118, !.mon = 0], [Noon EXCEPT !.mon = 9, !.mday = 1],
             [Noon EXCEPT !.mday = 10, !.wday = 0, !.hour = 0], [Noon EXCEPT !.hour = 9, !.min = 59],
             [Noon EXCEPT !.min = 10, !.sec = 0], [Noon EXCEPT !.sec = 10, !.gmtoff = -150]}}
  \cup {At(Noon, 10000008, "a"), At(Noon, 10000108, "a")}

MCPatterns ==
  {<<"%", f>> : f \in {"n", "l", "L", "t", "v", "a", "A", "b", "h", "B", "c", "C", "Y", "D", "x", "m", "d",
                       "H", "I", "M", "S", "e", "f", "F", "p", "r", "R", "T", "X", "z", "+", "%", "q"}}
  \cup {<<"%", "m", "/", "%", "d">>, <<"%", "T", ".", "%", "f">>, <<"%", "R", ":", "%", "S">>,
        <<"a", "%", "q", "b", "c">>, <<"a", "b", "%">>, <<"%", "%", "n", "%", "n">>, <<"n">>}

Patterned == INSTANCE PatternFormatter
               WITH Patterns <- MCPatterns, Messages <- MCMessages, MaxLines <- 2
-----------------------------------------------------------------------------
patternVars == <<pattern, user_chars, _formatters, compiled, given, lines>>

MCInit == Init /\ FormatInit /\ Patterned!Init /\ TerminalInit

NoFormat == outcome = "idle"
NoPattern == given = <<>>
NoTerminal == ~papaslogger /\ alive

\* The program has not done anything with its logs.
NoLogs == Init

MCNext ==
  \/ /\ NoFormat /\ NoPattern /\ NoTerminal /\ Next
     /\ UNCHANGED <<formatVars, patternVars, terminalVars>>
  \/ /\ NoLogs /\ NoPattern /\ NoTerminal /\ FormatNext
     /\ UNCHANGED <<vars, patternVars, terminalVars>>
  \/ /\ NoLogs /\ NoFormat /\ NoTerminal /\ Patterned!Next
     /\ UNCHANGED <<vars, formatVars, terminalVars>>
  \/ /\ NoLogs /\ NoFormat /\ NoPattern /\ TerminalNext
     /\ UNCHANGED <<vars, formatVars, patternVars>>

MCSpec == MCInit /\ [][MCNext]_<<vars, formatVars, patternVars, terminalVars>>

\* What PatternFormatter says of the lines.
LinesSortByTime == Patterned!LinesSortByTime
=============================================================================
