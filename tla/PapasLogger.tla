----------------------------- MODULE PapasLogger -----------------------------
(***************************************************************************)
(* papaslog (utility/Logger.h): the logger of warnings and errors that a   *)
(* program's main makes and every part of Papas reaches through a macro.   *)
(* A message is collected in a stream of its own and goes to the output    *)
(* when the stream is destroyed, through a chain of decorators.            *)
(*                                                                         *)
(* Papas has one thread; the documentation of OutStream promises that      *)
(* several may print, so there are several here.  An output operation of   *)
(* the standard library on a stream that they share is one step.           *)
(***************************************************************************)
EXTENDS Integers, Sequences

CONSTANTS Thread,
          Statements,   \* what is logged: a level and the operands of <<
          Threshold,    \* the level that main asks for
          MaxStatements \* bound on the statements of a thread

LevelName == <<"VERBOSE", "DEBUG", "INFO", "WARNING", "ERROR", "FATAL">>
Severity == 0..5

VARIABLES papaslogger,  \* whether main has made it
          at,           \* of each thread: where it is in a macro
          statement,    \* of each thread: the level, and the operands that are left
          m_stream,     \* of each thread: the cache of its OutStream
          out,          \* what the output stream was given
          alive

\* History: the statements of each thread, and the pieces of text that went out,
\* with the place where each ends.
VARIABLES logged, printed

terminalVars == <<papaslogger, at, statement, m_stream, out, alive, logged, printed>>

Idle == [level |-> 0, operands |-> <<>>]

TerminalInit ==
  /\ papaslogger = FALSE
  /\ at = [t \in Thread |-> "idle"]
  /\ statement = [t \in Thread |-> Idle]
  /\ m_stream = [t \in Thread |-> <<>>]
  /\ out = <<>> /\ alive = TRUE
  /\ logged = [t \in Thread |-> <<>>] /\ printed = <<>>
-----------------------------------------------------------------------------
\* getDefaultLogger, assigned before anything else is done.
SetLogger ==
  /\ ~papaslogger /\ papaslogger' = TRUE
  /\ UNCHANGED <<at, statement, m_stream, out, alive, logged, printed>>

\* The macros: logger() is dereferenced without a look at it.
Macro(t, s) ==
  /\ alive /\ at[t] = "idle" /\ Len(logged[t]) < MaxStatements
  /\ IF ~papaslogger
     THEN alive' = FALSE /\ UNCHANGED <<at, statement, logged>>
     ELSE /\ statement' = [statement EXCEPT ![t] = s]
          /\ IF Threshold <= s.level          \* DefaultFilterPolicy::doPrint
             THEN at' = [at EXCEPT ![t] = "inserting"]
             ELSE UNCHANGED at
          /\ logged' = [logged EXCEPT ![t] = Append(@, s)]
          /\ UNCHANGED alive
  /\ m_stream' = [m_stream EXCEPT ![t] = <<>>]
  /\ UNCHANGED <<papaslogger, out, printed>>

\* Mutant: what is inserted goes to the output at once.
InsertAtOnce(t) ==
  /\ alive /\ at[t] = "inserting" /\ statement[t].operands # <<>>
  /\ out' = Append(out, Head(statement[t].operands))
  /\ statement' = [statement EXCEPT ![t].operands = Tail(@)]
  /\ UNCHANGED <<papaslogger, at, m_stream, alive, logged, printed>>

\* operator<< of OutStream, once for each operand.
Insert(t) ==
  /\ alive /\ at[t] = "inserting" /\ statement[t].operands # <<>>
  /\ m_stream' = [m_stream EXCEPT ![t] = Append(@, Head(statement[t].operands))]
  /\ statement' = [statement EXCEPT ![t].operands = Tail(@)]
  /\ UNCHANGED <<papaslogger, at, out, alive, logged, printed>>

\* The decorators, from the outermost one: each puts something in front and
\* gives the whole to the next.
LevelDecorated(level, input) == <<LevelName[level + 1]>> \o input
NamedDecorated(input) == <<"Papas LOG">> \o input
TimedDecorated(input) == <<"now">> \o input

Decorated(level, input) == TimedDecorated(NamedDecorated(LevelDecorated(level, input)))

\* A piece of text was given to the output: its statement is the latest one.
GivenOut(t, part) ==
  printed' = Append(printed, [thread |-> t, n |-> Len(logged[t]), part |-> part, to |-> Len(out')])

\* The destructor of OutStream, up to the text: DefaultPrintPolicy::flush.
PrintText(t) ==
  /\ alive /\ at[t] = "inserting" /\ statement[t].operands = <<>>
  /\ out' = out \o Decorated(statement[t].level, m_stream[t])
  /\ at' = [at EXCEPT ![t] = "ending"] /\ GivenOut(t, "text")
  /\ UNCHANGED <<papaslogger, statement, m_stream, alive, logged>>

\* std::endl.
EndLine(t) ==
  /\ alive /\ at[t] = "ending"
  /\ out' = Append(out, "\n")
  /\ at' = [at EXCEPT ![t] = "idle"] /\ GivenOut(t, "end")
  /\ UNCHANGED <<papaslogger, statement, m_stream, alive, logged>>

TerminalNext ==
  \/ SetLogger
  \/ \E t \in Thread : \/ \E s \in Statements : Macro(t, s)
                       \/ Insert(t) \/ PrintText(t) \/ EndLine(t)

TerminalSpec == TerminalInit /\ [][TerminalNext]_terminalVars
-----------------------------------------------------------------------------
\* What a piece has to be, and where it begins: one follows the other.
TextOf(p) == IF p.part = "end" THEN <<"\n">>
             ELSE Decorated(logged[p.thread][p.n].level, logged[p.thread][p.n].operands)

PrintedTo(k) == IF k = 0 THEN 0 ELSE printed[k].to

\* The pieces that a thread must have printed: all of its earlier statements that
\* are not filtered, and of the latest one what it is through with.
Due(t, n, part) ==
  /\ n \in DOMAIN logged[t] /\ Threshold <= logged[t][n].level
  /\ \/ n < Len(logged[t])
     \/ at[t] = "idle"
     \/ at[t] = "ending" /\ part = "text"

IsPiece(p, t, n, part) == p.thread = t /\ p.n = n /\ p.part = part

\* The order in which a thread means its pieces to come out.
Precedes(p, q) == p.n < q.n \/ (p.n = q.n /\ p.part = "text" /\ q.part = "end")

\* The output is the pieces one after the other, with nothing between them.
OutputIsPieces ==
  /\ Len(out) = PrintedTo(Len(printed))
  /\ \A k \in DOMAIN printed : SubSeq(out, PrintedTo(k - 1) + 1, printed[k].to) = TextOf(printed[k])

\* Each piece is there once, and those of a thread are in order.
PiecesAreThoseDue ==
  /\ \A k \in DOMAIN printed : Due(printed[k].thread, printed[k].n, printed[k].part)
  /\ \A t \in Thread, part \in {"text", "end"} : \A n \in 1..Len(logged[t]) :
       Due(t, n, part) => \E k \in DOMAIN printed : IsPiece(printed[k], t, n, part)
  /\ \A k \in DOMAIN printed : \A j \in 1..(k - 1) :
       printed[j].thread = printed[k].thread => Precedes(printed[j], printed[k])

(***************************************************************************)
(* "Using local instances of this class therefore provides a thread-safe   *)
(* way for printing debug messages": whatever the threads do, the output   *)
(* is made of whole messages and ends of lines, each once, those of a      *)
(* thread in the order of its statements: the messages that were logged    *)
(* and not filtered.  A line may still hold two messages, as the end of    *)
(* the first is written in a step of its own.                              *)
(***************************************************************************)
MessagesAreWhole == OutputIsPieces /\ PiecesAreThoseDue
=============================================================================
