------------------------------ MODULE PapasLog ------------------------------
(***************************************************************************)
(* The two logs of Papas (utility/PDebug.h and Log.h), which are made when *)
(* they are first used, the registry of spdlog that keeps them, and a      *)
(* rotating logger that a program adds.  Everything is in one thread.      *)
(*                                                                         *)
(* A program runs, is ended or crashes, and is started again: files stay,  *)
(* all else is new.  A line is the number of the call that wrote it; the   *)
(* length of LineSize bounds the lines.  What Log appends to its file is   *)
(* left out, and so are the numbers of these lines.                        *)
(***************************************************************************)
EXTENDS FileSink

CONSTANTS DebugFile,    \* the names a program may give to PDebug::File
          OwnName,      \* the names it may give to a rotating logger of its own
          LevelSet      \* the levels it may give to set_level

NoFile == "" \* of PDebug, before File() is called

Name == {"pdebug", "papas_logger", "rotating"}

ASSUME LogAssumption ==
  /\ DebugFile \cap {NoFile, "none", "null", "logfile", "rotating"} = {}    \* other sinks
  /\ OwnName \subseteq Name /\ LevelSet \subseteq 0..9

\* Levels, as in the enumeration.
debug == 1
info == 2
err == 5
off == 9
Level == 0..9

VARIABLES state,            \* of the program
          line,             \* the last line
          initialized,      \* PDebug::logInitialized and Log::logInitialized
          s_On, s_fname, slevel,    \* of PDebug
          loggers,          \* _loggers of the registry
          level,            \* _level of the registry, for the loggers it creates
          simple            \* what the files of PDebug hold; they are flushed line by line

\* History: the last line of the runs before this one, and what the files of
\* PDebug held then; whether PDebug could not delete its file in this run; lines
\* that the rotating sink took; whether an init() threw or a logger was dropped.
VARIABLES earlier, found, undeleted, taken, forgone

registryVars == <<loggers, level>>
pdebugVars == <<s_On, s_fname, slevel>>
historyVars == <<earlier, found, undeleted, taken, forgone>>
vars == <<sinkVars, state, line, initialized, pdebugVars, registryVars, simple, historyVars>>

None == [sink |-> "none"]
Logger == [sink : DebugFile \cup {"null", "logfile", "rotating"}, level : Level,
           flush_level : Level]

LogTypeOK ==
  /\ files \in [File -> {Absent} \cup Seq(Line)]
  /\ unflushed \in 0..Len(Content(0)) /\ current_size \in Nat
  /\ state \in {"running", "stopped", "terminated"}
  /\ line \in 0..Len(LineSize) /\ earlier \in 0..line /\ taken \subseteq 1..line
  /\ initialized \in [{"pdebug", "papas_logger"} -> BOOLEAN]
  /\ {forgone, undeleted, s_On} \subseteq BOOLEAN
  /\ s_fname \in DebugFile \cup {NoFile}
  /\ {slevel, level} \subseteq Level
  /\ loggers \in [Name -> Logger \cup {None}]
  /\ {simple, found} \subseteq [DebugFile -> {Absent} \cup Seq(Line)]

\* The static variables of a program that starts.
Fresh ==
  /\ initialized' = [n \in {"pdebug", "papas_logger"} |-> FALSE]
  /\ s_On' = FALSE /\ s_fname' = NoFile /\ slevel' = info
  /\ loggers' = [n \in Name |-> None]
  /\ level' = info
  /\ earlier' = line /\ found' = simple
  /\ undeleted' = FALSE /\ forgone' = FALSE

Init ==
  /\ SinkInit
  /\ initialized = [n \in {"pdebug", "papas_logger"} |-> FALSE]
  /\ s_On = FALSE /\ s_fname = NoFile /\ slevel = info
  /\ loggers = [n \in Name |-> None]
  /\ level = info
  /\ state = "running" /\ line = 0
  /\ simple = [f \in DebugFile |-> Absent] /\ found = simple
  /\ earlier = 0 /\ taken = {} /\ undeleted = FALSE /\ forgone = FALSE
-----------------------------------------------------------------------------
(***************************************************************************)
(* What a program says to PDebug and to the registry.                      *)
(***************************************************************************)

Running == state = "running"

\* A PDebug object is made; what it sets is static.
PDebug ==
  /\ Running
  /\ s_fname' = NoFile /\ slevel' = err /\ s_On' = FALSE
  /\ UNCHANGED <<sinkVars, state, line, initialized, registryVars, simple, historyVars>>

SetFile(fname) ==
  /\ Running
  /\ s_On' = TRUE /\ s_fname' = fname /\ slevel' = info
  /\ UNCHANGED <<sinkVars, state, line, initialized, registryVars, simple, historyVars>>

SetLevel(l) ==
  /\ Running
  /\ level' = l
  /\ loggers' = [n \in Name |-> IF loggers[n] = None THEN None
                                ELSE [loggers[n] EXCEPT !.level = l]]
  /\ UNCHANGED <<sinkVars, state, line, initialized, pdebugVars, simple, historyVars>>

FlushOn(n, l) ==
  /\ Running /\ loggers[n] # None
  /\ loggers' = [loggers EXCEPT ![n].flush_level = l]
  /\ UNCHANGED <<sinkVars, state, line, initialized, pdebugVars, level, simple, historyVars>>

\* A logger that is dropped goes with its file, unless m_sinks of PDebug or
\* Log keeps it.
Drop(n) ==
  /\ Running /\ loggers[n] # None
  /\ loggers' = [loggers EXCEPT ![n] = None]
  /\ forgone' = TRUE
  /\ IF loggers[n].sink = "rotating" THEN Flushed ELSE UNCHANGED unflushed
  /\ UNCHANGED <<files, current_size, state, line, initialized, pdebugVars, level, simple, earlier, found, undeleted, taken>>

drop_all ==
  /\ Running
  /\ loggers' = [n \in Name |-> None]
  /\ forgone' = TRUE /\ Flushed
  /\ UNCHANGED <<files, current_size, state, line, initialized, pdebugVars, level, simple, earlier, found, undeleted, taken>>

\* rotating_logger_mt, under any name: the file is opened before the name is
\* checked.  Two loggers never share the files (a bound of the model).
rotating_logger(n, ok) ==
  /\ Running /\ \A m \in Name : loggers[m].sink # "rotating"
  /\ Open(ok)
  /\ loggers' = IF ok /\ loggers[n] = None
                THEN [loggers EXCEPT ![n] = [sink |-> "rotating", level |-> level, flush_level |-> off]]
                ELSE loggers
  /\ UNCHANGED <<state, line, initialized, pdebugVars, level, simple, historyVars>>
-----------------------------------------------------------------------------
(***************************************************************************)
(* PDebug::log() and Log::log(): the first call makes the logger.          *)
(***************************************************************************)

\* What register_logger leaves, whether it throws, and whether the file that
\* was opened first could not be deleted.
Registered(n, sink, lvl, written, kept) ==
  IF loggers[n] = None
  THEN [loggers |-> [loggers EXCEPT ![n] = [sink |-> sink, level |-> lvl, flush_level |-> off]],
        simple |-> written, kept |-> kept, threw |-> FALSE]
  ELSE [loggers |-> loggers, simple |-> written, kept |-> kept, threw |-> TRUE]

NotOpened(written, kept) == [loggers |-> loggers, simple |-> written, kept |-> kept, threw |-> TRUE]

\* log() has been called before.
Made == [loggers |-> loggers, simple |-> simple, kept |-> FALSE, threw |-> FALSE]

IfMayFail(outcomes) == IF MayFail THEN outcomes ELSE {}

\* Mutant: the file of an earlier run is not removed.
InitPDebugAppending ==
  IF s_fname = NoFile THEN {Registered("pdebug", "null", slevel, simple, FALSE)}
  ELSE {Registered("pdebug", s_fname, slevel,
                   [simple EXCEPT ![s_fname] = IF @ = Absent THEN <<>> ELSE @], FALSE)}

\* What std::remove leaves of the file, and whether it failed: nobody asks.
Removed ==
  IF slevel # info THEN {[text |-> simple[s_fname], kept |-> FALSE]}
  ELSE {[text |-> Absent, kept |-> FALSE]}
         \cup IF simple[s_fname] = Absent THEN {} ELSE IfMayFail({[text |-> simple[s_fname], kept |-> TRUE]})

\* The file is opened to be appended to, if it can be opened.
Opened(left) ==
  LET text == IF left.text = Absent THEN <<>> ELSE left.text IN
  {Registered("pdebug", s_fname, slevel, [simple EXCEPT ![s_fname] = text], left.kept)}
    \cup IfMayFail({NotOpened([simple EXCEPT ![s_fname] = left.text], left.kept)})

InitPDebug ==
  IF s_fname = NoFile THEN {Registered("pdebug", "null", slevel, simple, FALSE)}
  ELSE UNION {Opened(left) : left \in Removed}

InitLog ==
  {Registered("papas_logger", "logfile", debug, simple, FALSE)}
    \cup IfMayFail({NotOpened(simple, FALSE)})

\* Mutant: PDebug and Log share a flag.
LogOneFlag(n) ==
  IF n = "rotating" \/ initialized["pdebug"] \/ initialized["papas_logger"]
  THEN {Made}
  ELSE IF n = "pdebug" THEN InitPDebug ELSE InitLog

\* What a call of log() may leave.
Log(n) ==
  IF n = "rotating" \/ initialized[n] THEN {Made}
  ELSE IF n = "pdebug" THEN InitPDebug ELSE InitLog

(***************************************************************************)
(* A line of level lvl for the logger that log() returned.  An exception   *)
(* of the sink comes out of the destructor of line_logger: the program is  *)
(* terminated.  A null pointer, when there is no such logger, ends it too. *)
(***************************************************************************)
Terminates == state' = "terminated"

ToSink(logger, lvl, written, ok) ==
  IF lvl < logger.level
  THEN UNCHANGED <<sinkVars, state, line, taken>> /\ simple' = written
  ELSE /\ ok \/ (MayFail /\ logger.sink # "null")
       /\ IF ok THEN UNCHANGED state ELSE Terminates
       /\ IF logger.sink \in {"null", "logfile"} THEN UNCHANGED line
          ELSE line < Len(LineSize) /\ line' = line + 1
       /\ IF logger.sink = "rotating"
          THEN /\ SinkIt(line + 1, lvl >= logger.flush_level, ok) /\ simple' = written
               /\ taken' = IF ok THEN taken \cup {line + 1} ELSE taken
          ELSE /\ UNCHANGED <<sinkVars, taken>>
               /\ simple' = IF logger.sink \in DebugFile /\ ok
                            THEN [written EXCEPT ![logger.sink] = Append(@, line + 1)] ELSE written

LogLine(n, lvl, ok) ==
  \E made \in Log(n) :
    /\ initialized' = [m \in DOMAIN initialized |-> initialized[m] \/ m = n]
    /\ loggers' = made.loggers
    /\ undeleted' = (undeleted \/ made.kept) /\ forgone' = (forgone \/ made.threw)
    /\ IF made.threw THEN UNCHANGED <<sinkVars, state, line, taken>> /\ simple' = made.simple
       ELSE IF made.loggers[n] = None
       THEN UNCHANGED <<sinkVars, line, taken>> /\ simple' = made.simple /\ Terminates
       ELSE ToSink(made.loggers[n], lvl, made.simple, ok)
    /\ UNCHANGED <<pdebugVars, level, earlier, found>>

\* PDebug::write(t).
WriteText(ok) == Running /\ LogLine("pdebug", info, ok)

\* PDebug::write(fmt, args...).
WriteFormatted(ok) == Running /\ s_On /\ LogLine("pdebug", info, ok)

\* Log::info(t) and the like.
LogText(lvl, ok) == Running /\ LogLine("papas_logger", lvl, ok)

\* Log::info(fmt, args...) and the like.
LogFormatted(lvl, ok) ==
  Running /\ initialized["papas_logger"] /\ LogLine("papas_logger", lvl, ok)

\* spdlog::get(n)->log(...) of a program that has looked whether n is there.
OwnLine(lvl, ok) ==
  Running /\ loggers["rotating"] # None /\ LogLine("rotating", lvl, ok)

PDebugFlush ==
  /\ Running
  /\ \E made \in Log("pdebug") :
       /\ initialized' = [initialized EXCEPT !["pdebug"] = TRUE]
       /\ loggers' = made.loggers /\ simple' = made.simple
       /\ undeleted' = (undeleted \/ made.kept) /\ forgone' = (forgone \/ made.threw)
       /\ IF ~made.threw /\ made.loggers["pdebug"] = None THEN Terminates ELSE UNCHANGED state
       /\ IF made.loggers["pdebug"].sink = "rotating" /\ ~made.threw
          THEN Flushed ELSE UNCHANGED unflushed
  /\ UNCHANGED <<files, current_size, line, pdebugVars, level, earlier, found, taken>>
-----------------------------------------------------------------------------
\* The program ends, and its files are closed.
Exit ==
  /\ Running /\ state' = "stopped" /\ Flushed
  /\ UNCHANGED <<files, current_size, line, initialized, pdebugVars, registryVars, simple, historyVars>>

Crash ==
  /\ Running /\ Terminates
  /\ UNCHANGED <<sinkVars, line, initialized, pdebugVars, registryVars, simple, historyVars>>

\* It is started again, and finds of a run that was terminated what had been
\* flushed, or more.
Start ==
  /\ ~Running /\ state' = "running" /\ Fresh
  /\ current_size' = 0 /\ unflushed' = 0
  /\ \E lost \in 0..IF state = "terminated" THEN unflushed ELSE 0 :
       LET kept == SubSeq(Content(0), 1, Len(Content(0)) - lost) IN
       /\ files' = IF lost = 0 THEN files ELSE [files EXCEPT ![0] = kept]
       /\ taken' = IF lost = 0 THEN taken ELSE taken \ (ToSet(Content(0)) \ ToSet(kept))
  /\ UNCHANGED <<line, simple>>

Next ==
  \/ PDebug \/ \E fname \in DebugFile : SetFile(fname)
  \/ \E l \in LevelSet : SetLevel(l)
  \/ \E n \in OwnName : FlushOn(n, info) \/ Drop(n)
  \/ drop_all
  \/ \E n \in OwnName, ok \in BOOLEAN : rotating_logger(n, ok)
  \/ \E ok \in BOOLEAN : WriteText(ok) \/ WriteFormatted(ok)
  \/ \E lvl \in {info}, ok \in BOOLEAN :
       LogText(lvl, ok) \/ LogFormatted(lvl, ok) \/ OwnLine(lvl, ok)
  \/ PDebugFlush
  \/ Exit \/ Crash \/ Start

Spec == Init /\ [][Next]_vars
-----------------------------------------------------------------------------
Holds(l) == \E i \in File : l \in ToSet(Content(i))

\* The files, read from the oldest to the newest, hold the lines in order, and
\* rotating drops the oldest of them only, whatever fails and however often
\* the program is started again.
RotationKeepsNewest ==
  /\ \A i, j \in File : \A m \in DOMAIN Content(i), n \in DOMAIN Content(j) :
       i > j \/ (i = j /\ m < n) => Content(i)[m] < Content(j)[n]
  /\ \A l \in taken : ~Holds(l) => \A i \in File : \A k \in ToSet(Content(i)) : l < k

\* PDebug writes a new file: what stands in it is of this run, in the order of
\* the calls.  Nobody asks whether the old file could be deleted; where it could
\* not, it is kept whole and the lines of this run follow: never a part of it,
\* and never a new line among the old ones.
DebugFileIsNewOrGoesOn ==
  \A f \in DebugFile : state = "running" /\ loggers["pdebug"].sink = f =>
    LET old == IF undeleted THEN found[f] ELSE <<>> IN
    /\ simple[f] # Absent /\ old # Absent /\ IsPrefix(old, simple[f])
    /\ \A i \in Len(old) + 1..Len(simple[f]) :
         simple[f][i] > IF i = Len(old) + 1 THEN earlier ELSE simple[f][i - 1]

\* log() returns a logger, unless its first call failed or it was dropped.
LoggerIsThere ==
  \A n \in DOMAIN initialized : initialized[n] /\ ~forgone => loggers[n] # None
=============================================================================
